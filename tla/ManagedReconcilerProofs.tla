----------------------- MODULE ManagedReconcilerProofs ----------------------
(***************************************************************************)
(* Theorems about ManagedReconciler, for every value of its constants: the *)
(* types, the finalizer a creation runs under (CreateUnderFinalizer) and   *)
(* the decisions it is announced on (CreateFromLatest).                    *)
(***************************************************************************)
EXTENDS ManagedReconciler, TLAPS

-----------------------------------------------------------------------------
(* Type correctness.  The lemmas say what the building blocks of the       *)
(* actions do to each part of TypeOK.                                      *)

\* The absent object is an object.
LEMMA NoObjectType == NoObject \in Object
BY NameAssumption DEF NoObject, Object, Time, Synced

\* Updating the fields Reconcile updates keeps an object an object.
LEMMA ObjectUpdates ==
  ASSUME NEW o \in Object
  PROVE  /\ \A n \in Names : [o EXCEPT !.name = n] \in Object
         /\ \A n \in Names \cup {NoName}, t \in Time : [o EXCEPT !.name = n, !.succeeded = t] \in Object
         /\ \A t \in Time : [o EXCEPT !.pending = t] \in Object /\ [o EXCEPT !.failed = t] \in Object
         /\ \A b \in BOOLEAN : /\ [o EXCEPT !.finalizer = b] \in Object
                               /\ [o EXCEPT !.resolved = b] \in Object
                               /\ [o EXCEPT !.late = b] \in Object
                               /\ [o EXCEPT !.paused = b] \in Object
                               /\ [o EXCEPT !.deleted = b] \in Object
         /\ \A s \in Synced : [o EXCEPT !.synced = s] \in Object
         /\ \A s \in Specs : [o EXCEPT !.spec = s] \in Object
         /\ \A p \in SUBSET ManagementActions : [o EXCEPT !.policy = p] \in Object
BY Zenon DEF Object

\* Merging annotations keeps an object an object.
LEMMA AddAnnotationsType ==
  ASSUME NEW o \in Object, NEW a \in Object
  PROVE  AddAnnotations(o, a) \in Object
BY Zenon DEF Object, AddAnnotations

\* The continuations of a call keep the local variables and the queue typed.
LEMMA GotoType ==
  ASSUME TypeOK, NEW call \in Calls, NEW o \in Object, NEW c \in BOOLEAN, Goto(call, o, c)
  PROVE  LocalOK' /\ QueueOK'
BY DEF TypeOK, LocalOK, QueueOK, Goto, queue

\* What Forget leaves behind is typed.
LEMMA ForgetType ==
  ASSUME Forget
  PROVE  /\ mg' \in Object /\ policy' \in SUBSET ManagementActions
         /\ obs' \in Observation /\ tries' \in 0 .. RetrySteps - 1
BY NoObjectType, BoundAssumption DEF Forget, NoObservation, Observation

\* Finish keeps the local variables and the queue typed.
LEMMA FinishType ==
  ASSUME TypeOK, NEW s \in Synced, NEW q \in Requeues, NEW c \in BOOLEAN, Finish(s, q, c)
  PROVE  LocalOK' /\ QueueOK'
BY ForgetType DEF TypeOK, LocalOK, QueueOK, Finish, queue, Calls, Outcome

\* So does Return.
LEMMA ReturnType ==
  ASSUME TypeOK, NEW q \in Requeues, Return(q)
  PROVE  LocalOK' /\ QueueOK'
BY ForgetType, Zenon DEF TypeOK, LocalOK, QueueOK, Return, Outcome, NoOutcome, Synced, Requeues

\* A call that leaves the world alone keeps the type of the world.
LEMMA WorldType ==
  ASSUME TypeOK, UNCHANGED world
  PROVE  WorldOK'
BY DEF TypeOK, WorldOK, world

\* A call that leaves the API server alone keeps the type of the server.
LEMMA ServerType ==
  ASSUME TypeOK, UNCHANGED server
  PROVE  ServerOK'
BY DEF TypeOK, ServerOK, server

\* A failure is counted in a natural number.
LEMMA FaultType ==
  ASSUME TypeOK, Fault \/ UNCHANGED faults
  PROVE  faults' \in Nat
BY DEF TypeOK, Fault

\* Storing an object in the API server keeps the type of the server.
LEMMA StoreType ==
  ASSUME TypeOK, NEW o \in Object, Store(o)
  PROVE  ServerOK'
BY NoObjectType DEF TypeOK, ServerOK, Store

\* Every outcome of an update keeps the server and the fault counter typed.
LEMMA UpdateType ==
  ASSUME TypeOK, NEW o \in Object,
         \/ UpdateOK(o) \/ UpdateConflicts \/ UpdateNotFound
         \/ \E c \in BOOLEAN : UpdateFails(o, c)
  PROVE  ServerOK' /\ faults' \in Nat
BY StoreType, ServerType, FaultType
DEF UpdateOK, UpdateConflicts, UpdateNotFound, UpdateFails, server

\* A failing call of the external client, a publisher or the resolver keeps the types.
LEMMA CallFailsType ==
  ASSUME TypeOK, CallFails
  PROVE  ServerOK' /\ LocalOK' /\ QueueOK' /\ faults' \in Nat
<1>1. mgCurrent \in BOOLEAN BY DEF TypeOK, LocalOK
<1>2. "error" \in Synced /\ "now" \in Requeues BY DEF Synced, Requeues
<1>3. LocalOK' /\ QueueOK'
  BY <1>1, <1>2, FinishType, ReturnType DEF CallFails
<1> QED BY <1>3, ServerType, FaultType DEF CallFails

\* An update that fails and ends the reconcile keeps the types.
LEMMA UpdateErrsType ==
  ASSUME TypeOK, NEW o \in Object, UpdateErrs(o)
  PROVE  ServerOK' /\ LocalOK' /\ QueueOK' /\ faults' \in Nat
<1>1. mgCurrent \in BOOLEAN BY DEF TypeOK, LocalOK
<1>2. "error" \in Synced /\ "now" \in Requeues BY DEF Synced, Requeues
<1>3. LocalOK' /\ QueueOK'
  BY <1>1, <1>2, FinishType DEF UpdateErrs
<1> QED BY <1>3, UpdateType DEF UpdateErrs

\* Beginning a reconcile keeps the types.
LEMMA BeginType ==
  ASSUME TypeOK, NEW call \in Calls, NEW o \in Object, NEW q \in Outcome,
         Dequeue, Begin(call, o, q)
  PROVE  TypeOK'
<1>1. o.policy \in SUBSET ManagementActions BY DEF Object
<1>2. LocalOK' BY <1>1 DEF TypeOK, ServerOK, LocalOK, Begin
<1>3. ServerOK' BY ServerType DEF Dequeue
<1>4. WorldOK' BY WorldType DEF Dequeue
<1>5. QueueOK' /\ faults' \in Nat BY Zenon DEF TypeOK, QueueOK, Dequeue
<1> QED BY <1>2, <1>3, <1>4, <1>5 DEF TypeOK

\* Going on after Initialize keeps the types.
LEMMA AfterInitializeType ==
  ASSUME TypeOK, NEW o \in Object, NEW c \in BOOLEAN, AfterInitialize(o, c)
  PROVE  LocalOK' /\ QueueOK'
BY FinishType, GotoType DEF AfterInitialize, Synced, Requeues, Calls

\* Going on after late initialization keeps the types.
LEMMA AfterLateInitializeType ==
  ASSUME TypeOK, NEW o \in Object, NEW c \in BOOLEAN, AfterLateInitialize(o, c)
  PROVE  LocalOK' /\ QueueOK'
BY FinishType, GotoType DEF AfterLateInitialize, Synced, Requeues, Calls

\* Going on after AddFinalizer keeps the types.
LEMMA AfterFinalizerType ==
  ASSUME TypeOK, NEW o \in Object, NEW c \in BOOLEAN, AfterFinalizer(o, c)
  PROVE  LocalOK' /\ QueueOK'
BY AfterLateInitializeType, GotoType DEF AfterFinalizer, Calls

\* An attempt of UpdateCriticalAnnotations that was not the last is counted.
LEMMA RetryType ==
  ASSUME TypeOK, ~LastTry, NEW o \in Object, NEW c \in BOOLEAN, Retry(o, c)
  PROVE  LocalOK' /\ QueueOK'
BY BoundAssumption DEF TypeOK, LocalOK, QueueOK, Retry, LastTry, queue

\* Whatever name Create picks, the external resources stay resources.
LEMMA CreatedType ==
  ASSUME TypeOK, NEW n \in CreatedNames
  PROVE  n \in Names \cup {NoName} /\ Created(n) \in [Names -> Resource]
<1>1. mg.name \in Names \cup {NoName} /\ mg.spec \in Specs
  BY DEF TypeOK, LocalOK, Object
<1>2. n \in Names \cup {NoName}
  BY <1>1 DEF CreatedNames
<1>3. [state |-> "live", spec |-> mg.spec, ours |-> TRUE, created |-> now] \in Resource
  BY <1>1 DEF Resource, TypeOK, WorldOK
<1> QED BY <1>2, <1>3, Zenon DEF Created, TypeOK, WorldOK

\* What the labels and results used below belong to.
LEMMA Labels ==
  /\ {"initialize", "resolve", "connect", "observe", "delete", "unpublish", "removeFinalizer",
      "publish", "addFinalizer", "setPending", "create", "annotateFailed", "annotateSucceeded",
      "publishCreated", "lateInitialize", "update", "publishUpdated", "status"} \subseteq Calls
  /\ {"unknown", "success", "error", "paused"} \subseteq Synced
  /\ {"none", "now", "poll"} \subseteq Requeues
  /\ \A x \in Synced, y \in Requeues : [synced |-> x, requeue |-> y] \in Outcome
BY DEF Calls, Synced, Requeues, Outcome

\* Each call of Reconcile preserves the types.
LEMMA ReconcileType == TypeOK /\ Reconcile => TypeOK'
<1> SUFFICES ASSUME TypeOK, Reconcile PROVE TypeOK'
  OBVIOUS
<1>t. mg \in Object /\ api \in Object /\ cache \in Object /\ mgCurrent \in BOOLEAN
      /\ cacheCurrent \in BOOLEAN /\ now \in Time
  BY DEF TypeOK, ServerOK, LocalOK, WorldOK
<1>1. CASE GetNotFound
  BY <1>1, Zenon DEF GetNotFound, Dequeue, TypeOK, ServerOK, LocalOK, QueueOK, WorldOK, server, local, world
<1>2. CASE StopPaused
  BY <1>2, BeginType, Labels, NoObjectType DEF StopPaused
<1>3. CASE StopInvalid
  BY <1>3, BeginType, Labels, NoObjectType DEF StopInvalid
<1>4. CASE Start
  BY <1>4, <1>t, BeginType, Labels DEF Start, NoOutcome
<1>5. CASE Initialize
  <2> DEFINE o == [mg EXCEPT !.name = ManagedName]
  <2>1. o \in Object BY <1>t, ObjectUpdates, NameAssumption, Zenon
  <2>2. CASE AfterInitialize(mg, mgCurrent) /\ UNCHANGED <<server, faults>>
    BY <1>5, <2>2, <1>t, AfterInitializeType, ServerType, WorldType, FaultType DEF Initialize, TypeOK
  <2>3. CASE UpdateOK(o) /\ AfterInitialize(o, TRUE)
    BY <1>5, <2>3, <2>1, AfterInitializeType, UpdateType, WorldType, Zenon DEF Initialize, TypeOK
  <2>4. CASE UpdateConflicts /\ Return("now")
    BY <1>5, <2>4, <2>1, ReturnType, UpdateType, WorldType, Labels DEF Initialize, TypeOK
  <2>5. CASE UpdateErrs(o)
    BY <1>5, <2>5, <2>1, UpdateErrsType, WorldType DEF Initialize, TypeOK
  <2> QED BY <1>5, <2>2, <2>3, <2>4, <2>5, Zenon DEF Initialize
<1>6. CASE ResolveReferences
  <2> DEFINE o == [api EXCEPT !.resolved = TRUE]
  <2>1. o \in Object BY <1>t, ObjectUpdates, Zenon
  <2>2. CASE Goto("connect", mg, mgCurrent) /\ UNCHANGED <<server, faults>>
    BY <1>6, <2>2, <1>t, GotoType, ServerType, WorldType, FaultType, Labels DEF ResolveReferences, TypeOK
  <2>3. CASE Store(o) /\ Goto("connect", o, TRUE) /\ UNCHANGED faults
    BY <1>6, <2>3, <2>1, GotoType, StoreType, WorldType, FaultType, Labels, Zenon DEF ResolveReferences, TypeOK
  <2>4. CASE UpdateNotFound /\ Finish("error", "now", mgCurrent)
    BY <1>6, <2>4, <1>t, FinishType, UpdateType, WorldType, Labels DEF ResolveReferences, TypeOK
  <2>5. CASE Fault /\ Store(o) /\ Finish("error", "now", FALSE)
    BY <1>6, <2>5, <2>1, FinishType, StoreType, WorldType, FaultType, Labels, Zenon DEF ResolveReferences, TypeOK
  <2>6. CASE CallFails
    BY <1>6, <2>6, CallFailsType, WorldType DEF ResolveReferences, TypeOK
  <2> QED BY <1>6, <2>2, <2>3, <2>4, <2>5, <2>6, Zenon DEF ResolveReferences
<1>7. CASE Connect
  BY <1>7, <1>t, GotoType, CallFailsType, ServerType, WorldType, FaultType, Labels DEF Connect, TypeOK
<1>8. CASE ObserveMissing
  BY <1>8, <1>t, GotoType, FinishType, ReturnType, ServerType, WorldType, FaultType, Labels
  DEF ObserveMissing, TypeOK
<1>9. CASE ObserveExisting
  <2>1. mg' \in Object
    <3>1. (mg.late \/ LateInitializes) \in BOOLEAN OBVIOUS
    <3> QED BY <1>9, <1>t, <3>1, ObjectUpdates, Zenon DEF ObserveExisting
  <2>2. obs' \in Observation
    BY <1>9, <1>t, OptionAssumption DEF ObserveExisting, Observation, Object
  <2>3. LocalOK'
    BY <1>9, <2>1, <2>2, Labels DEF ObserveExisting, TypeOK, LocalOK
  <2> QED BY <1>9, <2>3, ServerType, WorldType DEF ObserveExisting, TypeOK, QueueOK, queue
<1>10. CASE ObserveFails
  BY <1>10, CallFailsType, WorldType DEF ObserveFails, TypeOK
<1>11. CASE Delete
  <2>1. WorldOK'
    BY <1>11 DEF Delete, TypeOK, WorldOK, Resource
  <2> QED BY <1>11, <1>t, <2>1, FinishType, ServerType, FaultType, Labels DEF Delete, TypeOK
<1>12. CASE UnpublishConnection
  BY <1>12, <1>t, GotoType, CallFailsType, ServerType, WorldType, FaultType, Labels
  DEF UnpublishConnection, TypeOK
<1>13. CASE RemoveFinalizer
  <2> DEFINE o == [mg EXCEPT !.finalizer = FALSE]
  <2>1. o \in Object BY <1>t, ObjectUpdates, Zenon
  <2>2. CASE Return("none") /\ UNCHANGED <<server, faults>>
    BY <1>13, <2>2, ReturnType, ServerType, WorldType, FaultType, Labels DEF RemoveFinalizer, TypeOK
  <2>3. CASE (UpdateOK(o) \/ UpdateNotFound) /\ Return("none")
    BY <1>13, <2>3, <2>1, ReturnType, UpdateType, WorldType, Labels DEF RemoveFinalizer, TypeOK
  <2>4. CASE UpdateConflicts /\ Return("now")
    BY <1>13, <2>4, <2>1, ReturnType, UpdateType, WorldType, Labels DEF RemoveFinalizer, TypeOK
  <2>5. CASE \E c \in BOOLEAN : UpdateFails(o, c) /\ Finish("error", "now", c)
    BY <1>13, <2>5, <2>1, FinishType, UpdateType, WorldType, Labels DEF RemoveFinalizer, TypeOK
  <2> QED BY <1>13, <2>2, <2>3, <2>4, <2>5, Zenon DEF RemoveFinalizer
<1>14. CASE PublishConnection
  BY <1>14, <1>t, GotoType, CallFailsType, ServerType, WorldType, FaultType, Labels
  DEF PublishConnection, TypeOK
<1>15. CASE AddFinalizer
  <2> DEFINE o == [mg EXCEPT !.finalizer = TRUE]
  <2>1. o \in Object BY <1>t, ObjectUpdates, Zenon
  <2>2. CASE AfterFinalizer(mg, mgCurrent) /\ UNCHANGED <<server, faults>>
    BY <1>15, <2>2, <1>t, AfterFinalizerType, ServerType, WorldType, FaultType DEF AddFinalizer, TypeOK
  <2>3. CASE UpdateOK(o) /\ AfterFinalizer(o, TRUE)
    BY <1>15, <2>3, <2>1, AfterFinalizerType, UpdateType, WorldType, Zenon DEF AddFinalizer, TypeOK
  <2>4. CASE UpdateConflicts /\ Return("now")
    BY <1>15, <2>4, <2>1, ReturnType, UpdateType, WorldType, Labels DEF AddFinalizer, TypeOK
  <2>5. CASE UpdateErrs(o)
    BY <1>15, <2>5, <2>1, UpdateErrsType, WorldType DEF AddFinalizer, TypeOK
  <2> QED BY <1>15, <2>2, <2>3, <2>4, <2>5, Zenon DEF AddFinalizer
<1>16. CASE SetExternalCreatePending
  <2> DEFINE o == [mg EXCEPT !.pending = now]
  <2>1. o \in Object BY <1>t, ObjectUpdates, Zenon
  <2>2. WorldOK'
    BY <1>16 DEF SetExternalCreatePending, TypeOK, WorldOK
  <2>3. CASE UpdateOK(o) /\ Goto("create", o, TRUE)
    BY <1>16, <2>3, <2>1, <2>2, GotoType, UpdateType, Labels, Zenon DEF SetExternalCreatePending, TypeOK
  <2>4. CASE UpdateConflicts /\ Return("now")
    BY <1>16, <2>4, <2>1, <2>2, ReturnType, UpdateType, Labels DEF SetExternalCreatePending, TypeOK
  <2>5. CASE UpdateErrs(o)
    BY <1>16, <2>5, <2>1, <2>2, UpdateErrsType DEF SetExternalCreatePending, TypeOK
  <2> QED BY <1>16, <2>3, <2>4, <2>5, Zenon DEF SetExternalCreatePending
<1>17. CASE Create
  <2>1. PICK n \in CreatedNames :
             /\ ext' = Created(n)
             /\ Goto("annotateSucceeded", [mg EXCEPT !.name = n, !.succeeded = now], mgCurrent)
    BY <1>17, Zenon DEF Create
  <2>2. [mg EXCEPT !.name = n, !.succeeded = now] \in Object
    BY <1>t, CreatedType, ObjectUpdates, Zenon
  <2>3. WorldOK'
    BY <1>17, <2>1, CreatedType DEF Create, TypeOK, WorldOK
  <2> QED BY <1>17, <1>t, <2>1, <2>2, <2>3, GotoType, ServerType, Labels DEF Create, TypeOK
<1>18. CASE CreateFails
  <2>1. [mg EXCEPT !.failed = now] \in Object
    BY <1>t, ObjectUpdates, Zenon
  <2>2. WorldOK'
    BY <1>18, CreatedType DEF CreateFails, TypeOK, WorldOK
  <2> QED BY <1>18, <1>t, <2>1, <2>2, GotoType, ServerType, FaultType, Labels DEF CreateFails, TypeOK
<1>19. CASE AnnotateSucceeded
  <2>1. AddAnnotations(cache, mg) \in Object BY <1>t, AddAnnotationsType
  <2>2. CASE UpdateOK(mg) /\ Goto("publishCreated", mg, TRUE)
    BY <1>19, <2>2, <1>t, GotoType, UpdateType, WorldType, Labels, Zenon DEF AnnotateSucceeded, TypeOK
  <2>3. CASE UpdateConflicts /\ ~LastTry /\ Retry(AddAnnotations(cache, mg), cacheCurrent)
    BY <1>19, <2>1, <2>3, <1>t, RetryType, UpdateType, WorldType DEF AnnotateSucceeded, TypeOK
  <2>4. CASE UpdateConflicts /\ LastTry /\ Return("now")
    BY <1>19, <2>4, <1>t, ReturnType, UpdateType, WorldType, Labels DEF AnnotateSucceeded, TypeOK
  <2>5. CASE \E c \in BOOLEAN : /\ UpdateFails(mg, c)
                                /\ IF LastTry THEN Finish("error", "now", c) ELSE Retry(mg, c)
    BY <1>19, <2>5, <1>t, FinishType, RetryType, UpdateType, WorldType, Labels
    DEF AnnotateSucceeded, TypeOK
  <2> QED BY <1>19, <2>2, <2>3, <2>4, <2>5, Zenon DEF AnnotateSucceeded
<1>20. CASE AnnotateFailed
  <2>1. AddAnnotations(cache, mg) \in Object BY <1>t, AddAnnotationsType
  <2>2. CASE UpdateOK(mg) /\ Finish("error", "now", TRUE)
    BY <1>20, <2>2, <1>t, FinishType, UpdateType, WorldType, Labels, Zenon DEF AnnotateFailed, TypeOK
  <2>3. CASE UpdateConflicts /\ ~LastTry /\ Retry(AddAnnotations(cache, mg), cacheCurrent)
    BY <1>20, <2>1, <2>3, <1>t, RetryType, UpdateType, WorldType DEF AnnotateFailed, TypeOK
  <2>4. CASE UpdateConflicts /\ LastTry /\ Finish("error", "now", cacheCurrent)
    BY <1>20, <2>4, <1>t, FinishType, UpdateType, WorldType, Labels DEF AnnotateFailed, TypeOK
  <2>5. CASE \E c \in BOOLEAN : /\ UpdateFails(mg, c)
                                /\ IF LastTry THEN Finish("error", "now", c) ELSE Retry(mg, c)
    BY <1>20, <2>5, <1>t, FinishType, RetryType, UpdateType, WorldType, Labels
    DEF AnnotateFailed, TypeOK
  <2> QED BY <1>20, <2>2, <2>3, <2>4, <2>5, Zenon DEF AnnotateFailed
<1>21. CASE PublishCreated
  BY <1>21, <1>t, FinishType, CallFailsType, ServerType, WorldType, FaultType, Labels
  DEF PublishCreated, TypeOK
<1>22. CASE LateInitialize
  <2>1. CASE UpdateOK(mg) /\ AfterLateInitialize(mg, TRUE)
    BY <1>22, <2>1, <1>t, AfterLateInitializeType, UpdateType, WorldType, Zenon DEF LateInitialize, TypeOK
  <2>2. CASE UpdateConflicts /\ Finish("error", "now", FALSE)
    BY <1>22, <2>2, <1>t, FinishType, UpdateType, WorldType, Labels, Zenon DEF LateInitialize, TypeOK
  <2>3. CASE UpdateErrs(mg)
    BY <1>22, <2>3, <1>t, UpdateErrsType, WorldType DEF LateInitialize, TypeOK
  <2> QED BY <1>22, <2>1, <2>2, <2>3, Zenon DEF LateInitialize
<1>23. CASE Update
  <2>1. mg.spec \in Specs BY <1>t DEF Object
  <2>2. WorldOK'
    BY <1>23, <2>1, Zenon DEF Update, TypeOK, WorldOK, Resource
  <2> QED BY <1>23, <1>t, <2>2, GotoType, ServerType, Labels DEF Update, TypeOK
<1>24. CASE UpdateExternalFails
  BY <1>24, <1>t, FinishType, ServerType, WorldType, FaultType, Labels
  DEF UpdateExternalFails, TypeOK
<1>25. CASE PublishUpdated
  BY <1>25, <1>t, FinishType, ServerType, WorldType, FaultType, Labels DEF PublishUpdated, TypeOK
<1>26. CASE UpdateStatus
  <2>1. outcome.synced \in Synced /\ outcome.requeue \in Requeues
    BY DEF TypeOK, LocalOK, Outcome
  <2>2. [api EXCEPT !.synced = outcome.synced] \in Object
    BY <1>t, <2>1, ObjectUpdates, Zenon
  <2>3. LocalOK' /\ QueueOK'
    BY <1>26, <2>1, ReturnType, Labels DEF UpdateStatus
  <2>4. ServerOK' /\ faults' \in Nat
    BY <1>26, <2>2, UpdateType DEF UpdateStatus
  <2> QED BY <1>26, <2>3, <2>4, WorldType DEF UpdateStatus, TypeOK
<1> QED
  BY <1>1, <1>2, <1>3, <1>4, <1>5, <1>6, <1>7, <1>8, <1>9, <1>10, <1>11, <1>12, <1>13, <1>14,
     <1>15, <1>16, <1>17, <1>18, <1>19, <1>20, <1>21, <1>22, <1>23, <1>24, <1>25, <1>26
  DEF Reconcile

\* So does each step of the environment.
LEMMA EnvironmentType == TypeOK /\ Environment => TypeOK'
<1> SUFFICES ASSUME TypeOK, Environment PROVE TypeOK'
  OBVIOUS
<1>t. api \in Object BY DEF TypeOK, ServerOK
<1>1. CASE Crash
  <2>1. LocalOK' /\ QueueOK'
    BY <1>1, ForgetType, Zenon DEF Crash, LocalOK, QueueOK, NoOutcome, Outcome, Synced, Requeues
  <2> QED BY <1>1, <2>1, ServerType, WorldType, FaultType DEF Crash, TypeOK
<1>2. CASE CacheSync
  <2>1. LocalOK' /\ ServerOK'
    BY <1>2 DEF CacheSync, TypeOK, LocalOK, ServerOK, local
  <2>2. QueueOK'
    BY <1>2 DEF CacheSync, TypeOK, QueueOK
  <2> QED BY <1>2, <2>1, <2>2, WorldType DEF CacheSync, TypeOK
<1>3. CASE Poll
  <2>1. LocalOK' /\ QueueOK'
    BY <1>3, Zenon DEF Poll, TypeOK, LocalOK, QueueOK, local
  <2> QED BY <1>3, <2>1, ServerType, WorldType DEF Poll, TypeOK
<1>4. ASSUME NEW o \in Object, UserWrites(o)
      PROVE  TypeOK'
  <2>1. ServerOK' /\ QueueOK'
    BY <1>4, Zenon DEF UserWrites, TypeOK, ServerOK, QueueOK, queue
  <2>2. LocalOK'
    BY <1>4, Zenon DEF UserWrites, TypeOK, LocalOK
  <2>3. WorldOK' /\ faults' \in Nat
    BY <1>4 DEF UserWrites, TypeOK, WorldOK
  <2> QED BY <2>1, <2>2, <2>3 DEF TypeOK
<1>5. CASE UserEdits
  <2>1. \A s \in Specs : [api EXCEPT !.spec = s] \in Object
    BY <1>t, ObjectUpdates, Zenon
  <2>2. \A p \in PolicyChoices : [api EXCEPT !.policy = p] \in Object
    BY <1>t, ObjectUpdates, PolicyAssumption, Zenon
  <2>3. [api EXCEPT !.paused = ~@] \in Object
    BY <1>t, Zenon DEF Object
  <2> QED BY <1>4, <1>5, <2>1, <2>2, <2>3, Zenon DEF UserEdits
<1>6. CASE UserDeletes
  <2>1. [api EXCEPT !.deleted = TRUE] \in Object
    BY <1>t, ObjectUpdates, Zenon
  <2> QED BY <1>4, <1>6, <2>1, NoObjectType DEF UserDeletes
<1>7. CASE UserClearsPending
  <2>1. [api EXCEPT !.pending = 0] \in Object
    BY <1>t, ObjectUpdates, Zenon DEF Time
  <2> QED BY <1>4, <1>7, <2>1 DEF UserClearsPending
<1>8. CASE OutsiderActs \/ DeletionEnds
  <2>1. ext' \in [Names -> Resource]
    BY <1>8 DEF OutsiderActs, DeletionEnds, TypeOK, WorldOK, Resource
  <2>2. WorldOK' /\ faults' \in Nat
    BY <1>8, <2>1 DEF OutsiderActs, DeletionEnds, TypeOK, WorldOK
  <2>3. LocalOK' /\ QueueOK'
    BY <1>8 DEF OutsiderActs, DeletionEnds, TypeOK, LocalOK, QueueOK, local, queue
  <2> QED BY <1>8, <2>2, <2>3, ServerType DEF OutsiderActs, DeletionEnds, TypeOK
<1>9. CASE Tick
  <2>1. LocalOK' /\ QueueOK'
    BY <1>9 DEF Tick, TypeOK, LocalOK, QueueOK, local, queue
  <2>2. WorldOK' /\ faults' \in Nat
    BY <1>9 DEF Tick, TypeOK, WorldOK, Time
  <2> QED BY <1>9, <2>1, <2>2, ServerType DEF Tick, TypeOK
<1> QED BY <1>1, <1>2, <1>3, <1>5, <1>6, <1>7, <1>8, <1>9 DEF Environment

\* The initial states are typed.
LEMMA InitType == Init => TypeOK
<1> SUFFICES ASSUME Init PROVE TypeOK
  OBVIOUS
<1>1. api \in Object
  <2>1. PICK n \in Preexisting \cup {NoName}, p \in PolicyChoices, s \in Specs :
             api = [NoObject EXCEPT !.exists = TRUE, !.name = n, !.policy = p, !.spec = s]
    BY Zenon DEF Init
  <2>2. n \in Names \cup {NoName} /\ p \in SUBSET ManagementActions
    BY NameAssumption, PolicyAssumption
  <2> QED BY <2>1, <2>2, NoObjectType, Zenon DEF Object
<1>2. NoObject.spec \in Specs
  BY NoObjectType DEF Object
<1>3. WorldOK
  BY <1>2, Zenon DEF Init, WorldOK, Resource, Time
<1>4. LocalOK
  <2>1. 0 \in 0 .. RetrySteps - 1 BY BoundAssumption
  <2>2. NoObservation \in Observation /\ NoOutcome \in Outcome
    BY DEF NoObservation, Observation, NoOutcome, Outcome, Synced, Requeues
  <2> QED BY <2>1, <2>2, NoObjectType, Zenon DEF Init, LocalOK
<1> QED BY <1>1, <1>3, <1>4, NoObjectType, Zenon DEF Init, TypeOK, ServerOK, QueueOK

\* In every reachable state every variable holds a value of the kind the code gives
\* it; UpdateCriticalAnnotations never exceeds the steps of retry.DefaultRetry.
THEOREM TypeCorrect == Spec => []TypeOK
<1>1. ASSUME TypeOK, UNCHANGED vars PROVE TypeOK'
  BY <1>1 DEF vars, server, local, queue, world, TypeOK, ServerOK, LocalOK, QueueOK, WorldOK
<1>2. TypeOK /\ [Next]_vars => TypeOK'
  BY <1>1, ReconcileType, EnvironmentType DEF Next
<1> QED BY <1>2, InitType, PTL DEF Spec

-----------------------------------------------------------------------------
(* CreateUnderFinalizer.                                                   *)

\* The calls before the creation is announced.
Before == {"initialize", "resolve", "connect", "observe", "publish", "addFinalizer", "setPending"}

\* The cache has the server's version only when it is the server's object, and a
\* deleted object the server still has is one with a finalizer.
Coherent == /\ cacheCurrent => cache = api
            /\ api.deleted => api.finalizer

\* What the local copy owes to the calls already made.
LocalFinalizer == /\ pc \in Before => mg.exists
                  /\ pc = "setPending" => mg.finalizer
                  /\ Creating /\ mgCurrent => mg.exists /\ mg.finalizer

FinalizerInv == TypeOK /\ Coherent /\ LocalFinalizer /\ CreateUnderFinalizer

-----------------------------------------------------------------------------

\* A write by the reconciler keeps the cache coherent and removes a deleted object
\* with its finalizer.
LEMMA StoreCoherent ==
  ASSUME TypeOK, Coherent, NEW o \in Object, Store(o)
  PROVE  Coherent'
<1>1. CASE o.deleted /\ ~o.finalizer
  <2>1. o # api BY <1>1 DEF Coherent
  <2>2. ~cacheCurrent' BY <2>1, Zenon DEF Store
  <2>3. api' = NoObject BY <1>1 DEF Store
  <2> QED BY <2>2, <2>3 DEF Coherent, NoObject
<1>2. CASE ~(o.deleted /\ ~o.finalizer)
  <2>1. api' = o BY <1>2 DEF Store
  <2>2. cacheCurrent' => cache' = api'
    BY <2>1, Zenon DEF Store, Coherent
  <2> QED BY <1>2, <2>1, <2>2 DEF Coherent
<1> QED BY <1>1, <1>2

\* Every outcome of an update leaves the server alone or stores the object.
LEMMA UpdateStores ==
  ASSUME NEW o, \/ UpdateOK(o) \/ UpdateConflicts \/ UpdateNotFound
                \/ \E c \in BOOLEAN : UpdateFails(o, c)
  PROVE  UNCHANGED server \/ (Accepts /\ Store(o))
BY DEF UpdateOK, UpdateConflicts, UpdateNotFound, UpdateFails, server

\* So does an update whose failure ends the reconcile.
LEMMA UpdateErrsStores ==
  ASSUME NEW o, UpdateErrs(o)
  PROVE  (UNCHANGED server \/ (Accepts /\ Store(o))) /\ pc' = "status"
BY UpdateStores DEF UpdateErrs, Finish

\* Every step of Reconcile leaves the server alone or stores one object there.
LEMMA ReconcileStores ==
  ASSUME TypeOK, Reconcile
  PROVE  UNCHANGED server \/ \E o \in Object : Store(o)
<1>t. mg \in Object /\ api \in Object /\ now \in Time /\ outcome.synced \in Synced
  BY DEF TypeOK, ServerOK, LocalOK, WorldOK, Outcome
<1>1. CASE Initialize
  BY <1>1, <1>t, ObjectUpdates, NameAssumption, UpdateStores, UpdateErrsStores, Zenon DEF Initialize
<1>2. CASE ResolveReferences
  BY <1>2, <1>t, ObjectUpdates, Zenon DEF ResolveReferences, CallFails, UpdateNotFound
<1>3. CASE RemoveFinalizer
  <2> DEFINE o == [mg EXCEPT !.finalizer = FALSE]
  <2>1. o \in Object BY <1>t, ObjectUpdates, Zenon
  <2>2. \/ UNCHANGED <<server, faults>>
        \/ UpdateOK(o) \/ UpdateNotFound \/ UpdateConflicts \/ \E c \in BOOLEAN : UpdateFails(o, c)
    BY <1>3, Zenon DEF RemoveFinalizer
  <2> HIDE DEF o
  <2> QED BY <2>1, <2>2, UpdateStores
<1>4. CASE AddFinalizer
  BY <1>4, <1>t, ObjectUpdates, UpdateStores, UpdateErrsStores, Zenon DEF AddFinalizer
<1>5. CASE SetExternalCreatePending
  BY <1>5, <1>t, ObjectUpdates, UpdateStores, UpdateErrsStores, Zenon DEF SetExternalCreatePending
<1>6. CASE AnnotateSucceeded \/ AnnotateFailed
  BY <1>6, <1>t, UpdateStores, Zenon DEF AnnotateSucceeded, AnnotateFailed
<1>7. CASE LateInitialize
  BY <1>7, <1>t, UpdateStores, UpdateErrsStores, Zenon DEF LateInitialize
<1>8. CASE UpdateStatus
  <2> DEFINE o == [api EXCEPT !.synced = outcome.synced]
  <2>1. o \in Object BY <1>t, ObjectUpdates, Zenon
  <2>2. UpdateOK(o) \/ UpdateNotFound \/ UpdateConflicts \/ \E c \in BOOLEAN : UpdateFails(o, c)
    BY <1>8 DEF UpdateStatus
  <2> HIDE DEF o
  <2> QED BY <2>1, <2>2, UpdateStores
<1>9. CASE GetNotFound \/ StopPaused \/ StopInvalid \/ Start
  BY <1>9 DEF GetNotFound, StopPaused, StopInvalid, Start, Dequeue
<1>10. CASE \/ Connect \/ ObserveMissing \/ ObserveExisting \/ ObserveFails \/ Delete
            \/ UnpublishConnection \/ PublishConnection \/ Create \/ CreateFails \/ PublishCreated
            \/ Update \/ UpdateExternalFails \/ PublishUpdated
  BY <1>10, Zenon DEF Connect, ObserveMissing, ObserveExisting, ObserveFails, Delete, UnpublishConnection,
     PublishConnection, Create, CreateFails, PublishCreated, Update, UpdateExternalFails,
     PublishUpdated, CallFails
<1> QED BY <1>1, <1>2, <1>3, <1>4, <1>5, <1>6, <1>7, <1>8, <1>9, <1>10 DEF Reconcile

\* Once a reconcile is past the creation, or over, the local copy owes nothing.
LEMMA Over ==
  ASSUME pc' \notin Before, pc' \notin {"create", "annotateSucceeded", "annotateFailed"}
  PROVE  LocalFinalizer' /\ CreateUnderFinalizer'
BY DEF LocalFinalizer, CreateUnderFinalizer, Creating, Before

\* A step to another call before the creation, with a copy that exists.
LEMMA GoesOn ==
  ASSUME NEW call \in Before \ {"setPending"}, NEW o, NEW c, o.exists, Goto(call, o, c)
  PROVE  LocalFinalizer' /\ CreateUnderFinalizer'
BY DEF Before, LocalFinalizer, CreateUnderFinalizer, Creating, Goto

\* Where the continuations lead.
LEMMA Ends ==
  /\ \A s, q, c : Finish(s, q, c) => pc' = "status"
  /\ \A q : Return(q) => pc' = "idle"
  /\ CallFails => pc' \in {"idle", "status"}
  /\ \A o : UpdateErrs(o) => pc' = "status"
BY DEF Finish, Return, CallFails, UpdateErrs

\* After Initialize the reconcile stops or goes on with the copy.
LEMMA AfterInitializeGoesOn ==
  ASSUME NEW o, NEW c, o.exists, AfterInitialize(o, c)
  PROVE  LocalFinalizer' /\ CreateUnderFinalizer'
BY Ends, Over, GoesOn DEF AfterInitialize, Before

\* After AddFinalizer the copy has the finalizer.
LEMMA AfterFinalizerGoesOn ==
  ASSUME NEW o, NEW c, o.exists, o.finalizer, AfterFinalizer(o, c)
  PROVE  LocalFinalizer' /\ CreateUnderFinalizer'
<1>1. CASE Goto("setPending", o, c)
  BY <1>1 DEF Goto, LocalFinalizer, CreateUnderFinalizer, Creating, Before
<1>2. CASE Goto("lateInitialize", o, c) \/ Goto("update", o, c)
  BY <1>2, Over DEF Goto, Before
<1>3. CASE Finish("success", "poll", c)
  BY <1>3, Over, Ends DEF Before
<1> QED BY <1>1, <1>2, <1>3 DEF AfterFinalizer, AfterLateInitialize

\* Recording the result of Create puts back an object with the finalizer or leaves
\* the server's object in place; a retry reads the latest object or a stale one.
LEMMA AnnotateKeepsFinalizer ==
  ASSUME FinalizerInv, AnnotateSucceeded \/ AnnotateFailed
  PROVE  LocalFinalizer' /\ CreateUnderFinalizer'
<1>1. Creating
  BY Zenon DEF AnnotateSucceeded, AnnotateFailed, Creating
<1>2. api.exists /\ api.finalizer
  BY <1>1 DEF FinalizerInv, CreateUnderFinalizer
<1>3. mgCurrent => mg.exists /\ mg.finalizer
  BY <1>1 DEF FinalizerInv, LocalFinalizer
<1>4. CASE pc' \notin {"annotateSucceeded", "annotateFailed"}
  <2>1. pc' \in {"publishCreated", "status", "idle"}
    BY <1>4, Ends, Zenon DEF AnnotateSucceeded, AnnotateFailed, Goto, Retry
  <2> QED BY <2>1, Over DEF Before
<1>5. CASE pc' \in {"annotateSucceeded", "annotateFailed"}
  <2>1. UNCHANGED server \/ (Accepts /\ Store(mg))
    BY UpdateStores, Zenon DEF AnnotateSucceeded, AnnotateFailed
  <2>2. api'.exists /\ api'.finalizer
    BY <1>2, <1>3, <2>1 DEF Accepts, Store, server
  <2>3. \/ mgCurrent' = cacheCurrent /\ mg' = AddAnnotations(cache, mg)
        \/ ~mgCurrent'
        \/ mg' = mg /\ mgCurrent' = mgCurrent
    BY <1>5, Ends, Zenon DEF AnnotateSucceeded, AnnotateFailed, Retry, Goto, UpdateFails
  <2>4. mgCurrent' => mg'.exists /\ mg'.finalizer
    <3>1. CASE cacheCurrent /\ mg' = AddAnnotations(cache, mg)
      <4>1. cache \in Object BY DEF FinalizerInv, TypeOK, ServerOK
      <4>2. mg'.exists = cache.exists /\ mg'.finalizer = cache.finalizer
        BY <3>1, <4>1 DEF AddAnnotations, Object
      <4> QED BY <3>1, <4>2, <1>2 DEF FinalizerInv, Coherent
    <3> QED BY <3>1, <2>3, <1>3, Zenon
  <2> QED BY <1>5, <2>2, <2>4 DEF LocalFinalizer, CreateUnderFinalizer, Creating, Before
<1> QED BY <1>4, <1>5

\* Each call of Reconcile preserves the inductive invariant.
LEMMA ReconcileFinalizer ==
  ASSUME FinalizerInv, Reconcile
  PROVE  FinalizerInv'
<1>t. TypeOK /\ Coherent /\ LocalFinalizer /\ CreateUnderFinalizer
  BY DEF FinalizerInv
<1>o. mg \in Object /\ api \in Object /\ now \in Time
  BY <1>t DEF TypeOK, LocalOK, ServerOK, WorldOK
<1>1. TypeOK'
  BY <1>t, ReconcileType
<1>2. Coherent'
  <2>1. CASE UNCHANGED server BY <2>1, <1>t DEF Coherent, server
  <2> QED BY <2>1, <1>t, ReconcileStores, StoreCoherent
<1>3. LocalFinalizer' /\ CreateUnderFinalizer'
  <2>1. CASE Start
    <3>1. pc' \in {"unpublish", "initialize"} /\ mg' = cache /\ cache.exists
      BY <2>1 DEF Start, Begin
    <3> QED BY <3>1 DEF LocalFinalizer, CreateUnderFinalizer, Creating, Before
  <2>2. CASE Initialize
    <3>1. mg.exists BY <2>2, <1>t DEF Initialize, LocalFinalizer, Before
    <3>2. [mg EXCEPT !.name = ManagedName].exists BY <3>1, <1>o DEF Object
    <3>3. CASE AfterInitialize(mg, mgCurrent) BY <3>1, <3>3, AfterInitializeGoesOn
    <3>4. CASE AfterInitialize([mg EXCEPT !.name = ManagedName], TRUE)
      BY <3>2, <3>4, AfterInitializeGoesOn, Zenon
    <3>5. CASE pc' \in {"idle", "status"} BY <3>5, Over DEF Before
    <3> QED BY <2>2, <3>3, <3>4, <3>5, Ends, Zenon DEF Initialize
  <2>3. CASE ResolveReferences
    <3>1. mg.exists BY <2>3, <1>t DEF ResolveReferences, LocalFinalizer, Before
    <3>2. CASE Goto("connect", mg, mgCurrent)
      BY <3>1, <3>2, GoesOn DEF Before
    <3>3. CASE api.exists /\ Goto("connect", [api EXCEPT !.resolved = TRUE], TRUE)
      <4>1. [api EXCEPT !.resolved = TRUE].exists BY <3>3, <1>o DEF Object
      <4> QED BY <4>1, <3>3, GoesOn, Zenon DEF Before
    <3>4. CASE pc' \in {"idle", "status"} BY <3>4, Over DEF Before
    <3> QED BY <2>3, <3>2, <3>3, <3>4, Ends, Zenon DEF ResolveReferences
  <2>4. CASE Connect \/ ObserveFails \/ PublishConnection
    <3>1. mg.exists
      BY <2>4, <1>t DEF Connect, ObserveFails, PublishConnection, LocalFinalizer, Before
    <3>2. CASE Goto("observe", mg, mgCurrent) \/ Goto("addFinalizer", mg, mgCurrent)
      BY <3>1, <3>2, GoesOn DEF Before
    <3>3. CASE pc' \in {"idle", "status"} BY <3>3, Over DEF Before
    <3> QED BY <2>4, <3>2, <3>3, Ends DEF Connect, ObserveFails, PublishConnection
  <2>5. CASE ObserveMissing
    <3>1. mg.exists BY <2>5, <1>t DEF ObserveMissing, LocalFinalizer, Before
    <3>2. CASE Goto("publish", mg, mgCurrent) BY <3>1, <3>2, GoesOn DEF Before
    <3>3. CASE pc' \in {"idle", "status", "unpublish"} BY <3>3, Over DEF Before
    <3> QED BY <2>5, <3>2, <3>3, Ends DEF ObserveMissing, Goto
  <2>6. CASE ObserveExisting
    <3>1. mg'.exists /\ pc' \in {"publish", "delete", "unpublish"}
      BY <2>6, <1>t, <1>o DEF ObserveExisting, LocalFinalizer, Before, Object
    <3> QED BY <3>1 DEF LocalFinalizer, CreateUnderFinalizer, Creating, Before
  <2>7. CASE AddFinalizer
    <3> DEFINE o == [mg EXCEPT !.finalizer = TRUE]
    <3>1. mg.exists BY <2>7, <1>t DEF AddFinalizer, LocalFinalizer, Before
    <3>2. o.exists /\ o.finalizer BY <3>1, <1>o DEF Object
    <3>3. CASE mg.finalizer /\ AfterFinalizer(mg, mgCurrent)
      BY <3>1, <3>3, AfterFinalizerGoesOn
    <3>4. CASE AfterFinalizer(o, TRUE) BY <3>2, <3>4, AfterFinalizerGoesOn, Zenon
    <3>5. CASE pc' \in {"idle", "status"} BY <3>5, Over DEF Before
    <3> QED BY <2>7, <3>3, <3>4, <3>5, Ends, Zenon DEF AddFinalizer
  <2>8. CASE SetExternalCreatePending
    <3> DEFINE o == [mg EXCEPT !.pending = now]
    <3>1. mg.exists /\ mg.finalizer
      BY <2>8, <1>t DEF SetExternalCreatePending, LocalFinalizer, Before
    <3>2. o.exists /\ o.finalizer BY <3>1, <1>o DEF Object
    <3>3. CASE UpdateOK(o) /\ Goto("create", o, TRUE)
      BY <3>2, <3>3 DEF UpdateOK, Store, Goto, LocalFinalizer, CreateUnderFinalizer, Creating, Before
    <3>4. CASE pc' \in {"idle", "status"} BY <3>4, Over DEF Before
    <3> QED BY <2>8, <3>3, <3>4, Ends, Zenon DEF SetExternalCreatePending
  <2>9. CASE Create \/ CreateFails
    <3>1. pc = "create" /\ UNCHANGED server /\ mgCurrent' = mgCurrent
          /\ pc' \in {"annotateSucceeded", "annotateFailed"}
      BY <2>9, Zenon DEF Create, CreateFails, Goto
    <3>2. mg'.exists = mg.exists /\ mg'.finalizer = mg.finalizer
      BY <2>9, <1>o, Zenon DEF Create, CreateFails, Goto, Object
    <3> QED BY <1>t, <3>1, <3>2
        DEF LocalFinalizer, CreateUnderFinalizer, Creating, Before, server
  <2>10. CASE AnnotateSucceeded \/ AnnotateFailed
    BY <2>10, AnnotateKeepsFinalizer
  <2>11. CASE GetNotFound
    BY <2>11, Over DEF GetNotFound, Dequeue, local, Before
  <2>12. CASE \/ StopPaused \/ StopInvalid \/ Delete \/ UnpublishConnection \/ RemoveFinalizer
              \/ PublishCreated \/ LateInitialize \/ Update \/ UpdateExternalFails \/ PublishUpdated
              \/ UpdateStatus
    <3>1. pc' \in {"idle", "status", "removeFinalizer", "update", "publishUpdated"}
      BY <2>12, Ends, Zenon
      DEF StopPaused, StopInvalid, Begin, Delete, UnpublishConnection, RemoveFinalizer, PublishCreated,
          LateInitialize, AfterLateInitialize, Update, UpdateExternalFails, PublishUpdated,
          UpdateStatus, Goto
    <3> QED BY <3>1, Over DEF Before
  <2> QED BY <2>1, <2>2, <2>3, <2>4, <2>5, <2>6, <2>7, <2>8, <2>9, <2>10, <2>11, <2>12 DEF Reconcile
<1> QED BY <1>1, <1>2, <1>3 DEF FinalizerInv

\* Nothing users write takes the finalizer from a resource that exists.
LEMMA UserKeepsFinalizer ==
  ASSUME TypeOK, Coherent, UserEdits \/ UserDeletes \/ UserClearsPending
  PROVE  /\ UNCHANGED <<cache, pc, mg>> /\ ~cacheCurrent' /\ ~mgCurrent'
         /\ api'.deleted => api'.finalizer
         /\ api.exists /\ api.finalizer => api'.exists /\ api'.finalizer
<1>t. api \in Object BY DEF TypeOK, ServerOK
<1>1. UNCHANGED <<cache, pc, mg>> /\ ~cacheCurrent' /\ ~mgCurrent'
  BY DEF UserEdits, UserDeletes, UserClearsPending, UserWrites
<1>2. CASE UserEdits \/ UserClearsPending
  <2>1. /\ api'.exists = api.exists /\ api'.finalizer = api.finalizer
        /\ api'.deleted = api.deleted
    BY <1>2, <1>t DEF UserEdits, UserClearsPending, UserWrites, Object
  <2> QED BY <1>1, <2>1 DEF Coherent
<1>3. CASE UserDeletes /\ api.finalizer
  <2>1. api' = [api EXCEPT !.deleted = TRUE] BY <1>3 DEF UserDeletes, UserWrites
  <2> QED BY <1>1, <1>3, <1>t, <2>1 DEF Object
<1>4. CASE UserDeletes /\ ~api.finalizer
  <2>1. api' = NoObject BY <1>4 DEF UserDeletes, UserWrites
  <2> QED BY <1>1, <1>4, <2>1 DEF NoObject
<1> QED BY <1>2, <1>3, <1>4

\* Neither does anything else around Reconcile.
LEMMA EnvironmentFinalizer ==
  ASSUME FinalizerInv, Environment
  PROVE  FinalizerInv'
<1>t. TypeOK /\ Coherent /\ LocalFinalizer /\ CreateUnderFinalizer
  BY DEF FinalizerInv
<1>1. TypeOK' BY <1>t, EnvironmentType
<1>2. CASE UserEdits \/ UserDeletes \/ UserClearsPending
  BY <1>1, <1>2, <1>t, UserKeepsFinalizer
  DEF FinalizerInv, Coherent, LocalFinalizer, CreateUnderFinalizer, Creating
<1>3. CASE Crash
  BY <1>1, <1>3, <1>t, Over DEF Crash, server, FinalizerInv, Coherent, Before
<1>4. CASE CacheSync
  BY <1>1, <1>4, <1>t
  DEF CacheSync, local, FinalizerInv, Coherent, LocalFinalizer, CreateUnderFinalizer, Creating
<1>5. CASE Poll \/ OutsiderActs \/ DeletionEnds \/ Tick
  <2>1. UNCHANGED <<server, local>>
    BY <1>5 DEF Poll, OutsiderActs, DeletionEnds, Tick
  <2> QED BY <1>1, <1>t, <2>1
      DEF server, local, FinalizerInv, Coherent, LocalFinalizer, CreateUnderFinalizer, Creating
<1> QED BY <1>2, <1>3, <1>4, <1>5 DEF Environment

\* The invariant of the theorem below.
LEMMA FinalizerInvariant == Spec => []FinalizerInv
<1>1. Init => FinalizerInv
  <2> SUFFICES ASSUME Init PROVE FinalizerInv
    OBVIOUS
  <2>1. TypeOK BY InitType
  <2>2. ~api.deleted
    BY DEF Init, NoObject
  <2> QED BY <2>1, <2>2
      DEF Init, FinalizerInv, Coherent, LocalFinalizer, CreateUnderFinalizer, Creating, Before
<1>2. FinalizerInv /\ [Next]_vars => FinalizerInv'
  <2>1. ASSUME FinalizerInv, UNCHANGED vars PROVE FinalizerInv'
    BY <2>1 DEF vars, server, local, queue, world, FinalizerInv, TypeOK, ServerOK, LocalOK, QueueOK,
       WorldOK, Coherent, LocalFinalizer, CreateUnderFinalizer, Creating
  <2> QED BY <2>1, ReconcileFinalizer, EnvironmentFinalizer, SMTT(30) DEF Next
<1> QED BY <1>1, <1>2, PTL DEF Spec

\* While external.Create runs and until its result is recorded the API server has the
\* resource, with its finalizer: whatever users delete and however stale the copies
\* are that UpdateCriticalAnnotations retries with.
THEOREM CreatesUnderFinalizer == Spec => []CreateUnderFinalizer
<1>1. FinalizerInv => CreateUnderFinalizer BY DEF FinalizerInv
<1> QED BY <1>1, FinalizerInvariant, PTL

-----------------------------------------------------------------------------
(* CreateFromLatest.                                                       *)

\* The two copies lead Reconcile to the same decisions.
SameDecisions(o, p) ==
  /\ o.deleted = p.deleted /\ o.finalizer = p.finalizer /\ o.paused = p.paused
  /\ o.policy = p.policy
  /\ o.pending = p.pending /\ o.succeeded = p.succeeded /\ o.failed = p.failed

\* A local copy with the server's version is like the server's object.
Agrees == pc \in Before /\ mgCurrent => SameDecisions(mg, api)

\* What Reconcile has found out about its local copy so far.
Decided ==
  /\ pc \in Before => policy = mg.policy /\ ~Paused(mg)
  /\ pc \in Before \ {"initialize"} => (ExternalCreateIncomplete(mg) => deterministicExternalName)
  /\ pc \in {"publish", "addFinalizer", "setPending"} => ~mg.deleted
  /\ pc = "setPending" => ShouldCreate(Resolver(policy))

LatestInv == FinalizerInv /\ Agrees /\ Decided

-----------------------------------------------------------------------------

\* Setting the name or the finalizer, or late initialising, changes none of the
\* facts the other decisions rest on.
LEMMA SameFacts ==
  ASSUME NEW o \in Object, NEW p \in Object, o.paused = p.paused, o.policy = p.policy,
         o.pending = p.pending, o.succeeded = p.succeeded, o.failed = p.failed
  PROVE  /\ Paused(o) <=> Paused(p)
         /\ ExternalCreateIncomplete(o) <=> ExternalCreateIncomplete(p)
BY DEF Paused, ExternalCreateIncomplete

\* An accepted update leaves the server with the object updated, when that object
\* has its finalizer or is not deleted.
LEMMA StoredAgrees ==
  ASSUME NEW o \in Object, o.deleted => o.finalizer, UpdateOK(o)
  PROVE  SameDecisions(o, api')
BY DEF UpdateOK, Store, SameDecisions

\* Once the creation has been announced, or the reconcile is over, nothing is owed.
LEMMA Announced ==
  ASSUME pc' \notin Before
  PROVE  Agrees' /\ Decided'
BY DEF Agrees, Decided, Before

\* After Initialize the reconcile stops, or the creation is complete.
LEMMA AfterInitializeLatest ==
  ASSUME NEW o, NEW c, AfterInitialize(o, c), policy = o.policy, ~Paused(o),
         c => SameDecisions(o, api')
  PROVE  Agrees' /\ Decided'
<1>1. CASE pc' = "status" BY <1>1, Announced DEF Before
<1>2. CASE /\ ExternalCreateIncomplete(o) => deterministicExternalName
           /\ pc' \in {"connect", "resolve"} /\ mg' = o /\ mgCurrent' = c /\ policy' = policy
  BY <1>2 DEF Agrees, Decided, Before, Paused, ExternalCreateIncomplete
<1> QED BY <1>1, <1>2, Ends DEF AfterInitialize, Goto

\* After AddFinalizer a creation is next only if the policy allows it.
LEMMA AfterFinalizerLatest ==
  ASSUME NEW o, NEW c, AfterFinalizer(o, c), policy = o.policy, ~Paused(o), ~o.deleted,
         ExternalCreateIncomplete(o) => deterministicExternalName,
         c => SameDecisions(o, api')
  PROVE  Agrees' /\ Decided'
<1>1. CASE pc' \in {"status", "lateInitialize", "update"} BY <1>1, Announced DEF Before
<1>2. CASE ShouldCreate(Resolver(policy)) /\ Goto("setPending", o, c)
  BY <1>2 DEF Goto, Agrees, Decided, Before, Paused, ExternalCreateIncomplete
<1> QED BY <1>1, <1>2, Ends DEF AfterFinalizer, AfterLateInitialize, Goto

\* A step that keeps the server's object and the local copy.
LEMMA KeepsCopy ==
  ASSUME Agrees, Decided, NEW call, pc \in Before \ {"initialize"},
         Goto(call, mg, mgCurrent), UNCHANGED server,
         call \in {"connect", "observe"} \/ (call = "publish" /\ ~mg.deleted)
         \/ (call = "addFinalizer" /\ pc = "publish")
  PROVE  Agrees' /\ Decided'
BY DEF Goto, server, Agrees, Decided, Before, Paused, ExternalCreateIncomplete

-----------------------------------------------------------------------------

\* Each call of Reconcile keeps the local copy's promise.
LEMMA ReconcileLatest ==
  ASSUME ~HasReferences, LatestInv, Reconcile
  PROVE  LatestInv'
<1>t. FinalizerInv /\ TypeOK /\ Coherent /\ Agrees /\ Decided
  BY DEF LatestInv, FinalizerInv
<1>o. mg \in Object /\ api \in Object /\ cache \in Object /\ mg' \in Object
  BY <1>t, ReconcileType DEF TypeOK, LocalOK, ServerOK
<1>1. FinalizerInv'
  BY <1>t, ReconcileFinalizer
<1>2. Agrees' /\ Decided'
  <2>1. CASE Start
    <3>1. /\ pc' \in {"unpublish", "initialize"} /\ mg' = cache /\ ~Paused(cache)
          /\ mgCurrent' = cacheCurrent /\ policy' = cache.policy /\ api' = api
      BY <2>1 DEF Start, Begin, Dequeue, server
    <3>2. Agrees'
      BY <1>t, <3>1 DEF Agrees, Coherent, SameDecisions
    <3> QED BY <3>1, <3>2 DEF Decided, Before, Paused
  <2>2. CASE Initialize
    <3> DEFINE o == [mg EXCEPT !.name = ManagedName]
    <3>1. policy = mg.policy /\ ~Paused(mg) /\ (mgCurrent => SameDecisions(mg, api))
      BY <2>2, <1>t DEF Initialize, Agrees, Decided, Before
    <3>2. CASE AfterInitialize(mg, mgCurrent) /\ UNCHANGED server
      BY <3>1, <3>2, AfterInitializeLatest DEF server, SameDecisions
    <3>3. CASE UpdateOK(o) /\ AfterInitialize(o, TRUE)
      <4>1. o \in Object BY <1>o, ObjectUpdates, NameAssumption, Zenon
      <4>2. SameDecisions(o, mg) BY <1>o DEF Object, SameDecisions
      <4>3. o.deleted => o.finalizer
        BY <1>t, <3>1, <3>3, <4>2 DEF UpdateOK, Accepts, Coherent, SameDecisions
      <4>4. SameDecisions(o, api') BY <4>1, <4>3, <3>3, StoredAgrees, Zenon
      <4>5. policy = o.policy /\ ~Paused(o)
        BY <1>o, <3>1, <4>1, <4>2, SameFacts, Zenon DEF SameDecisions
      <4> HIDE DEF o
      <4> QED BY <3>3, <4>4, <4>5, AfterInitializeLatest, Zenon
    <3>4. CASE pc' \in {"idle", "status"} BY <3>4, Announced DEF Before
    <3> QED BY <2>2, <3>2, <3>3, <3>4, Ends, Zenon DEF Initialize
  <2>3. CASE ResolveReferences
    BY <2>3, <1>t, KeepsCopy, Zenon DEF ResolveReferences, Before
  <2>4. CASE Connect \/ ObserveFails \/ PublishConnection
    <3>1. CASE pc' \in {"idle", "status"} BY <3>1, Announced DEF Before
    <3> QED BY <2>4, <1>t, <3>1, KeepsCopy, Ends DEF Connect, ObserveFails, PublishConnection, Before
  <2>5. CASE ObserveMissing
    <3>1. CASE pc' \in {"idle", "status", "unpublish"} BY <3>1, Announced DEF Before
    <3>2. CASE ~mg.deleted /\ Goto("publish", mg, mgCurrent) /\ UNCHANGED server
      BY <2>5, <3>2, <1>t, KeepsCopy DEF ObserveMissing, Before
    <3> QED BY <2>5, <3>1, <3>2, Ends DEF ObserveMissing, Goto
  <2>6. CASE ObserveExisting
    <3>1. CASE pc' \in {"delete", "unpublish"} BY <3>1, Announced DEF Before
    <3>2. CASE pc' = "publish" /\ ~mg.deleted
      <4>1. SameDecisions(mg', mg) /\ UNCHANGED <<api, mgCurrent, policy>> /\ pc = "observe"
        BY <2>6, <1>o DEF ObserveExisting, Object, SameDecisions, server
      <4>2. Agrees'
        BY <1>t, <4>1 DEF Agrees, Before, SameDecisions
      <4>3. /\ policy = mg.policy /\ ~Paused(mg)
            /\ ExternalCreateIncomplete(mg) => deterministicExternalName
        BY <1>t, <4>1 DEF Decided, Before
      <4>4. ~Paused(mg') /\ (ExternalCreateIncomplete(mg') => deterministicExternalName)
        BY <1>o, <4>1, <4>3, SameFacts DEF SameDecisions
      <4>5. policy' = mg'.policy /\ ~mg'.deleted
        BY <3>2, <4>1, <4>3 DEF SameDecisions
      <4> QED BY <3>2, <4>2, <4>4, <4>5 DEF Decided, Paused, ExternalCreateIncomplete
    <3> QED BY <2>6, <3>1, <3>2 DEF ObserveExisting
  <2>7. CASE AddFinalizer
    <3> DEFINE o == [mg EXCEPT !.finalizer = TRUE]
    <3>1. /\ policy = mg.policy /\ ~Paused(mg) /\ ~mg.deleted
          /\ ExternalCreateIncomplete(mg) => deterministicExternalName
          /\ mgCurrent => SameDecisions(mg, api)
      BY <2>7, <1>t DEF AddFinalizer, Agrees, Decided, Before
    <3>2. CASE AfterFinalizer(mg, mgCurrent) /\ UNCHANGED server
      BY <3>1, <3>2, AfterFinalizerLatest DEF server, SameDecisions
    <3>3. CASE UpdateOK(o) /\ AfterFinalizer(o, TRUE)
      <4>1. o \in Object BY <1>o, ObjectUpdates, Zenon
      <4>2. /\ o.finalizer /\ o.deleted = mg.deleted /\ o.paused = mg.paused /\ o.policy = mg.policy
            /\ o.pending = mg.pending /\ o.succeeded = mg.succeeded /\ o.failed = mg.failed
        BY <1>o DEF Object
      <4>3. SameDecisions(o, api') BY <4>1, <4>2, <3>3, StoredAgrees, Zenon
      <4>4. /\ policy = o.policy /\ ~Paused(o) /\ ~o.deleted
            /\ ExternalCreateIncomplete(o) => deterministicExternalName
        BY <1>o, <3>1, <4>1, <4>2, SameFacts, Zenon
      <4> HIDE DEF o
      <4> QED BY <3>3, <4>3, <4>4, AfterFinalizerLatest, Zenon
    <3>4. CASE pc' \in {"idle", "status"} BY <3>4, Announced DEF Before
    <3> QED BY <2>7, <3>2, <3>3, <3>4, Ends, Zenon DEF AddFinalizer
  <2>8. CASE \/ SetExternalCreatePending \/ Create \/ CreateFails
             \/ AnnotateSucceeded \/ AnnotateFailed
    <3>1. pc' \in {"idle", "status", "create", "annotateSucceeded", "annotateFailed",
                   "publishCreated"}
      BY <2>8, Ends, Zenon DEF SetExternalCreatePending, Create, CreateFails, AnnotateSucceeded,
         AnnotateFailed, Goto, Retry
    <3> QED BY <3>1, Announced DEF Before
  <2>9. CASE GetNotFound
    BY <2>9, Announced DEF GetNotFound, Dequeue, local, Before
  <2>10. CASE \/ StopPaused \/ StopInvalid \/ Delete \/ UnpublishConnection \/ RemoveFinalizer
              \/ PublishCreated \/ LateInitialize \/ Update \/ UpdateExternalFails \/ PublishUpdated
              \/ UpdateStatus
    <3>1. pc' \in {"idle", "status", "removeFinalizer", "update", "publishUpdated"}
      BY <2>10, Ends, Zenon
      DEF StopPaused, StopInvalid, Begin, Delete, UnpublishConnection, RemoveFinalizer, PublishCreated,
          LateInitialize, AfterLateInitialize, Update, UpdateExternalFails, PublishUpdated,
          UpdateStatus, Goto
    <3> QED BY <3>1, Announced DEF Before
  <2> QED BY <2>1, <2>2, <2>3, <2>4, <2>5, <2>6, <2>7, <2>8, <2>9, <2>10 DEF Reconcile
<1> QED BY <1>1, <1>2 DEF LatestInv

\* What goes on around Reconcile changes its copy only by ending the reconcile, and
\* makes the copy stale whenever it changes the server's object.
LEMMA EnvironmentLatest ==
  ASSUME LatestInv, Environment
  PROVE  LatestInv'
<1>t. FinalizerInv /\ TypeOK /\ Coherent /\ Agrees /\ Decided
  BY DEF LatestInv, FinalizerInv
<1>1. FinalizerInv' BY <1>t, EnvironmentFinalizer
<1>2. CASE Crash
  BY <1>1, <1>2, Announced DEF Crash, LatestInv, Before
<1>3. CASE ~Crash
  <2>1. UNCHANGED <<pc, mg, policy>> /\ (~mgCurrent' \/ UNCHANGED <<api, mgCurrent>>)
    BY <1>3 DEF Environment, CacheSync, Poll, UserEdits, UserDeletes, UserClearsPending, UserWrites,
       OutsiderActs, DeletionEnds, Tick, server, local
  <2>2. Agrees' BY <1>t, <2>1, Zenon DEF Agrees
  <2>3. Decided' BY <1>t, <2>1 DEF Decided, Paused, ExternalCreateIncomplete
  <2> QED BY <1>1, <2>2, <2>3, SMTT(30) DEF LatestInv
<1> QED BY <1>2, <1>3

\* Reconcile announces a creation only if the resource as the API server has it at
\* that moment is neither deleted nor paused, allows Create and has no incomplete
\* creation: proved for resources without references, the ones with a reference
\* being refreshed between the checks and the announcement.
THEOREM CreatesFromLatest ==
  ASSUME ~HasReferences
  PROVE  Spec => CreateFromLatest
<1>1. Init /\ FinalizerInv => LatestInv
  BY DEF Init, LatestInv, Agrees, Decided, Before
<1>2. LatestInv /\ [Next]_vars => LatestInv'
  <2>1. ASSUME LatestInv, UNCHANGED vars, FinalizerInv' PROVE LatestInv'
    BY <2>1 DEF vars, server, local, LatestInv, Agrees, Decided, Paused, ExternalCreateIncomplete
  <2>2. ASSUME LatestInv, UNCHANGED vars PROVE FinalizerInv'
    BY <2>2 DEF vars, server, local, queue, world, LatestInv, FinalizerInv, TypeOK, ServerOK, LocalOK,
       QueueOK, WorldOK, Coherent, LocalFinalizer, CreateUnderFinalizer, Creating
  <2> QED BY <2>1, <2>2, ReconcileLatest, EnvironmentLatest DEF Next
<1>3. ASSUME LatestInv, [Next]_vars, pc = "setPending", pc' = "create"
      PROVE  /\ ~api.deleted /\ ~Paused(api) /\ ShouldCreate(Resolver(api.policy))
             /\ ExternalCreateIncomplete(api) => deterministicExternalName
  <2>1. SetExternalCreatePending
    BY <1>3, Zenon DEF Next, Reconcile, Environment, vars, local, GetNotFound, StopPaused, StopInvalid, Start,
       Dequeue, Initialize, ResolveReferences, Connect, ObserveMissing, ObserveExisting, ObserveFails,
       Delete, UnpublishConnection, RemoveFinalizer, PublishConnection, AddFinalizer, Create,
       CreateFails, AnnotateSucceeded, AnnotateFailed, PublishCreated, LateInitialize, Update,
       UpdateExternalFails, PublishUpdated, UpdateStatus, Crash, CacheSync, Poll, UserEdits,
       UserDeletes, UserClearsPending, UserWrites, OutsiderActs, DeletionEnds, Tick
  <2>2. mgCurrent
    BY <1>3, <2>1, Ends, Zenon DEF SetExternalCreatePending, UpdateOK, Accepts
  <2>3. SameDecisions(mg, api) /\ Decided
    BY <1>3, <2>2 DEF LatestInv, Agrees, Before
  <2>4. mg \in Object /\ api \in Object
    BY <1>3 DEF LatestInv, FinalizerInv, TypeOK, LocalOK, ServerOK
  <2>5. /\ ~mg.deleted /\ ~Paused(mg) /\ ShouldCreate(Resolver(mg.policy))
        /\ ExternalCreateIncomplete(mg) => deterministicExternalName
    BY <1>3, <2>3 DEF Decided, Before
  <2> QED BY <2>3, <2>4, <2>5, SameFacts DEF SameDecisions
<1>4. LatestInv /\ [Next]_vars =>
        [pc = "setPending" /\ pc' = "create" =>
           /\ ~api.deleted /\ ~Paused(api) /\ ShouldCreate(Resolver(api.policy))
           /\ ExternalCreateIncomplete(api) => deterministicExternalName]_vars
  BY <1>3
<1> QED BY <1>1, <1>2, <1>4, FinalizerInvariant, PTL DEF Spec, CreateFromLatest
=============================================================================
