-------------------------- MODULE ManagedCopyProofs -------------------------
(***************************************************************************)
(* What the copies of the object have in common, in the API server, in the *)
(* cache and in Reconcile.  From it follows that Reconcile forgets         *)
(* nothing: a managed resource that no request stands for needs none       *)
(* (RestIsJustified); and that there is one external name, if the          *)
(* initializer gives it.                                                   *)
(***************************************************************************)
EXTENDS ManagedReconcilerProofs

\* The calls of a reconcile of a deleted resource.
Deleting == {"delete", "unpublish", "removeFinalizer"}

\* What the copies of the object owe to the server and to one another: a deleted
\* object that is read has its finalizer, the calls of a deletion are made for a
\* deleted one, and Initialize still has what the cache has, if that is the
\* server's.
CopyInv == /\ cache.deleted => cache.finalizer
           /\ pc \in Before \cup Deleting => (mg.deleted => mg.finalizer)
           /\ pc \in Deleting => mg.deleted
           /\ pc = "initialize" /\ mgCurrent => cacheCurrent /\ mg = cache

\* Why a reconcile of o requeues nothing.
Justified(o) == \/ ~o.exists \/ Paused(o) \/ ~Validate(Resolver(o.policy))
                \/ ExternalCreateIncomplete(o) /\ ~deterministicExternalName

\* The cache will catch up with an event that queues a request.
EventDue == /\ ~cacheCurrent
            /\ ~FilterEvents \/ (cache.exists /\ ~api.exists) \/ cache.name # api.name

\* A resource that no request stands for needs none, or an event is due; so does
\* one that a status update is about to leave without a request.
Calm == /\ pc = "idle" /\ ~queued /\ ~timer => Justified(cache) \/ EventDue
        /\ pc = "status" /\ outcome.requeue = "none" /\ mgCurrent =>
             Justified(api) /\ (Justified(cache) \/ EventDue)

RestInv == FinalizerInv /\ CopyInv /\ Calm

-----------------------------------------------------------------------------

\* Once the reconcile is past the calls CopyInv is about, only the cache matters.
LEMMA CopyOver ==
  ASSUME CopyInv, cache' = cache, pc' \notin Before \cup Deleting
  PROVE  CopyInv'
BY DEF CopyInv, Before, Deleting

\* A step to another call with a copy that is deleted only under its finalizer.
LEMMA CopyGoesOn ==
  ASSUME CopyInv, cache' = cache, pc' # "initialize",
         mg'.deleted => mg'.finalizer, pc' \in Deleting => mg'.deleted
  PROVE  CopyInv'
BY DEF CopyInv, Before, Deleting

\* Each call of Reconcile preserves it.
LEMMA ReconcileCopy ==
  ASSUME FinalizerInv, CopyInv, Reconcile
  PROVE  CopyInv'
<1>t. TypeOK /\ Coherent BY DEF FinalizerInv
<1>o. mg \in Object /\ api \in Object /\ cache \in Object
  BY <1>t DEF TypeOK, LocalOK, ServerOK
<1>c. cache' = cache
  BY <1>t, ReconcileStores DEF server, Store
<1>1. CASE Start
  <2>1. /\ mg' = cache /\ mgCurrent' = cacheCurrent /\ cacheCurrent' = cacheCurrent
        /\ pc' = "initialize" \/ (pc' = "unpublish" /\ cache.deleted)
    BY <1>1 DEF Start, Begin, Dequeue, server
  <2> QED BY <1>c, <2>1 DEF CopyInv, Before, Deleting
<1>2. CASE Initialize
  <2> DEFINE o == [mg EXCEPT !.name = ManagedName]
  <2>1. mg.deleted => mg.finalizer BY <1>2 DEF Initialize, CopyInv, Before
  <2>2. o.deleted = mg.deleted /\ o.finalizer = mg.finalizer BY <1>o DEF Object
  <2>3. CASE pc' \in {"idle", "status"} BY <1>c, <2>3, CopyOver DEF Before, Deleting
  <2>4. CASE pc' \in {"connect", "resolve"} /\ mg' \in {mg, o}
    <3>1. mg'.deleted => mg'.finalizer BY <2>1, <2>2, <2>4, Zenon
    <3> QED BY <1>c, <2>4, <3>1, CopyGoesOn DEF Deleting
  <2>5. pc' \in {"idle", "status"} \/ (pc' \in {"connect", "resolve"} /\ mg' \in {mg, o})
    BY <1>2, Ends, Zenon DEF Initialize, AfterInitialize, Goto
  <2> QED BY <2>3, <2>4, <2>5
<1>3. CASE ResolveReferences
  <2> DEFINE o == [api EXCEPT !.resolved = TRUE]
  <2>1. mg.deleted => mg.finalizer BY <1>3 DEF ResolveReferences, CopyInv, Before
  <2>2. o.deleted => o.finalizer BY <1>o, <1>t DEF Object, Coherent
  <2>3. CASE pc' \in {"idle", "status"} BY <1>c, <2>3, CopyOver DEF Before, Deleting
  <2>4. CASE pc' = "connect" /\ mg' \in {mg, o}
    BY <1>c, <2>1, <2>2, <2>4, CopyGoesOn, Zenon DEF Deleting
  <2>5. pc' \in {"idle", "status"} \/ (pc' = "connect" /\ mg' \in {mg, o})
    BY <1>3, Ends, Zenon DEF ResolveReferences, Goto
  <2> QED BY <2>3, <2>4, <2>5
<1>4. CASE Connect \/ ObserveFails \/ ObserveMissing \/ PublishConnection \/ UnpublishConnection
  <2>1. mg.deleted => mg.finalizer
    BY <1>4, Zenon DEF Connect, ObserveFails, ObserveMissing, PublishConnection, UnpublishConnection, CopyInv,
       Before, Deleting
  <2>2. CASE pc' \in {"idle", "status"} BY <1>c, <2>2, CopyOver DEF Before, Deleting
  <2>3. CASE pc' \in {"observe", "publish", "addFinalizer"} /\ mg' = mg
    BY <1>c, <2>1, <2>3, CopyGoesOn DEF Deleting
  <2>4. CASE pc' \in {"unpublish", "removeFinalizer"} /\ mg' = mg /\ mg.deleted
    BY <1>c, <2>1, <2>4, CopyGoesOn DEF Deleting
  <2>5. pc = "unpublish" => mg.deleted BY DEF CopyInv, Deleting
  <2> QED BY <1>4, <2>2, <2>3, <2>4, <2>5, Ends, Zenon
      DEF Connect, ObserveFails, ObserveMissing, PublishConnection, UnpublishConnection, Goto
<1>5. CASE ObserveExisting
  <2>1. mg.deleted => mg.finalizer BY <1>5 DEF ObserveExisting, CopyInv, Before
  <2>2. /\ mg'.deleted = mg.deleted /\ mg'.finalizer = mg.finalizer
        /\ pc' = "publish" \/ (pc' \in {"delete", "unpublish"} /\ mg.deleted)
    BY <1>5, <1>o DEF ObserveExisting, Object
  <2> QED BY <1>c, <2>1, <2>2, CopyGoesOn DEF Deleting
<1>6. CASE AddFinalizer
  <2> DEFINE o == [mg EXCEPT !.finalizer = TRUE]
  <2>1. o.finalizer BY <1>o DEF Object
  <2>2. \/ pc' \in {"idle", "status", "lateInitialize", "update"}
        \/ pc' = "setPending" /\ mg' = mg /\ mg.finalizer
        \/ pc' = "setPending" /\ mg' = o
    BY <1>6, Ends, Zenon DEF AddFinalizer, AfterFinalizer, AfterLateInitialize, Goto
  <2> HIDE DEF o
  <2>3. CASE pc' \in {"idle", "status", "lateInitialize", "update"}
    BY <1>c, <2>3, CopyOver DEF Before, Deleting
  <2> QED BY <1>c, <2>1, <2>2, <2>3, CopyGoesOn DEF Deleting
<1>7. CASE GetNotFound
  BY <1>7, <1>c, CopyOver DEF GetNotFound, Dequeue, local, Before, Deleting
<1>8. CASE \/ StopPaused \/ StopInvalid \/ Delete \/ RemoveFinalizer \/ SetExternalCreatePending
           \/ Create \/ CreateFails \/ AnnotateSucceeded \/ AnnotateFailed \/ PublishCreated
           \/ LateInitialize \/ Update \/ UpdateExternalFails \/ PublishUpdated \/ UpdateStatus
  <2>1. pc' \in {"idle", "status", "create", "annotateSucceeded", "annotateFailed",
                 "publishCreated", "update", "publishUpdated"}
    BY <1>8, Ends, Zenon
    DEF StopPaused, StopInvalid, Begin, Delete, RemoveFinalizer, SetExternalCreatePending, Create,
        CreateFails, AnnotateSucceeded, AnnotateFailed, PublishCreated, LateInitialize,
        AfterLateInitialize, Update, UpdateExternalFails, PublishUpdated, UpdateStatus, Goto, Retry
  <2> QED BY <1>c, <2>1, CopyOver DEF Before, Deleting
<1> QED BY <1>1, <1>2, <1>3, <1>4, <1>5, <1>6, <1>7, <1>8 DEF Reconcile

\* So does everything around Reconcile.
LEMMA EnvironmentCopy ==
  ASSUME FinalizerInv, CopyInv, Environment
  PROVE  CopyInv'
<1>1. CASE Crash
  BY <1>1, CopyOver DEF Crash, server, Before, Deleting
<1>2. CASE CacheSync
  BY <1>2 DEF CacheSync, local, CopyInv, FinalizerInv, Coherent
<1>3. CASE UserEdits \/ UserDeletes \/ UserClearsPending
  <2>1. UNCHANGED <<cache, pc, mg>> /\ ~mgCurrent'
    BY <1>3 DEF UserEdits, UserDeletes, UserClearsPending, UserWrites
  <2> QED BY <2>1 DEF CopyInv
<1>4. CASE Poll \/ OutsiderActs \/ DeletionEnds \/ Tick
  <2>1. UNCHANGED <<server, local>>
    BY <1>4 DEF Poll, OutsiderActs, DeletionEnds, Tick
  <2> QED BY <2>1 DEF server, local, CopyInv
<1> QED BY <1>1, <1>2, <1>3, <1>4 DEF Environment

-----------------------------------------------------------------------------

\* The reconcile goes on, or leaves a request.
StillBusy == \/ pc' \notin {"idle", "status"}
             \/ pc' = "idle" /\ (queued' \/ timer')
             \/ pc' = "status" /\ outcome'.requeue # "none"

\* Such a step owes no rest.
LEMMA Busy == StillBusy => Calm'
BY DEF Calm, StillBusy

\* The continuations of a call that go on or leave a request.
LEMMA Leaves ==
  /\ \A call, o, c : call \notin {"idle", "status"} /\ Goto(call, o, c) => StillBusy
  /\ \A s, c : Finish(s, "now", c) \/ Finish(s, "poll", c) => StillBusy
  /\ Return("now") \/ Return("poll") => StillBusy
  /\ CallFails => StillBusy
  /\ \A o : UpdateErrs(o) => StillBusy
<1>1. \A call, o, c : call \notin {"idle", "status"} /\ Goto(call, o, c) => StillBusy
  BY DEF Goto, StillBusy
<1>2. \A s, c : Finish(s, "now", c) \/ Finish(s, "poll", c) => StillBusy
  BY DEF Finish, StillBusy
<1>3. Return("now") \/ Return("poll") => StillBusy
  BY Zenon DEF Return, StillBusy
<1>4. CallFails => StillBusy BY <1>2, <1>3 DEF CallFails
<1>5. \A o : UpdateErrs(o) => StillBusy BY <1>2 DEF UpdateErrs
<1> QED BY <1>1, <1>2, <1>3, <1>4, <1>5

\* A status update that requests nothing follows, for a cache that justifies it.
LEMMA StopsCalm ==
  ASSUME Coherent, pc' = "status", UNCHANGED server, Justified(cache), mgCurrent' => cacheCurrent
  PROVE  Calm'
<1>1. api' = api /\ cache' = cache BY DEF server
<1>2. mgCurrent' => Justified(api) BY DEF Coherent
<1>3. Justified(cache') /\ (mgCurrent' => Justified(api')) BY <1>1, <1>2
<1> QED BY <1>3 DEF Calm, Justified, Paused, ExternalCreateIncomplete

\* Neither the name nor the condition of an object justifies anything.
LEMMA SameJustified ==
  ASSUME NEW o \in Object, NEW p \in Object, o.exists = p.exists, o.paused = p.paused,
         o.policy = p.policy,
         o.pending = p.pending, o.succeeded = p.succeeded, o.failed = p.failed
  PROVE  Justified(o) <=> Justified(p)
BY SameFacts DEF Justified

\* An incomplete creation ends the reconcile without a request, and is recorded in
\* the cache as it is in the server.
LEMMA InitializeCalm ==
  ASSUME FinalizerInv, CopyInv, Initialize
  PROVE  Calm'
<1>t. TypeOK /\ Coherent BY DEF FinalizerInv
<1>o. mg \in Object /\ api \in Object /\ cache \in Object
  BY <1>t DEF TypeOK, LocalOK, ServerOK
<1> DEFINE o == [mg EXCEPT !.name = ManagedName]
<1>1. mgCurrent => cacheCurrent /\ mg = cache /\ mg = api
  BY <1>t DEF Initialize, CopyInv, Coherent
<1>2. CASE ~ExternalCreateIncomplete(mg) \/ deterministicExternalName
  <2>1. ~ExternalCreateIncomplete(o) \/ deterministicExternalName
    <3>1. o.pending = mg.pending /\ o.succeeded = mg.succeeded /\ o.failed = mg.failed
      BY <1>o DEF Object
    <3> QED BY <1>2, <3>1 DEF ExternalCreateIncomplete
  <2> HIDE DEF o
  <2>2. \/ AfterInitialize(mg, mgCurrent) \/ AfterInitialize(o, TRUE) \/ Return("now") \/ UpdateErrs(o)
    BY Zenon DEF Initialize, o
  <2>3. StillBusy BY <1>2, <2>1, <2>2, Leaves, Zenon DEF AfterInitialize
  <2> QED BY <2>3, Busy
<1>3. CASE ExternalCreateIncomplete(mg) /\ ~deterministicExternalName
  <2>1. Justified(mg) BY <1>3 DEF Justified
  <2>2. CASE AfterInitialize(mg, mgCurrent) /\ UNCHANGED server
    <3>1. pc' = "status" /\ mgCurrent' = mgCurrent
      BY <1>3, <2>2 DEF AfterInitialize, Finish
    <3>2. CASE ~mgCurrent' BY <3>1, <3>2 DEF Calm
    <3>3. CASE mgCurrent' BY <1>1, <1>t, <2>1, <2>2, <3>1, <3>3, StopsCalm
    <3> QED BY <3>2, <3>3
  <2>3. CASE UpdateOK(o) /\ AfterInitialize(o, TRUE)
    <3>1. /\ o.exists = mg.exists /\ o.paused = mg.paused /\ o.policy = mg.policy
          /\ o.pending = mg.pending /\ o.succeeded = mg.succeeded /\ o.failed = mg.failed
          /\ o.deleted = mg.deleted /\ o.finalizer = mg.finalizer
      BY <1>o DEF Object
    <3>2. o \in Object BY <1>o, ObjectUpdates, NameAssumption, Zenon
    <3> HIDE DEF o
    <3>3. Justified(o) BY <1>o, <2>1, <3>1, <3>2, SameJustified
    <3>4. mgCurrent BY <2>3 DEF UpdateOK, Accepts
    <3>5. o.deleted => o.finalizer BY <1>1, <1>t, <3>1, <3>4, Zenon DEF Coherent
    <3>6. api' = o /\ cache' = cache BY <2>3, <3>5 DEF UpdateOK, Store
    <3>7. Justified(api') /\ Justified(cache') BY <1>1, <2>1, <3>3, <3>4, <3>6
    <3>8. ExternalCreateIncomplete(o) BY <1>3, <3>1 DEF ExternalCreateIncomplete
    <3>9. pc' = "status" BY <1>3, <2>3, <3>8 DEF AfterInitialize, Finish
    <3> QED BY <3>7, <3>9 DEF Calm, Justified, Paused, ExternalCreateIncomplete
  <2>4. CASE Return("now") \/ UpdateErrs(o) BY <2>4, Leaves, Busy
  <2> QED BY <2>2, <2>3, <2>4, Zenon DEF Initialize
<1> QED BY <1>2, <1>3

\* When the finalizer is removed the resource goes; the cache has missed that, or
\* the resource is not there either.
LEMMA RemoveFinalizerCalm ==
  ASSUME FinalizerInv, CopyInv, RemoveFinalizer
  PROVE  Calm'
<1>t. TypeOK /\ Coherent BY DEF FinalizerInv
<1>o. mg \in Object BY <1>t DEF TypeOK, LocalOK
<1> DEFINE o == [mg EXCEPT !.finalizer = FALSE]
<1>1. mg.deleted /\ mg.finalizer
  BY DEF RemoveFinalizer, CopyInv, Deleting
<1>2. o.deleted /\ ~o.finalizer
  BY <1>o, <1>1 DEF Object
<1> HIDE DEF o
<1>3. CASE UpdateOK(o) /\ Return("none")
  <2>1. api' = NoObject /\ cache' = cache /\ cacheCurrent' = (cacheCurrent /\ o = api) /\ pc' = "idle"
    BY <1>2, <1>3 DEF UpdateOK, Store, Return
  <2>2. ~cacheCurrent' BY <1>2, <1>t, <2>1, Zenon DEF Coherent
  <2>3. ~api'.exists BY <2>1 DEF NoObject
  <2> QED BY <2>1, <2>2, <2>3 DEF Calm, EventDue, Justified
<1>4. CASE UpdateNotFound /\ Return("none")
  <2>1. ~api'.exists /\ (cacheCurrent' => cache' = api') /\ pc' = "idle"
    BY <1>4, <1>t DEF UpdateNotFound, Return, server, Coherent
  <2> QED BY <2>1, <1>t DEF Calm, EventDue, Justified, TypeOK, ServerOK
<1>5. CASE Return("now") \/ \E c \in BOOLEAN : Finish("error", "now", c)
  BY <1>5, Leaves, Busy
<1> QED BY <1>1, <1>3, <1>4, <1>5 DEF RemoveFinalizer, o

\* A status update that requests nothing leaves a resource that needs nothing.
LEMMA UpdateStatusCalm ==
  ASSUME FinalizerInv, Calm, UpdateStatus
  PROVE  Calm'
<1>t. TypeOK /\ Coherent BY DEF FinalizerInv
<1>o. api \in Object BY <1>t DEF TypeOK, ServerOK
<1> DEFINE o == [api EXCEPT !.synced = outcome.synced]
<1>1. /\ o.exists = api.exists /\ o.name = api.name
      /\ o.deleted = api.deleted /\ o.finalizer = api.finalizer
  BY <1>o DEF Object
<1> HIDE DEF o
<1>2. CASE UpdateOK(o) /\ Return(outcome.requeue)
  <2>1. pc' = "idle" BY <1>2 DEF Return
  <2>2. CASE outcome.requeue # "none"
    <3>1. outcome.requeue \in {"now", "poll"}
      BY <2>2, <1>t DEF TypeOK, LocalOK, Outcome, Requeues
    <3> QED BY <1>2, <3>1, Leaves, Busy
  <2>3. CASE outcome.requeue = "none"
    <3>1. mgCurrent /\ pc = "status" BY <1>2 DEF UpdateOK, Accepts, UpdateStatus
    <3>2. Justified(cache) \/ EventDue BY <2>3, <3>1 DEF Calm
    <3>3. /\ api' = o /\ cache' = cache
          /\ cacheCurrent' = (cacheCurrent /\ o = api)
      BY <1>1, <1>2, <1>t DEF UpdateOK, Store, Coherent
    <3>4. CASE Justified(cache)
      <4>1. Justified(cache') BY <3>3, <3>4
      <4> QED BY <2>1, <4>1 DEF Calm, Justified, Paused, ExternalCreateIncomplete
    <3>5. CASE EventDue
      BY <1>1, <2>1, <3>3, <3>5, Zenon DEF Calm, EventDue
    <3> QED BY <3>2, <3>4, <3>5
  <2> QED BY <2>2, <2>3
<1>3. CASE Return("now") BY <1>3, Leaves, Busy
<1> QED BY <1>2, <1>3 DEF UpdateStatus, o

\* Each call of Reconcile leaves a request, or a resource that needs none.
LEMMA ReconcileCalm ==
  ASSUME RestInv, Reconcile
  PROVE  Calm'
<1>t. FinalizerInv /\ CopyInv /\ Calm /\ TypeOK /\ Coherent
  BY DEF RestInv, FinalizerInv
<1>1. CASE GetNotFound
  <2>1. ~cache'.exists /\ pc' = "idle" BY <1>1 DEF GetNotFound, Dequeue, server, local
  <2> QED BY <2>1 DEF Calm, Justified
<1>2. CASE StopPaused \/ StopInvalid
  <2>1. pc' = "status" /\ UNCHANGED server /\ mgCurrent' = cacheCurrent /\ Justified(cache)
    BY <1>2 DEF StopPaused, StopInvalid, Dequeue, Begin, Justified
  <2> QED BY <1>t, <2>1, StopsCalm
<1>3. CASE Start
  BY <1>3, Busy DEF Start, Begin, StillBusy
<1>4. CASE Initialize BY <1>4, <1>t, InitializeCalm
<1>5. CASE RemoveFinalizer BY <1>5, <1>t, RemoveFinalizerCalm
<1>6. CASE UpdateStatus BY <1>6, <1>t, UpdateStatusCalm
<1>7. CASE ResolveReferences
  BY <1>7, Leaves, Busy, Zenon DEF ResolveReferences
<1>8. CASE \/ Connect \/ ObserveMissing \/ ObserveFails \/ Delete \/ UnpublishConnection
           \/ PublishConnection
  BY <1>8, Leaves, Busy, Zenon
  DEF Connect, ObserveMissing, ObserveFails, Delete, UnpublishConnection, PublishConnection
<1>9. CASE ObserveExisting
  BY <1>9, Busy DEF ObserveExisting, StillBusy
<1>10. CASE AddFinalizer \/ SetExternalCreatePending \/ LateInitialize
  BY <1>10, Leaves, Busy, Zenon
  DEF AddFinalizer, SetExternalCreatePending, LateInitialize, AfterFinalizer, AfterLateInitialize
<1>11. CASE AnnotateSucceeded \/ AnnotateFailed
  <2>1. ASSUME NEW o, NEW c, Retry(o, c) PROVE StillBusy
    BY <1>11, <2>1, Zenon DEF AnnotateSucceeded, AnnotateFailed, Retry, StillBusy
  <2> QED BY <1>11, <2>1, Leaves, Busy, Zenon DEF AnnotateSucceeded, AnnotateFailed
<1>12. CASE \/ Create \/ CreateFails \/ PublishCreated \/ Update \/ UpdateExternalFails
            \/ PublishUpdated
  BY <1>12, Leaves, Busy, Zenon
  DEF Create, CreateFails, PublishCreated, Update, UpdateExternalFails, PublishUpdated
<1> QED BY <1>1, <1>2, <1>3, <1>4, <1>5, <1>6, <1>7, <1>8, <1>9, <1>10, <1>11, <1>12 DEF Reconcile

\* The environment does too: an update the predicate filters out changes nothing
\* that justified the rest, as an incomplete creation is no reason to rest when the
\* name is deterministic.
LEMMA EnvironmentCalm ==
  ASSUME FilterEvents => deterministicExternalName, RestInv, Environment
  PROVE  Calm'
<1>t. Calm /\ TypeOK /\ Coherent BY DEF RestInv, FinalizerInv
<1>o. api \in Object /\ cache \in Object BY <1>t DEF TypeOK, ServerOK
<1>1. CASE Crash BY <1>1, Busy, SMTT(30) DEF Crash, StillBusy
<1>2. CASE Poll
  BY <1>2, <1>t, SMTT(30) DEF Poll, Calm, Justified, EventDue, Paused, ExternalCreateIncomplete, server, local
<1>3. CASE OutsiderActs \/ DeletionEnds \/ Tick
  <2>1. UNCHANGED <<server, local, queue>> BY <1>3 DEF OutsiderActs, DeletionEnds, Tick
  <2> QED BY <1>t, <2>1
      DEF Calm, Justified, EventDue, Paused, ExternalCreateIncomplete, server, local, queue
<1>4. CASE UserEdits \/ UserDeletes \/ UserClearsPending
  <2>1. /\ UNCHANGED <<cache, pc, queued, timer, outcome>> /\ ~cacheCurrent' /\ ~mgCurrent'
        /\ api.exists
    BY <1>4 DEF UserEdits, UserDeletes, UserClearsPending, UserWrites, queue
  <2>2. api'.name = api.name \/ ~api'.exists
    <3>1. CASE UserDeletes /\ ~api.finalizer
      BY <3>1 DEF UserDeletes, UserWrites, NoObject
    <3>2. CASE UserEdits \/ (UserDeletes /\ api.finalizer) \/ UserClearsPending
      BY <1>o, <3>2 DEF UserEdits, UserDeletes, UserClearsPending, UserWrites, Object
    <3> QED BY <1>4, <3>1, <3>2
  <2>3. CASE pc = "idle" /\ ~queued /\ ~timer
    <3>1. CASE Justified(cache)
      <4>1. Justified(cache') BY <2>1, <3>1
      <4> QED BY <2>1, <2>3, <4>1 DEF Calm, Justified, Paused, ExternalCreateIncomplete
    <3>2. CASE cache.exists /\ EventDue
      BY <2>1, <2>2, <2>3, <3>2 DEF Calm, EventDue
    <3> QED BY <1>t, <2>3, <3>1, <3>2 DEF Calm, Justified
  <2> QED BY <2>1, <2>3 DEF Calm
<1>5. CASE CacheSync
  <2>1. /\ cache' = api /\ api' = api /\ cacheCurrent' /\ ~cacheCurrent
        /\ UNCHANGED <<pc, outcome, mgCurrent, timer>>
        /\ queued' = (queued \/ ~FilterEvents \/ DesiredStateChanged(cache, api))
    BY <1>5 DEF CacheSync, local
  <2>2. CASE pc = "status" /\ outcome.requeue = "none" /\ mgCurrent
    <3>1. Justified(api) BY <1>t, <2>2 DEF Calm
    <3>2. Justified(cache') /\ Justified(api') BY <2>1, <3>1
    <3> QED BY <2>1, <2>2, <3>2 DEF Calm, Justified, Paused, ExternalCreateIncomplete
  <2>3. CASE pc = "idle" /\ ~queued' /\ ~timer
    <3>1. FilterEvents /\ ~DesiredStateChanged(cache, api) /\ ~queued BY <2>1, <2>3, Zenon
    <3>2. /\ cache.exists = api.exists /\ cache.paused = api.paused /\ cache.name = api.name
          /\ cache["policy"] = api["policy"]
      BY <1>o, <3>1 DEF DesiredStateChanged, AnnotationsChanged, Object
    <3>3. ~EventDue BY <3>1, <3>2 DEF EventDue
    <3>4. Justified(cache) BY <1>t, <2>3, <3>1, <3>3 DEF Calm
    <3>5. Justified(api)
      BY <3>1, <3>2, <3>4 DEF Justified, Paused
    <3>6. Justified(cache') BY <2>1, <3>5
    <3> QED BY <2>1, <2>3, <3>6 DEF Calm, Justified, Paused, ExternalCreateIncomplete
  <2> QED BY <2>1, <2>2, <2>3 DEF Calm
<1> QED BY <1>1, <1>2, <1>3, <1>4, <1>5 DEF Environment

\* Nothing is forgotten: when no request is queued, delayed or in progress and the
\* cache has caught up, the resource is gone, paused, invalid or refused as
\* incomplete.  Proved when every event queues a request, and, with the predicate
\* DesiredStateChanged, for deterministic external names: the predicate passes over
\* the annotation whose removal ends the refusal.
THEOREM RestsJustified ==
  ASSUME FilterEvents => deterministicExternalName
  PROVE  Spec => []RestIsJustified
<1>1. Init /\ FinalizerInv => RestInv
  <2> SUFFICES ASSUME Init, FinalizerInv PROVE RestInv
    OBVIOUS
  <2>1. ~cache.exists /\ ~cache.deleted /\ pc = "idle" BY DEF Init, NoObject
  <2> QED BY <2>1 DEF RestInv, CopyInv, Calm, Justified, Before, Deleting
<1>2. RestInv /\ FinalizerInv' /\ [Next]_vars => RestInv'
  <2> SUFFICES ASSUME RestInv, FinalizerInv', [Next]_vars PROVE RestInv'
    OBVIOUS
  <2>1. CASE UNCHANGED vars
    <3>1. CopyInv' BY <2>1, SMTT(30) DEF vars, server, local, RestInv, CopyInv
    <3>2. Calm'
      BY <2>1 DEF vars, server, local, queue, RestInv, Calm, Justified, EventDue, Paused,
         ExternalCreateIncomplete
    <3> QED BY <3>1, <3>2 DEF RestInv
  <2>2. CASE Reconcile BY <2>2, ReconcileCopy, ReconcileCalm DEF RestInv
  <2>3. CASE Environment BY <2>3, EnvironmentCopy, EnvironmentCalm DEF RestInv
  <2> QED BY <2>1, <2>2, <2>3 DEF Next
<1>3. RestInv => RestIsJustified
  <2> SUFFICES ASSUME RestInv, pc = "idle", ~queued, ~timer, cacheCurrent
               PROVE  Justified(api)
    BY DEF RestIsJustified, Justified
  <2>1. Justified(cache) BY DEF RestInv, Calm, EventDue
  <2> QED BY <2>1 DEF RestInv, FinalizerInv, Coherent
<1> QED BY <1>1, <1>2, <1>3, FinalizerInvariant, PTL DEF Spec

-----------------------------------------------------------------------------
(* What the steps do to the external resources.                            *)

\* No resource appears: what is there was there, made by the same and as long ago.
Fades(e, f) ==
  \A n \in Names :
    /\ f[n].ours = e[n].ours /\ f[n].created = e[n].created
    /\ e[n].state # "none" => f[n].state # "none"
    /\ f[n].state = "live" => e[n].state = "live"
    /\ f[n].state = "deleting" => e[n].state \in {"live", "deleting"}

\* A resource that is asked to go, or goes, or is changed, is there no more than it was.
LEMMA ChangeFades ==
  ASSUME NEW e \in [Names -> Resource], NEW f, NEW m
  PROVE  /\ f = e => Fades(e, f)
         /\ \A s : f = [e EXCEPT ![m].spec = s] => Fades(e, f)
         /\ e[m].state # "none" /\ f = [e EXCEPT ![m].state = "gone"] => Fades(e, f)
         /\ e[m].state \in {"live", "deleting"} /\ f = [e EXCEPT ![m].state = "deleting"] => Fades(e, f)
         /\ f = [e EXCEPT ![m].state = e[m].state] => Fades(e, f)
<1>1. f = e => Fades(e, f) BY DEF Fades
<1>2. \A s : f = [e EXCEPT ![m].spec = s] => Fades(e, f) BY DEF Fades, Resource
<1>3. e[m].state # "none" /\ f = [e EXCEPT ![m].state = "gone"] => Fades(e, f)
  BY DEF Fades, Resource
<1>4. e[m].state \in {"live", "deleting"} /\ f = [e EXCEPT ![m].state = "deleting"] => Fades(e, f)
  BY DEF Fades, Resource
<1>5. f = [e EXCEPT ![m].state = e[m].state] => Fades(e, f) BY DEF Fades, Resource
<1> QED BY <1>1, <1>2, <1>3, <1>4, <1>5

\* Reconcile makes external resources only in the call that creates one.
LEMMA ReconcileFades ==
  ASSUME TypeOK, Reconcile, pc # "create"
  PROVE  Fades(ext, ext')
<1>t. ext \in [Names -> Resource] BY DEF TypeOK, WorldOK
<1>0. CASE UNCHANGED ext BY <1>0, <1>t, ChangeFades
<1>1. CASE Delete
  <2>1. CASE Exists(mg.name)
    <3>1. UNCHANGED ext \/ ext' = [ext EXCEPT ![mg.name].state = "deleting"]
      BY <1>1, <2>1 DEF Delete
    <3>2. ext[mg.name].state \in {"live", "deleting"} BY <2>1 DEF Exists
    <3> QED BY <1>t, <1>0, <3>1, <3>2, ChangeFades
  <2>2. CASE ~Exists(mg.name)
    <3>1. UNCHANGED ext \/ ext' = [ext EXCEPT ![mg.name].state = ext[mg.name].state]
      BY <1>1, <2>2 DEF Delete
    <3> QED BY <1>t, <1>0, <3>1, ChangeFades
  <2> QED BY <2>1, <2>2
<1>2. CASE Update
  <2>1. UNCHANGED ext \/ ext' = [ext EXCEPT ![mg.name].spec = mg.spec] BY <1>2 DEF Update
  <2> QED BY <1>t, <1>0, <2>1, ChangeFades, Zenon
<1>3. CASE GetNotFound \/ StopPaused \/ StopInvalid \/ Start
  BY <1>0, <1>3 DEF GetNotFound, StopPaused, StopInvalid, Start, Dequeue, world
<1>4. CASE \/ Initialize \/ ResolveReferences \/ Connect \/ ObserveMissing \/ ObserveExisting
           \/ ObserveFails \/ UnpublishConnection \/ RemoveFinalizer \/ PublishConnection
           \/ AddFinalizer
  BY <1>0, <1>4, Zenon DEF Initialize, ResolveReferences, Connect, ObserveMissing, ObserveExisting, ObserveFails,
     UnpublishConnection, RemoveFinalizer, PublishConnection, AddFinalizer, world
<1>5. CASE \/ SetExternalCreatePending \/ AnnotateSucceeded \/ AnnotateFailed \/ PublishCreated
           \/ LateInitialize \/ UpdateExternalFails \/ PublishUpdated \/ UpdateStatus
  BY <1>0, <1>5, Zenon DEF SetExternalCreatePending, AnnotateSucceeded, AnnotateFailed, PublishCreated,
     LateInitialize, UpdateExternalFails, PublishUpdated, UpdateStatus, world
<1>6. ~Create /\ ~CreateFails BY Zenon DEF Create, CreateFails
<1> QED BY <1>1, <1>2, <1>3, <1>4, <1>5, <1>6 DEF Reconcile

\* Nothing around Reconcile makes any.
LEMMA EnvironmentFades ==
  ASSUME TypeOK, Environment
  PROVE  Fades(ext, ext')
<1>t. ext \in [Names -> Resource] BY DEF TypeOK, WorldOK
<1>0. CASE UNCHANGED ext BY <1>0, <1>t, ChangeFades
<1>1. CASE OutsiderActs
  <2>1. PICK n \in Names : /\ Exists(n)
                           /\ \/ \E s \in Specs \ {ext[n].spec} : ext' = [ext EXCEPT ![n].spec = s]
                              \/ ext' = [ext EXCEPT ![n].state = "gone"]
    BY <1>1 DEF OutsiderActs
  <2>2. ext[n].state # "none" BY <2>1 DEF Exists
  <2> QED BY <1>t, <2>1, <2>2, ChangeFades
<1>2. CASE DeletionEnds
  <2>1. PICK n \in Names : ext[n].state = "deleting" /\ ext' = [ext EXCEPT ![n].state = "gone"]
    BY <1>2, Zenon DEF DeletionEnds
  <2> QED BY <1>t, <2>1, ChangeFades, Zenon
<1>3. CASE Crash \/ CacheSync \/ Poll \/ UserEdits \/ UserDeletes \/ UserClearsPending \/ Tick
  BY <1>0, <1>3 DEF Crash, CacheSync, Poll, UserEdits, UserDeletes, UserClearsPending, UserWrites, Tick,
     world
<1> QED BY <1>1, <1>2, <1>3 DEF Environment

-----------------------------------------------------------------------------
(* The external name, when the initializer gives it.                       *)

\* The calls made once Initialize has named the resource.
Named == {"resolve", "connect", "observe", "publish", "addFinalizer", "setPending", "create",
          "annotateFailed", "annotateSucceeded", "lateInitialize"}

\* There is one external name: no copy of the object has another than the server's,
\* and the reconciler has created nothing under another.
OneName == /\ api.exists /\ mg.name # NoName => mg.name = api.name
           /\ api.exists /\ cache.name # NoName => cache.name = api.name
           /\ pc \in Named => mg.name # NoName
           /\ \A n \in Names : ext[n].ours /\ api.exists => api.name = n

\* A step keeps the server's record of the external name.
KeepsName == api'.exists => api.exists /\ api'.name = api.name

\* A write under the name of the server's object keeps the name.
LEMMA StoreKeepsName ==
  ASSUME NEW o, UNCHANGED server \/ (Accepts /\ Store(o)),
         Accepts => o.name = api.name \/ (o.deleted /\ ~o.finalizer)
  PROVE  KeepsName
BY SMTT(30) DEF KeepsName, Accepts, Store, NoObject, server

\* Steps that keep the name and use no other keep the names in agreement.
LEMMA NamesKept ==
  ASSUME OneName, KeepsName, cache' = cache \/ cache' = api,
         mg'.name \in {NoName, mg.name, cache.name} \/ (api.exists /\ mg'.name = api.name),
         pc' \in Named => mg'.name # NoName,
         \A n \in Names : ext'[n].ours => ext[n].ours \/ (api.exists => n = api.name)
  PROVE  OneName'
BY DEF OneName, KeepsName

\* The continuations of a call that end the reconcile forget its copy.
LEMMA Forgets ==
  /\ \A s, q, c : Finish(s, q, c) => mg' = NoObject /\ pc' = "status"
  /\ \A q : Return(q) => mg' = NoObject /\ pc' = "idle"
  /\ CallFails => mg' = NoObject /\ pc' \in {"idle", "status"} /\ UNCHANGED server
  /\ \A o : UpdateErrs(o) => mg' = NoObject /\ pc' = "status"
BY Zenon DEF Finish, Return, CallFails, UpdateErrs, Forget

\* Initialize names a resource that has no name, under which nothing was created yet.
LEMMA InitializeNames ==
  ASSUME NamedByInitializer, FinalizerInv, CopyInv, OneName, Initialize
  PROVE  OneName'
<1>t. TypeOK /\ Coherent BY DEF FinalizerInv
<1>o. mg \in Object BY <1>t DEF TypeOK, LocalOK
<1>e. \A n \in Names : ext'[n].ours = ext[n].ours BY DEF Initialize, world
<1>c. cache' = cache
  BY <1>t, ReconcileStores DEF Reconcile, server, Store
<1> DEFINE o == [mg EXCEPT !.name = ManagedName]
<1>1. CASE mg.name # NoName
  <2>1. UNCHANGED server BY <1>1 DEF Initialize
  <2>2. (mg' = mg /\ pc' \in {"connect", "resolve"}) \/ (mg' = NoObject /\ pc' = "status")
    BY <1>1, Forgets DEF Initialize, AfterInitialize, Goto
  <2>3. KeepsName BY <2>1 DEF KeepsName, server
  <2>4. mg'.name \in {NoName, mg.name} BY <2>2 DEF NoObject
  <2> QED BY <1>1, <1>c, <1>e, <2>2, <2>3, <2>4, NamesKept DEF Named
<1>2. CASE mg.name = NoName
  <2>1. o.name = ManagedName BY <1>o DEF Object
  <2>2. \/ UNCHANGED server /\ mg' = NoObject /\ pc' \in {"idle", "status"}
        \/ /\ Accepts /\ Store(o)
           /\ mg' = o \/ (mg' = NoObject /\ pc' = "status")
    BY <1>2, Forgets, UpdateErrsStores, Zenon
    DEF Initialize, UpdateOK, UpdateConflicts, AfterInitialize, Goto, server
  <2> HIDE DEF o
  <2>3. CASE UNCHANGED server /\ mg' = NoObject /\ pc' \in {"idle", "status"}
    <3>1. KeepsName BY <2>3 DEF KeepsName, server
    <3>2. mg'.name = NoName BY <2>3, SMTT(30) DEF NoObject
    <3> QED BY <1>c, <1>e, <2>3, <3>1, <3>2, NamesKept DEF Named
  <2>4. CASE /\ Accepts /\ Store(o)
             /\ mg' = o \/ (mg' = NoObject /\ pc' = "status")
    <3>1. mgCurrent /\ api.exists BY <2>4 DEF Accepts
    <3>2. mg = cache /\ mg = api
      BY <1>t, <3>1 DEF Initialize, CopyInv, Coherent
    <3>3. api'.exists => api'.name = ManagedName BY <2>1, <2>4 DEF Store, NoObject
    <3>4. mg'.name = ManagedName \/ (mg'.name = NoName /\ pc' = "status")
      BY <2>1, <2>4 DEF NoObject
    <3>5. \A n \in Names : ~ext[n].ours
      BY <1>2, <3>1, <3>2, NameAssumption DEF OneName
    <3> QED BY <1>2, <1>c, <1>e, <3>2, <3>3, <3>4, <3>5, NameAssumption DEF OneName, Named
  <2> QED BY <2>2, <2>3, <2>4
<1> QED BY <1>1, <1>2

\* A write by a call made for a named resource is under that name.
LEMMA NamedStore ==
  ASSUME OneName, pc \in Named, NEW o, o.name = mg.name, UNCHANGED server \/ (Accepts /\ Store(o))
  PROVE  KeepsName
<1>1. Accepts => o.name = api.name BY DEF OneName, Accepts
<1> QED BY <1>1, StoreKeepsName

\* A creation is made, or fails, under the name the server has.
LEMMA CreateNames ==
  ASSUME NamedByInitializer, FinalizerInv, OneName, Create \/ CreateFails
  PROVE  OneName'
<1>o. mg \in Object /\ ext \in [Names -> Resource]
  BY DEF FinalizerInv, TypeOK, LocalOK, WorldOK
<1>1. mg.name # NoName /\ (api.exists => mg.name = api.name) /\ UNCHANGED server
  BY Zenon DEF Create, CreateFails, OneName, Named
<1>2. UNCHANGED ext \/ ext' = Created(mg.name)
  BY Zenon DEF Create, CreateFails, CreatedNames
<1>3. \A n \in Names : ext'[n].ours => ext[n].ours \/ n = mg.name
  BY <1>o, <1>2 DEF Created
<1>4. mg'.name = mg.name
  BY <1>o, Zenon DEF Create, CreateFails, CreatedNames, Goto, Object
<1>5. KeepsName /\ cache' = cache BY <1>1 DEF KeepsName, server
<1> QED BY <1>1, <1>3, <1>4, <1>5, NamesKept

\* Its result is recorded under that name too, a retry included.
LEMMA AnnotateNames ==
  ASSUME FinalizerInv, OneName, AnnotateSucceeded \/ AnnotateFailed
  PROVE  OneName'
<1>o. mg \in Object /\ cache \in Object BY DEF FinalizerInv, TypeOK, LocalOK, ServerOK
<1>1. mg.name # NoName /\ pc \in Named
  BY Zenon DEF AnnotateSucceeded, AnnotateFailed, OneName, Named
<1>2. UNCHANGED server \/ (Accepts /\ Store(mg))
  BY UpdateStores, Zenon DEF AnnotateSucceeded, AnnotateFailed
<1>3. KeepsName BY <1>1, <1>2, NamedStore
<1>4. \/ mg' = NoObject /\ pc' \in {"idle", "status"}
      \/ mg' = mg
      \/ mg' = AddAnnotations(cache, mg)
  BY Forgets, Zenon DEF AnnotateSucceeded, AnnotateFailed, Retry, Goto
<1>5. AddAnnotations(cache, mg).name = mg.name
  BY <1>o, <1>1 DEF AddAnnotations, Object
<1>6. (mg'.name = NoName /\ pc' \in {"idle", "status"}) \/ mg'.name = mg.name
  BY <1>4, <1>5 DEF NoObject
<1>7. cache' = cache BY <1>2 DEF Store, server
<1>8. UNCHANGED ext BY Zenon DEF AnnotateSucceeded, AnnotateFailed, world
<1> QED BY <1>1, <1>3, <1>6, <1>7, <1>8, NamesKept DEF Named

\* Each call of Reconcile keeps the names in agreement.
LEMMA ReconcileNames ==
  ASSUME NamedByInitializer, FinalizerInv, CopyInv, OneName, Reconcile
  PROVE  OneName'
<1>t. TypeOK /\ Coherent BY DEF FinalizerInv
<1>o. mg \in Object /\ api \in Object /\ cache \in Object /\ outcome.synced \in Synced /\ now \in Time
  BY <1>t DEF TypeOK, LocalOK, ServerOK, WorldOK, Outcome
<1>e. ASSUME pc # "create" PROVE \A n \in Names : ext'[n].ours => ext[n].ours
  BY <1>t, <1>e, ReconcileFades DEF Fades
<1>c. cache' = cache
  BY <1>t, ReconcileStores DEF server, Store
<1>n. NoObject.name = NoName BY DEF NoObject
<1>1. CASE GetNotFound \/ StopPaused \/ StopInvalid \/ Start
  <2>1. UNCHANGED server /\ mg' \in {mg, NoObject, cache} /\ pc' \notin Named /\ pc = "idle"
    BY <1>1 DEF GetNotFound, StopPaused, StopInvalid, Start, Dequeue, Begin, local, Named
  <2>2. KeepsName BY <2>1 DEF KeepsName, server
  <2> QED BY <1>c, <1>e, <1>n, <2>1, <2>2, NamesKept
<1>2. CASE Initialize BY <1>2, InitializeNames, SMTT(30)
<1>3. CASE ResolveReferences
  <2> DEFINE o == [api EXCEPT !.resolved = TRUE]
  <2>1. o.name = api.name BY <1>o DEF Object
  <2>2. UNCHANGED server \/ (api.exists /\ Store(o))
    BY <1>3, Forgets, Zenon DEF ResolveReferences, UpdateNotFound
  <2>3. (mg' = NoObject /\ pc' \in {"idle", "status"}) \/ mg' = mg \/ (api.exists /\ mg' = o)
    BY <1>3, Forgets, Zenon DEF ResolveReferences, Goto
  <2> HIDE DEF o
  <2>4. KeepsName BY <2>1, <2>2 DEF KeepsName, Store, NoObject, server
  <2>5. mg.name # NoName BY <1>3 DEF ResolveReferences, OneName, Named
  <2>6. pc' \in Named => mg'.name # NoName \/ (api.exists /\ mg' = o)
    BY <2>3, <2>5 DEF Named
  <2>7. api.exists => mg.name = api.name BY <2>5 DEF OneName
  <2>8. pc # "create" BY <1>3 DEF ResolveReferences
  <2> QED BY <1>c, <1>e, <1>n, <2>1, <2>3, <2>4, <2>5, <2>6, <2>7, <2>8, NamesKept
<1>4. CASE \/ Connect \/ ObserveMissing \/ ObserveFails \/ UnpublishConnection \/ PublishConnection
  <2>1. /\ UNCHANGED server
        /\ \/ mg' = NoObject /\ pc' \in {"idle", "status"}
           \/ mg' = mg /\ (pc \in Named \/ pc' = "removeFinalizer")
    BY <1>4, Forgets, Zenon DEF Connect, ObserveMissing, ObserveFails, UnpublishConnection, PublishConnection, Goto,
       Named
  <2>2. KeepsName BY <2>1 DEF KeepsName, server
  <2>3. pc' \in Named => mg'.name # NoName BY <2>1 DEF OneName, Named
  <2>4. pc # "create"
    BY <1>4, Zenon DEF Connect, ObserveMissing, ObserveFails, UnpublishConnection, PublishConnection
  <2> QED BY <1>c, <1>e, <1>n, <2>1, <2>2, <2>3, <2>4, NamesKept
<1>5. CASE ObserveExisting
  <2>1. mg'.name = mg.name /\ UNCHANGED server /\ pc = "observe"
    BY <1>5, <1>o DEF ObserveExisting, Object
  <2>2. KeepsName BY <2>1 DEF KeepsName, server
  <2>3. mg'.name # NoName BY <2>1 DEF OneName, Named
  <2> QED BY <1>c, <1>e, <2>1, <2>2, <2>3, NamesKept
<1>6. CASE RemoveFinalizer
  <2> DEFINE o == [mg EXCEPT !.finalizer = FALSE]
  <2>1. o.deleted /\ ~o.finalizer
    BY <1>6, <1>o DEF RemoveFinalizer, CopyInv, Deleting, Object
  <2>2. UNCHANGED server \/ (Accepts /\ Store(o))
    BY <1>6, UpdateStores, Zenon DEF RemoveFinalizer
  <2> HIDE DEF o
  <2>3. KeepsName BY <2>1, <2>2, StoreKeepsName
  <2>4. mg' = NoObject /\ pc' \in {"idle", "status"} /\ pc # "create"
    BY <1>6, Forgets DEF RemoveFinalizer
  <2> QED BY <1>c, <1>e, <1>n, <2>3, <2>4, NamesKept DEF Named
<1>7. CASE AddFinalizer
  <2> DEFINE o == [mg EXCEPT !.finalizer = TRUE]
  <2>1. o.name = mg.name BY <1>o DEF Object
  <2>2. UNCHANGED server \/ (Accepts /\ Store(o))
    BY <1>7, UpdateStores, UpdateErrsStores, Zenon DEF AddFinalizer
  <2>3. (mg' = NoObject /\ pc' \in {"idle", "status"}) \/ mg' \in {mg, o}
    BY <1>7, Forgets, Zenon DEF AddFinalizer, AfterFinalizer, AfterLateInitialize, Goto
  <2> HIDE DEF o
  <2>4. pc \in Named /\ mg.name # NoName /\ pc # "create"
    BY <1>7 DEF AddFinalizer, OneName, Named
  <2>5. KeepsName BY <2>1, <2>2, <2>4, NamedStore
  <2> QED BY <1>c, <1>e, <1>n, <2>1, <2>3, <2>4, <2>5, NamesKept DEF Named
<1>8. CASE SetExternalCreatePending
  <2> DEFINE o == [mg EXCEPT !.pending = now]
  <2>1. o.name = mg.name BY <1>o DEF Object
  <2>2. UNCHANGED server \/ (Accepts /\ Store(o))
    BY <1>8, UpdateStores, UpdateErrsStores, Zenon DEF SetExternalCreatePending
  <2>3. (mg' = NoObject /\ pc' \in {"idle", "status"}) \/ mg' = o
    BY <1>8, Forgets DEF SetExternalCreatePending, Goto
  <2> HIDE DEF o
  <2>4. pc \in Named /\ mg.name # NoName /\ pc # "create"
    BY <1>8 DEF SetExternalCreatePending, OneName, Named
  <2>5. KeepsName BY <2>1, <2>2, <2>4, NamedStore
  <2> QED BY <1>c, <1>e, <1>n, <2>1, <2>3, <2>4, <2>5, NamesKept DEF Named
<1>9. CASE Create \/ CreateFails BY <1>9, CreateNames
<1>10. CASE AnnotateSucceeded \/ AnnotateFailed BY <1>10, AnnotateNames
<1>11. CASE LateInitialize
  <2>1. UNCHANGED server \/ (Accepts /\ Store(mg))
    BY <1>11, UpdateStores, UpdateErrsStores, Zenon DEF LateInitialize
  <2>2. (mg' = NoObject /\ pc' \in {"idle", "status"}) \/ mg' = mg
    BY <1>11, Forgets, Zenon DEF LateInitialize, AfterLateInitialize, Goto
  <2>3. pc \in Named /\ mg.name # NoName /\ pc # "create"
    BY <1>11 DEF LateInitialize, OneName, Named
  <2>4. KeepsName BY <2>1, <2>3, NamedStore
  <2> QED BY <1>c, <1>e, <1>n, <2>2, <2>3, <2>4, NamesKept DEF Named
<1>12. CASE UpdateStatus
  <2> DEFINE o == [api EXCEPT !.synced = outcome.synced]
  <2>1. o.name = api.name BY <1>o DEF Object
  <2>2. UNCHANGED server \/ (Accepts /\ Store(o))
    BY <1>12, UpdateStores DEF UpdateStatus
  <2>3. mg' = NoObject /\ pc' = "idle" /\ pc # "create" BY <1>12, Forgets DEF UpdateStatus
  <2> HIDE DEF o
  <2>4. KeepsName BY <2>1, <2>2, StoreKeepsName
  <2> QED BY <1>c, <1>e, <1>n, <2>3, <2>4, NamesKept DEF Named
<1>13. CASE Delete \/ PublishCreated \/ Update \/ UpdateExternalFails \/ PublishUpdated
  <2>1. /\ UNCHANGED server /\ mg' \in {mg, NoObject} /\ pc # "create"
        /\ pc' \in {"idle", "status", "publishUpdated"}
    BY <1>13, Forgets DEF Delete, PublishCreated, Update, UpdateExternalFails, PublishUpdated, Goto
  <2>2. KeepsName BY <2>1 DEF KeepsName, server
  <2> QED BY <1>c, <1>e, <1>n, <2>1, <2>2, NamesKept DEF Named
<1> QED BY <1>1, <1>2, <1>3, <1>4, <1>5, <1>6, <1>7, <1>8, <1>9, <1>10, <1>11, <1>12, <1>13 DEF Reconcile

\* So does everything around it.
LEMMA EnvironmentNames ==
  ASSUME FinalizerInv, OneName, Environment
  PROVE  OneName'
<1>t. TypeOK BY DEF FinalizerInv
<1>o. api \in Object BY <1>t DEF TypeOK, ServerOK
<1>e. \A n \in Names : ext'[n].ours => ext[n].ours
  BY <1>t, EnvironmentFades DEF Fades
<1>n. NoObject.name = NoName BY DEF NoObject
<1>1. CASE Crash
  <2>1. UNCHANGED server /\ mg' = NoObject /\ pc' = "idle" BY <1>1 DEF Crash, Forget
  <2>2. KeepsName BY <2>1, SMTT(30) DEF KeepsName, server
  <2> QED BY <1>e, <1>n, <2>1, <2>2, NamesKept DEF Named, server
<1>2. CASE CacheSync
  BY <1>2, <1>e, NamesKept, SMTT(30) DEF CacheSync, local, KeepsName, OneName
<1>3. CASE UserEdits \/ UserDeletes \/ UserClearsPending
  <2>1. UNCHANGED <<cache, pc, mg>> /\ api.exists
    BY <1>3 DEF UserEdits, UserDeletes, UserClearsPending, UserWrites
  <2>2. KeepsName
    <3>1. CASE UserDeletes /\ ~api.finalizer
      BY <3>1 DEF UserDeletes, UserWrites, NoObject, KeepsName
    <3>2. CASE UserEdits \/ (UserDeletes /\ api.finalizer) \/ UserClearsPending
      BY <1>o, <2>1, <3>2, SMTT(30) DEF UserEdits, UserDeletes, UserClearsPending, UserWrites, Object, KeepsName
    <3> QED BY <1>3, <3>1, <3>2
  <2> QED BY <1>e, <2>1, <2>2, NamesKept DEF OneName
<1>4. CASE Poll \/ OutsiderActs \/ DeletionEnds \/ Tick
  <2>1. UNCHANGED <<server, local>> BY <1>4 DEF Poll, OutsiderActs, DeletionEnds, Tick
  <2> QED BY <1>e, <2>1, NamesKept DEF KeepsName, server, local, OneName
<1> QED BY <1>1, <1>2, <1>3, <1>4 DEF Environment

=============================================================================
