-------------------------- MODULE ManagedLeakProofs -------------------------
(***************************************************************************)
(* No external resource the reconciler created is lost unnoticed           *)
(* (LeakFlagged), and the finalizer is not removed while it is there       *)
(* (FinalizerRemoval).                                                     *)
(***************************************************************************)
EXTENDS ManagedCopyProofs

(* LeakFlagged, when Create names the resource it creates.                 *)

\* The two objects have the same annotations.
SameRecord(o, p) == /\ o.name = p.name /\ o.pending = p.pending
                    /\ o.succeeded = p.succeeded /\ o.failed = p.failed

\* No result of a creation is later than t.
Past(o, t) == o.succeeded <= t /\ o.failed <= t

\* The external resource n of e, if the reconciler made it, was there by second t.
MadeBy(n, t, e) ==
  /\ e[n].state # "none"
  /\ e[n].state \in {"live", "deleting"} /\ e[n].ours => e[n].created <= t /\ t # 0

\* The calls with a local copy that is the server's object but for what Observe
\* filled in, if the copy is current.
Copying == Before \cup Deleting \cup {"lateInitialize"}

\* The annotations tell what was created, and when.
Times == now >= 1 /\ Past(api, now) /\ Past(cache, now) /\ Past(mg, now)

CopyAgrees == pc \in Copying /\ mgCurrent => SameDecisions(mg, api) /\ mg.name = api.name

Annotated ==
  /\ api.exists => /\ cache.name # NoName => api.name # NoName
                   /\ cache.succeeded # 0 => api.succeeded # 0
                   /\ api.name # NoName => MadeBy(api.name, api.succeeded, ext)
  /\ pc \in {"create", "annotateFailed"} => mg.name = api.name /\ mg.succeeded = api.succeeded
  /\ pc = "annotateSucceeded" => /\ mg.name # NoName /\ mg.succeeded # 0
                                 /\ MadeBy(mg.name, mg.succeeded, ext)

RecordInv == LatestInv /\ CopyInv /\ Times /\ CopyAgrees /\ Annotated

Ours(e, n) == e[n].state = "live" /\ e[n].ours

\* What is known of the live resources the reconciler created, call by call, unless
\* a creation was announced in the second of an earlier result.
Flagged ==
  /\ \A n \in Names : Ours(ext, n) /\ api.exists /\ api.name # n =>
       \/ pc = "annotateSucceeded" /\ mg.name = n
       \/ ExternalCreateIncomplete(api)
  /\ /\ pc \in {"publish", "addFinalizer", "setPending"}
     /\ ~obs.exists /\ mgCurrent /\ api.exists /\ mg.name # NoName
     => ~Ours(ext, mg.name)
  /\ pc = "setPending" => ~obs.exists
  /\ pc \in {"create", "annotateFailed"} => \A n \in Names : ~Ours(ext, n)
  /\ pc = "create" => ExternalCreateIncomplete(api)
  /\ pc = "annotateSucceeded" => /\ \A n \in Names : Ours(ext, n) => n = mg.name
                                 /\ ExternalCreateIncomplete(api) \/ api.name = mg.name

\* Create names what it creates, and Observe misses nothing that is recorded once the
\* grace period is over; and no reference is resolved.
CreateIsTracked == /\ ~NamedByInitializer /\ ~HasReferences
                   /\ ConsistencyDelay < creationGracePeriod

-----------------------------------------------------------------------------

\* The same annotations say the same about the creation.
LEMMA SameIncomplete ==
  ASSUME NEW o, NEW p, SameRecord(o, p)
  PROVE  ExternalCreateIncomplete(o) <=> ExternalCreateIncomplete(p)
BY DEF SameRecord, ExternalCreateIncomplete

\* A step leaves the annotations of the server's object alone, or the object goes.
KeepsRecord == \/ api' = NoObject
               \/ SameRecord(api', api) /\ (api'.exists => api.exists)

\* A write of an object with the server's annotations does.
LEMMA StoreKeepsRecord ==
  ASSUME NEW o, UNCHANGED server \/ (Accepts /\ Store(o)),
         Accepts => SameRecord(o, api) \/ (o.deleted /\ ~o.finalizer)
  PROVE  KeepsRecord
BY DEF KeepsRecord, SameRecord, Accepts, Store, server

\* Apart from the announcement and the result of a creation, Reconcile writes no
\* annotation.
LEMMA ReconcileRecord ==
  ASSUME CreateIsTracked, RecordInv, Reconcile
  PROVE  /\ cache' = cache
         /\ \/ KeepsRecord
            \/ pc = "setPending" /\ Accepts /\ api' = [mg EXCEPT !.pending = now]
            \/ pc \in {"annotateSucceeded", "annotateFailed"} /\ Accepts /\ api' = mg
<1>t. TypeOK /\ LocalFinalizer /\ CopyInv /\ CopyAgrees
  BY DEF RecordInv, LatestInv, FinalizerInv
<1>o. mg \in Object /\ api \in Object /\ now \in Time
  BY <1>t DEF TypeOK, LocalOK, ServerOK, WorldOK
<1>c. cache' = cache BY <1>t, ReconcileStores DEF server, Store
<1>0. CASE UNCHANGED server BY <1>0, <1>c DEF KeepsRecord, SameRecord, server
<1>1. CASE Initialize \/ ResolveReferences
  BY <1>0, <1>1, Zenon DEF Initialize, ResolveReferences, CreateIsTracked
<1>2. CASE RemoveFinalizer
  <2> DEFINE o == [mg EXCEPT !.finalizer = FALSE]
  <2>1. o.deleted /\ ~o.finalizer
    BY <1>2, <1>o, <1>t DEF RemoveFinalizer, CopyInv, Deleting, Object
  <2>2. UNCHANGED server \/ (Accepts /\ Store(o))
    BY <1>2, UpdateStores, Zenon DEF RemoveFinalizer
  <2> HIDE DEF o
  <2> QED BY <1>c, <2>1, <2>2, StoreKeepsRecord
<1>3. CASE AddFinalizer
  <2> DEFINE o == [mg EXCEPT !.finalizer = TRUE]
  <2>1. SameRecord(o, mg) BY <1>o DEF Object, SameRecord
  <2>2. UNCHANGED server \/ (Accepts /\ Store(o))
    BY <1>3, UpdateStores, UpdateErrsStores, Zenon DEF AddFinalizer
  <2> HIDE DEF o
  <2>3. Accepts => SameRecord(mg, api)
    BY <1>3, <1>t DEF AddFinalizer, Accepts, CopyAgrees, Copying, Before, SameDecisions, SameRecord
  <2>4. Accepts => SameRecord(o, api) BY <2>1, <2>3 DEF SameRecord
  <2> QED BY <1>c, <2>2, <2>4, StoreKeepsRecord
<1>4. CASE LateInitialize
  <2>1. UNCHANGED server \/ (Accepts /\ Store(mg))
    BY <1>4, UpdateStores, UpdateErrsStores, Zenon DEF LateInitialize
  <2>2. Accepts => SameRecord(mg, api)
    BY <1>4, <1>t DEF LateInitialize, Accepts, CopyAgrees, Copying, SameDecisions, SameRecord
  <2> QED BY <1>c, <2>1, <2>2, StoreKeepsRecord
<1>5. CASE UpdateStatus
  <2> DEFINE o == [api EXCEPT !.synced = outcome.synced]
  <2>1. SameRecord(o, api) BY <1>o DEF Object, SameRecord
  <2>2. UNCHANGED server \/ (Accepts /\ Store(o))
    BY <1>5, UpdateStores DEF UpdateStatus
  <2> HIDE DEF o
  <2> QED BY <1>c, <2>1, <2>2, StoreKeepsRecord
<1>6. CASE SetExternalCreatePending
  <2> DEFINE o == [mg EXCEPT !.pending = now]
  <2>1. UNCHANGED server \/ (Accepts /\ Store(o))
    BY <1>6, UpdateStores, UpdateErrsStores, Zenon DEF SetExternalCreatePending
  <2>2. o.finalizer /\ pc = "setPending"
    BY <1>6, <1>o, <1>t DEF SetExternalCreatePending, LocalFinalizer, Object
  <2>3. CASE Accepts /\ Store(o)
    <3>1. api' = o BY <2>2, <2>3 DEF Store
    <3> QED BY <1>c, <2>2, <2>3, <3>1
  <2> QED BY <1>0, <2>1, <2>3
<1>7. CASE AnnotateSucceeded \/ AnnotateFailed
  <2>1. UNCHANGED server \/ (Accepts /\ Store(mg))
    BY <1>7, UpdateStores, Zenon DEF AnnotateSucceeded, AnnotateFailed
  <2>2. Accepts => mg.finalizer
    BY <1>7, <1>t, Zenon DEF AnnotateSucceeded, AnnotateFailed, LocalFinalizer, Creating, Accepts
  <2>3. CASE Accepts /\ Store(mg)
    <3>1. api' = mg BY <2>2, <2>3 DEF Store
    <3> QED BY <1>7, <1>c, <2>3, <3>1, Zenon DEF AnnotateSucceeded, AnnotateFailed
  <2> QED BY <1>0, <2>1, <2>3
<1>8. CASE GetNotFound \/ StopPaused \/ StopInvalid \/ Start
  BY <1>0, <1>8 DEF GetNotFound, StopPaused, StopInvalid, Start, Dequeue
<1>9. CASE \/ Connect \/ ObserveMissing \/ ObserveExisting \/ ObserveFails \/ Delete
           \/ UnpublishConnection \/ PublishConnection \/ Create \/ CreateFails \/ PublishCreated
           \/ Update \/ UpdateExternalFails \/ PublishUpdated
  BY <1>0, <1>9, Zenon DEF Connect, ObserveMissing, ObserveExisting, ObserveFails, Delete, UnpublishConnection,
     PublishConnection, Create, CreateFails, PublishCreated, Update, UpdateExternalFails,
     PublishUpdated, CallFails
<1> QED BY <1>1, <1>2, <1>3, <1>4, <1>5, <1>6, <1>7, <1>8, <1>9 DEF Reconcile

-----------------------------------------------------------------------------

\* No copy of the object tells of a later second than the clock's.
LEMMA ReconcileTimes ==
  ASSUME CreateIsTracked, RecordInv, Reconcile
  PROVE  Times'
<1>t. TypeOK /\ Times BY DEF RecordInv, LatestInv, FinalizerInv
<1>o. mg \in Object /\ cache \in Object /\ api \in Object /\ now \in Nat
  BY <1>t DEF TypeOK, LocalOK, ServerOK, WorldOK, Time
<1>p. now >= 1 /\ Past(api, now) /\ Past(cache, now) /\ Past(mg, now) /\ Past(NoObject, now)
  BY <1>o, <1>t DEF Times, Past, NoObject
<1>1. now' = now /\ (mg' = NoObject \/ mg' = mg \/ mg' = cache \/ Past(mg', now))
  <2>1. CASE GetNotFound \/ StopPaused \/ StopInvalid \/ Start
    BY <2>1 DEF GetNotFound, StopPaused, StopInvalid, Start, Dequeue, Begin, local, world
  <2>2. CASE Initialize \/ ResolveReferences
    BY <2>2, Forgets, Zenon DEF Initialize, AfterInitialize, ResolveReferences, Goto, CreateIsTracked, world
  <2>3. CASE \/ Connect \/ ObserveMissing \/ ObserveFails \/ UnpublishConnection \/ PublishConnection
    BY <2>3, Forgets, Zenon DEF Connect, ObserveMissing, ObserveFails, UnpublishConnection, PublishConnection, Goto,
       world
  <2>4. CASE ObserveExisting
    <3>1. mg'.succeeded = mg.succeeded /\ mg'.failed = mg.failed
      BY <2>4, <1>o DEF ObserveExisting, Object
    <3> QED BY <2>4, <1>p, <3>1 DEF ObserveExisting, Past, world
  <2>5. CASE AddFinalizer
    <3> DEFINE o == [mg EXCEPT !.finalizer = TRUE]
    <3>1. o.succeeded = mg.succeeded /\ o.failed = mg.failed BY <1>o DEF Object
    <3>2. mg' = NoObject \/ mg' = mg \/ mg' = o
      BY <2>5, Forgets, Zenon DEF AddFinalizer, AfterFinalizer, AfterLateInitialize, Goto
    <3>3. now' = now BY <2>5 DEF AddFinalizer, world
    <3> HIDE DEF o
    <3> QED BY <1>p, <3>1, <3>2, <3>3 DEF Past
  <2>6. CASE SetExternalCreatePending
    <3> DEFINE o == [mg EXCEPT !.pending = now]
    <3>1. o.succeeded = mg.succeeded /\ o.failed = mg.failed BY <1>o DEF Object
    <3>2. mg' = NoObject \/ mg' = o
      BY <2>6, Forgets DEF SetExternalCreatePending, Goto
    <3>3. now' = now BY <2>6 DEF SetExternalCreatePending
    <3> HIDE DEF o
    <3> QED BY <1>p, <3>1, <3>2, <3>3 DEF Past
  <2>7. CASE Create
    <3>1. PICK n \in CreatedNames : mg' = [mg EXCEPT !.name = n, !.succeeded = now]
      BY <2>7, Zenon DEF Create, Goto
    <3>2. mg'.succeeded = now /\ mg'.failed = mg.failed BY <1>o, <3>1 DEF Object
    <3>3. now' = now BY <2>7 DEF Create
    <3> QED BY <1>p, <1>o, <3>2, <3>3 DEF Past
  <2>8. CASE CreateFails
    <3>1. mg' = [mg EXCEPT !.failed = now] BY <2>8 DEF CreateFails, Goto
    <3>2. mg'.failed = now /\ mg'.succeeded = mg.succeeded BY <1>o, <3>1 DEF Object
    <3>3. now' = now BY <2>8 DEF CreateFails
    <3> QED BY <1>p, <1>o, <3>2, <3>3 DEF Past
  <2>9. CASE AnnotateSucceeded \/ AnnotateFailed
    <3> DEFINE o == AddAnnotations(cache, mg)
    <3>1. o.succeeded \in {cache.succeeded, mg.succeeded} /\ o.failed \in {cache.failed, mg.failed}
      BY <1>o DEF AddAnnotations, Object
    <3>2. mg' = NoObject \/ mg' = mg \/ mg' = o
      BY <2>9, Forgets, Zenon DEF AnnotateSucceeded, AnnotateFailed, Retry, Goto
    <3>3. now' = now BY <2>9, Zenon DEF AnnotateSucceeded, AnnotateFailed, world
    <3> HIDE DEF o
    <3> QED BY <1>p, <3>1, <3>2, <3>3 DEF Past
  <2>10. CASE \/ Delete \/ RemoveFinalizer \/ PublishCreated \/ LateInitialize
    BY <2>10, Forgets, Zenon DEF Delete, RemoveFinalizer, PublishCreated, LateInitialize, AfterLateInitialize, Goto,
       world
  <2>11. CASE \/ Update \/ UpdateExternalFails \/ PublishUpdated \/ UpdateStatus
    BY <2>11, Forgets DEF Update, UpdateExternalFails, PublishUpdated, UpdateStatus, Goto, world
  <2> QED BY <2>1, <2>2, <2>3, <2>4, <2>5, <2>6, <2>7, <2>8, <2>9, <2>10, <2>11 DEF Reconcile
<1>2. Past(mg', now) BY <1>1, <1>p
<1>3. Past(api', now)
  <2>1. CASE KeepsRecord BY <1>p, <2>1 DEF KeepsRecord, SameRecord, Past
  <2>2. CASE api' = [mg EXCEPT !.pending = now]
    <3>1. api'.succeeded = mg.succeeded /\ api'.failed = mg.failed BY <1>o, <2>2 DEF Object
    <3> QED BY <1>p, <3>1 DEF Past
  <2> QED BY <1>p, <2>1, <2>2, ReconcileRecord
<1>4. Past(cache', now) BY <1>p, ReconcileRecord
<1> QED BY <1>1, <1>2, <1>3, <1>4, <1>p DEF Times, Past

\* A current copy stays like the server's object until the creation is announced.
LEMMA ReconcileAgrees ==
  ASSUME CreateIsTracked, RecordInv, Reconcile
  PROVE  CopyAgrees'
<1>t. TypeOK /\ Coherent /\ CopyAgrees BY DEF RecordInv, LatestInv, FinalizerInv
<1>o. mg \in Object /\ cache \in Object /\ api \in Object
  BY <1>t DEF TypeOK, LocalOK, ServerOK
<1>0. CASE pc' \notin Copying BY <1>0 DEF CopyAgrees
<1>1. CASE pc \in Copying /\ mg' = mg /\ mgCurrent' = mgCurrent /\ api' = api
  BY <1>1, <1>t DEF CopyAgrees, SameDecisions
<1>2. CASE pc' \in {"idle", "status", "create", "annotateSucceeded", "annotateFailed", "publishCreated",
                    "update", "publishUpdated"}
  BY <1>0, <1>2 DEF Copying, Before, Deleting
<1>3. CASE GetNotFound \/ StopPaused \/ StopInvalid
  BY <1>2, <1>3 DEF GetNotFound, StopPaused, StopInvalid, Dequeue, Begin, local
<1>4. CASE Start
  <2>1. mg' = cache /\ mgCurrent' = cacheCurrent /\ api' = api
    BY <1>4 DEF Start, Dequeue, Begin, server
  <2> QED BY <1>t, <2>1 DEF Coherent, CopyAgrees, SameDecisions
<1>5. CASE Initialize \/ ResolveReferences
  BY <1>1, <1>2, <1>5, Forgets, Zenon
  DEF Initialize, AfterInitialize, ResolveReferences, Goto, CreateIsTracked, Copying, Before, server
<1>6. CASE \/ Connect \/ ObserveMissing \/ ObserveFails \/ UnpublishConnection \/ PublishConnection
  BY <1>1, <1>2, <1>6, Forgets, Zenon
  DEF Connect, ObserveMissing, ObserveFails, UnpublishConnection, PublishConnection, Goto, Copying, Before,
      Deleting, server
<1>7. CASE ObserveExisting
  <2>1. SameDecisions(mg', mg) /\ mg'.name = mg.name BY <1>7, <1>o DEF ObserveExisting, Object, SameDecisions
  <2>2. pc \in Copying /\ mgCurrent' = mgCurrent /\ api' = api
    BY <1>7 DEF ObserveExisting, Copying, Before, server
  <2> QED BY <1>t, <2>1, <2>2 DEF CopyAgrees, SameDecisions
<1>8. CASE AddFinalizer
  <2> DEFINE o == [mg EXCEPT !.finalizer = TRUE]
  <2>1. o.finalizer BY <1>o DEF Object
  <2>2. CASE AfterFinalizer(mg, mgCurrent) /\ UNCHANGED server
    BY <1>1, <1>2, <1>8, <2>2, Forgets
    DEF AddFinalizer, AfterFinalizer, AfterLateInitialize, Goto, Copying, Before, server
  <2>3. CASE UpdateOK(o) /\ AfterFinalizer(o, TRUE)
    <3>1. mg' = o \/ pc' = "status"
      BY <2>3, Forgets, Zenon DEF AfterFinalizer, AfterLateInitialize, Goto
    <3>2. api' = o BY <2>1, <2>3 DEF UpdateOK, Store
    <3> HIDE DEF o
    <3> QED BY <1>2, <3>1, <3>2 DEF CopyAgrees, SameDecisions
  <2> QED BY <1>2, <1>8, <2>2, <2>3, Forgets, Zenon DEF AddFinalizer
<1>9. CASE \/ Delete \/ RemoveFinalizer \/ SetExternalCreatePending \/ Create \/ CreateFails
           \/ PublishCreated \/ LateInitialize \/ Update
  BY <1>2, <1>9, Forgets, Zenon
  DEF Delete, RemoveFinalizer, SetExternalCreatePending, Create, CreateFails, PublishCreated,
      LateInitialize, AfterLateInitialize, Update, Goto
<1>10. CASE AnnotateSucceeded \/ AnnotateFailed \/ UpdateExternalFails \/ PublishUpdated \/ UpdateStatus
  BY <1>2, <1>10, Forgets, Zenon
  DEF AnnotateSucceeded, AnnotateFailed, Retry, UpdateExternalFails, PublishUpdated, UpdateStatus, Goto
<1> QED BY <1>3, <1>4, <1>5, <1>6, <1>7, <1>8, <1>9, <1>10 DEF Reconcile

-----------------------------------------------------------------------------

\* What is known of an external resource stays true as it fades.
LEMMA MadeFades ==
  ASSUME NEW n \in Names, NEW t, NEW e, NEW f, MadeBy(n, t, e), Fades(e, f),
         e \in [Names -> Resource], f \in [Names -> Resource]
  PROVE  MadeBy(n, t, f)
BY DEF MadeBy, Fades, Resource

\* What is recorded in the server, in a state a, c, e and in the next one.
ServerTells(a, c, e) ==
  a.exists => /\ c.name # NoName => a.name # NoName
              /\ c.succeeded # 0 => a.succeeded # 0
              /\ a.name # NoName => MadeBy(a.name, a.succeeded, e)

\* A step that keeps the annotations, while the resources fade, keeps the record.
LEMMA KeptTells ==
  ASSUME NEW c, ServerTells(api, c, ext), KeepsRecord, Fades(ext, ext'), api \in Object,
         ext \in [Names -> Resource], ext' \in [Names -> Resource]
  PROVE  ServerTells(api', c, ext')
<1>1. CASE api' = NoObject BY <1>1 DEF ServerTells, NoObject
<1>2. CASE SameRecord(api', api) /\ api'.exists /\ api.exists
  <2>1. api'.name = api.name /\ api'.succeeded = api.succeeded BY <1>2 DEF SameRecord
  <2>2. api.name \in Names \cup {NoName} BY SMTT(30) DEF Object
  <2>3. CASE api.name = NoName BY <1>2, <2>1, <2>3 DEF ServerTells
  <2>4. CASE api.name \in Names
    <3>1. api.name # NoName BY <2>4, NameAssumption
    <3>2. MadeBy(api.name, api.succeeded, ext) BY <1>2, <3>1 DEF ServerTells
    <3>3. MadeBy(api.name, api.succeeded, ext') BY <2>4, <3>2, MadeFades
    <3> QED BY <1>2, <2>1, <3>3 DEF ServerTells
  <2> QED BY <2>2, <2>3, <2>4
<1>3. CASE ~api'.exists BY <1>3 DEF ServerTells
<1> QED BY <1>1, <1>2, <1>3 DEF KeepsRecord

\* A resource that is made was not there, and the record of others stays.
LEMMA CreatedTells ==
  ASSUME CreateIsTracked, RecordInv, NEW n \in CreatedNames, ext' = Created(n), UNCHANGED server
  PROVE  /\ ServerTells(api', cache', ext')
         /\ n \in Names /\ now # 0 /\ MadeBy(n, now, ext')
         /\ \A k \in Names : k # n => ext'[k] = ext[k]
         /\ ext[n].state = "none" /\ ext'[n].state = "live"
<1>t. TypeOK /\ Times /\ Annotated BY DEF RecordInv, LatestInv, FinalizerInv
<1>o. api \in Object /\ ext \in [Names -> Resource] /\ now \in Nat
  BY <1>t DEF TypeOK, ServerOK, WorldOK, Time
<1>2. n \in Names /\ ext[n].state = "none"
  BY DEF CreatedNames, CreateIsTracked
<1>4. now # 0 BY <1>t, <1>o DEF Times
<1> DEFINE r == [state |-> "live", spec |-> mg.spec, ours |-> TRUE, created |-> now]
<1>5. ext' = [ext EXCEPT ![n] = r]
  BY <1>2 DEF Created, Exists
<1>6. ext'[n] = r /\ \A k \in Names : k # n => ext'[k] = ext[k]
  BY <1>5, <1>2, <1>o
<1>7. ext'[n].state = "live" /\ ext'[n].created = now BY <1>6
<1> HIDE DEF r
<1>8. MadeBy(n, now, ext')
  BY <1>4, <1>7, <1>o DEF MadeBy
<1>9. ServerTells(api', cache', ext')
  <2>1. api' = api /\ cache' = cache BY DEF server
  <2>2. ServerTells(api, cache, ext) BY <1>t DEF Annotated, ServerTells
  <2>3. api.exists /\ api.name # NoName => MadeBy(api.name, api.succeeded, ext')
    <3> SUFFICES ASSUME api.exists, api.name # NoName PROVE MadeBy(api.name, api.succeeded, ext')
      OBVIOUS
    <3>1. MadeBy(api.name, api.succeeded, ext) BY <2>2 DEF ServerTells
    <3>2. api.name \in Names BY <1>o DEF Object
    <3>3. api.name # n BY <1>2, <3>1 DEF MadeBy
    <3>4. ext'[api.name] = ext[api.name] BY <1>6, <3>2, <3>3
    <3> QED BY <3>1, <3>4 DEF MadeBy
  <2> QED BY <2>1, <2>2, <2>3 DEF ServerTells
<1> QED BY <1>2, <1>4, <1>6, <1>7, <1>8, <1>9

\* Create makes a resource, and the local copy tells which and when.
LEMMA CreateTells ==
  ASSUME CreateIsTracked, RecordInv, Create
  PROVE  /\ ServerTells(api', cache', ext')
         /\ mg'.name \in Names /\ mg'.succeeded # 0
         /\ MadeBy(mg'.name, mg'.succeeded, ext')
         /\ \A n \in Names : n # mg'.name => ext'[n] = ext[n]
         /\ ext[mg'.name].state = "none" /\ ext'[mg'.name].state = "live"
<1>o. mg \in Object BY DEF RecordInv, LatestInv, FinalizerInv, TypeOK, LocalOK
<1>1. PICK n \in CreatedNames : ext' = Created(n) /\ mg' = [mg EXCEPT !.name = n, !.succeeded = now]
  BY Zenon DEF Create, Goto
<1>2. UNCHANGED server BY DEF Create
<1>3. mg'.name = n /\ mg'.succeeded = now BY <1>1, <1>o DEF Object
<1> QED BY <1>1, <1>2, <1>3, CreatedTells

\* A Create that fails leaves the record as it was, even if it made a resource.
LEMMA FailureTells ==
  ASSUME CreateIsTracked, RecordInv, CreateFails
  PROVE  ServerTells(api', cache', ext')
<1>1. UNCHANGED server BY DEF CreateFails
<1>2. UNCHANGED ext \/ \E n \in CreatedNames : ext' = Created(n) BY DEF CreateFails
<1>3. CASE UNCHANGED ext
  <2>1. ServerTells(api, cache, ext) BY DEF RecordInv, Annotated, ServerTells
  <2> QED BY <1>1, <1>3, <2>1 DEF server
<1> QED BY <1>1, <1>2, <1>3, CreatedTells

\* A retry puts the same annotations back, and takes none of its own from the cache.
LEMMA RetryRecord ==
  ASSUME RecordInv, pc \in {"annotateSucceeded", "annotateFailed"}
  PROVE  /\ AddAnnotations(cache, mg).name = mg.name
         /\ AddAnnotations(cache, mg).succeeded = mg.succeeded
<1>t. TypeOK /\ Annotated /\ CreateUnderFinalizer BY DEF RecordInv, LatestInv, FinalizerInv
<1>o. mg \in Object /\ cache \in Object BY <1>t DEF TypeOK, LocalOK, ServerOK
<1>1. api.exists BY <1>t DEF CreateUnderFinalizer, Creating
<1>2. (mg.name = NoName => cache.name = NoName) /\ (mg.succeeded = 0 => cache.succeeded = 0)
  BY <1>1, <1>t DEF Annotated
<1> QED BY <1>2, <1>o DEF AddAnnotations, Object

\* Recording the result of a creation records a resource that was made by then.
LEMMA AnnotateTells ==
  ASSUME RecordInv, AnnotateSucceeded \/ AnnotateFailed, ext' \in [Names -> Resource]
  PROVE  Annotated'
<1>t. TypeOK /\ Annotated /\ CreateUnderFinalizer /\ LocalFinalizer
  BY DEF RecordInv, LatestInv, FinalizerInv
<1>e. UNCHANGED ext BY Zenon DEF AnnotateSucceeded, AnnotateFailed, world
<1>a. api.exists
  BY <1>t, Zenon DEF CreateUnderFinalizer, Creating, AnnotateSucceeded, AnnotateFailed
<1>1. UNCHANGED server \/ (Accepts /\ Store(mg))
  BY UpdateStores, Zenon DEF AnnotateSucceeded, AnnotateFailed
<1>2. Accepts => mg.finalizer
  BY <1>t, Zenon DEF AnnotateSucceeded, AnnotateFailed, LocalFinalizer, Creating, Accepts
<1>3. (api' = api \/ api' = mg) /\ cache' = cache BY <1>1, <1>2 DEF Store, server
<1>4. pc \in {"annotateSucceeded", "annotateFailed"} BY Zenon DEF AnnotateSucceeded, AnnotateFailed
<1>5. \/ pc' \in {"idle", "status", "publishCreated"}
      \/ pc' = pc /\ (mg' = mg \/ mg' = AddAnnotations(cache, mg))
  BY Forgets, ZenonT(30) DEF AnnotateSucceeded, AnnotateFailed, Retry, Goto
<1>6. pc' = pc => mg'.name = mg.name /\ mg'.succeeded = mg.succeeded
  BY <1>4, <1>5, RetryRecord
<1>7. ServerTells(api, cache, ext) BY <1>t DEF Annotated, ServerTells
<1>8. CASE pc = "annotateFailed"
  <2>1. mg.name = api.name /\ mg.succeeded = api.succeeded BY <1>8, <1>t DEF Annotated
  <2>2. api'.name = api.name /\ api'.succeeded = api.succeeded BY <1>3, <2>1
  <2>3. ServerTells(api', cache', ext') BY <1>3, <1>7, <1>a, <1>e, <2>2, SMTT(30) DEF ServerTells
  <2> QED BY <1>5, <1>6, <1>8, <2>1, <2>2, <2>3 DEF Annotated, ServerTells
<1>9. CASE pc = "annotateSucceeded"
  <2>1. mg.name # NoName /\ mg.succeeded # 0 /\ MadeBy(mg.name, mg.succeeded, ext)
    BY <1>9, <1>t, Zenon DEF Annotated
  <2>2. ServerTells(mg, cache, ext) BY <2>1 DEF ServerTells
  <2>3. ServerTells(api', cache', ext') BY <1>3, <1>7, <1>e, <2>2
  <2>4. MadeBy(mg.name, mg.succeeded, ext') BY <1>e, <2>1
  <2> QED BY <1>5, <1>6, <1>9, <2>1, <2>3, <2>4 DEF Annotated, ServerTells
<1> QED BY <1>4, <1>8, <1>9

\* Each call of Reconcile keeps the record true.
LEMMA ReconcileAnnotated ==
  ASSUME CreateIsTracked, RecordInv, Reconcile
  PROVE  Annotated'
<1>t. TypeOK /\ LatestInv /\ CopyAgrees /\ Annotated BY DEF RecordInv, LatestInv, FinalizerInv
<1>o. mg \in Object /\ api \in Object /\ ext \in [Names -> Resource] /\ ext' \in [Names -> Resource]
  BY <1>t, ReconcileType DEF TypeOK, LocalOK, ServerOK, WorldOK
<1>s. ServerTells(api, cache, ext) /\ cache' = cache
  BY <1>t, ReconcileRecord DEF Annotated, ServerTells
<1>1. CASE Create
  <2>1. pc' = "annotateSucceeded" BY <1>1 DEF Create, Goto
  <2> QED BY <1>1, <2>1, CreateTells, NameAssumption DEF Annotated, ServerTells
<1>2. CASE CreateFails
  <2>1. UNCHANGED api /\ pc' = "annotateFailed" /\ mg' = [mg EXCEPT !.failed = now] /\ pc = "create"
    BY <1>2 DEF CreateFails, Goto, server
  <2>2. mg'.name = mg.name /\ mg'.succeeded = mg.succeeded BY <1>o, <2>1 DEF Object
  <2>3. mg'.name = api'.name /\ mg'.succeeded = api'.succeeded BY <1>t, <2>1, <2>2 DEF Annotated
  <2> QED BY <1>2, <2>1, <2>3, FailureTells DEF Annotated, ServerTells
<1>3. CASE SetExternalCreatePending
  <2> DEFINE o == [mg EXCEPT !.pending = now]
  <2>1. o.name = mg.name /\ o.succeeded = mg.succeeded BY <1>o DEF Object
  <2>2. Accepts => mg.name = api.name /\ mg.succeeded = api.succeeded
    BY <1>3, <1>t DEF SetExternalCreatePending, Accepts, CopyAgrees, Copying, Before, SameDecisions
  <2>3. KeepsRecord \/ (Accepts /\ api' = o)
    BY <1>3, ReconcileRecord DEF SetExternalCreatePending
  <2>4. \/ pc' \in {"idle", "status"}
        \/ pc' = "create" /\ mg' = o /\ Accepts /\ Store(o)
    BY <1>3, Forgets DEF SetExternalCreatePending, Goto, UpdateOK
  <2>5. o.finalizer BY <1>3, <1>o, <1>t DEF SetExternalCreatePending, LatestInv, FinalizerInv, LocalFinalizer, Object
  <2>6. UNCHANGED ext BY <1>3 DEF SetExternalCreatePending
  <2> HIDE DEF o
  <2>7. Store(o) => api' = o BY <2>5 DEF Store
  <2>8. ServerTells(api', cache', ext')
    <3>1. CASE KeepsRecord
      BY <1>o, <1>s, <2>6, <3>1, KeptTells, ChangeFades
    <3>2. CASE Accepts /\ api' = o
      BY <1>s, <2>1, <2>2, <2>6, <3>2 DEF ServerTells, Accepts
    <3> QED BY <2>3, <3>1, <3>2
  <2>9. pc' = "create" => mg'.name = api'.name /\ mg'.succeeded = api'.succeeded
    BY <2>4, <2>7
  <2> QED BY <2>4, <2>8, <2>9 DEF Annotated, ServerTells
<1>4. CASE AnnotateSucceeded \/ AnnotateFailed
  BY <1>4, <1>o, AnnotateTells
<1>5. CASE ~Create /\ ~CreateFails /\ ~SetExternalCreatePending /\ ~AnnotateSucceeded /\ ~AnnotateFailed
  <2>1. /\ pc \notin {"create", "setPending", "annotateSucceeded", "annotateFailed"}
        /\ pc' \notin {"create", "annotateSucceeded", "annotateFailed"}
    <3>1. CASE \/ GetNotFound \/ StopPaused \/ StopInvalid \/ Start \/ Initialize \/ ResolveReferences
               \/ Connect \/ ObserveMissing \/ ObserveExisting \/ ObserveFails
      BY <3>1, Forgets, Zenon DEF GetNotFound, StopPaused, StopInvalid, Start, Dequeue, Begin, local,
         Initialize, AfterInitialize, ResolveReferences, Connect, ObserveMissing, ObserveExisting,
         ObserveFails, Goto
    <3>2. CASE \/ Delete \/ UnpublishConnection \/ RemoveFinalizer \/ PublishConnection \/ AddFinalizer
               \/ PublishCreated \/ LateInitialize \/ Update \/ UpdateExternalFails \/ PublishUpdated
               \/ UpdateStatus
      BY <3>2, Forgets, Zenon DEF Delete, UnpublishConnection, RemoveFinalizer, PublishConnection, AddFinalizer,
         AfterFinalizer, AfterLateInitialize, PublishCreated, LateInitialize, Update,
         UpdateExternalFails, PublishUpdated, UpdateStatus, Goto
    <3> QED BY <1>5, <3>1, <3>2, SMTT(30) DEF Reconcile
  <2>2. Fades(ext, ext') BY <1>t, <2>1, ReconcileFades
  <2>3. KeepsRecord BY <2>1, ReconcileRecord
  <2>4. ServerTells(api', cache', ext') BY <1>o, <1>s, <2>2, <2>3, KeptTells
  <2> QED BY <2>1, <2>4 DEF Annotated, ServerTells
<1> QED BY <1>1, <1>2, <1>3, <1>4, <1>5

-----------------------------------------------------------------------------

\* Flagged, for the resources missing from the record, in any state.
MissingFlagged(p, m, a, e) ==
  \A n \in Names : Ours(e, n) /\ a.exists /\ a.name # n =>
    \/ p = "annotateSucceeded" /\ m.name = n
    \/ ExternalCreateIncomplete(a)

\* The calls between the observation and the record of a creation.
Watched == {"publish", "addFinalizer", "setPending", "create", "annotateFailed", "annotateSucceeded"}

\* No resource goes missing while the annotations stay and the resources fade.
LEMMA QuietFlagged ==
  ASSUME Flagged, pc # "annotateSucceeded", KeepsRecord, Fades(ext, ext')
  PROVE  MissingFlagged(pc', mg', api', ext')
<1>1. MissingFlagged(pc, mg, api, ext) BY DEF Flagged, MissingFlagged
<1>2. CASE api' = NoObject BY <1>2, SMTT(30) DEF MissingFlagged, NoObject
<1>3. CASE SameRecord(api', api) /\ (api'.exists => api.exists)
  <2>1. ExternalCreateIncomplete(api) => ExternalCreateIncomplete(api') BY <1>3, SameIncomplete
  <2>2. \A n \in Names : Ours(ext', n) => Ours(ext, n) BY SMTT(30) DEF Ours, Fades
  <2> QED BY <1>1, <1>3, <2>1, <2>2 DEF MissingFlagged, SameRecord
<1> QED BY <1>2, <1>3 DEF KeepsRecord

\* Past the calls that create, that is all there is to keep.
LEMMA UnwatchedFlagged ==
  ASSUME pc' \notin Watched, MissingFlagged(pc', mg', api', ext')
  PROVE  Flagged'
BY DEF Flagged, Watched, MissingFlagged, Ours, ExternalCreateIncomplete

\* Before them, the observation counts too.
LEMMA ObservedFlagged ==
  ASSUME pc' \in {"publish", "addFinalizer", "setPending"}, MissingFlagged(pc', mg', api', ext'),
         ~obs'.exists /\ mgCurrent' /\ api'.exists /\ mg'.name # NoName => ~Ours(ext', mg'.name),
         pc' = "setPending" => ~obs'.exists
  PROVE  Flagged'
BY DEF Flagged, MissingFlagged, Ours, ExternalCreateIncomplete

\* A resource that Observe does not find after the grace period is not one the
\* reconciler created and recorded.
LEMMA MissingIsGone ==
  ASSUME CreateIsTracked, RecordInv, pc = "observe", FALSE \in Reports(mg.name),
         ~ExternalCreateSucceededDuring(mg, creationGracePeriod), mgCurrent, api.exists,
         mg.name # NoName, ext[mg.name].ours
  PROVE  ~Exists(mg.name)
<1>t. TypeOK /\ Annotated /\ CopyAgrees BY DEF RecordInv, LatestInv, FinalizerInv
<1>o. mg \in Object /\ api \in Object /\ ext \in [Names -> Resource] /\ now \in Nat
  BY <1>t DEF TypeOK, LocalOK, ServerOK, WorldOK, Time
<1>1. mg.name = api.name /\ mg.succeeded = api.succeeded
  BY <1>t DEF CopyAgrees, Copying, Before, SameDecisions
<1>2. MadeBy(mg.name, mg.succeeded, ext) BY <1>1, <1>t DEF Annotated
<1> SUFFICES ASSUME Exists(mg.name) PROVE FALSE
  OBVIOUS
<1>3. mg.name \in Names BY <1>o DEF Object
<1>4. ext[mg.name].created <= mg.succeeded /\ mg.succeeded # 0
  BY <1>2 DEF MadeBy, Exists
<1>5. now <= ext[mg.name].created + ConsistencyDelay
  BY Zenon DEF Reports
<1>6. ext[mg.name].created \in Nat /\ mg.succeeded \in Nat
  BY <1>3, <1>o DEF Resource, Object, Time
<1>7. now < mg.succeeded + creationGracePeriod
  BY <1>4, <1>5, <1>6, <1>o, BoundAssumption DEF CreateIsTracked
<1> QED BY <1>4, <1>7 DEF ExternalCreateSucceededDuring

\* Once the creation is announced nothing the reconciler created is live, and the
\* creation shows as incomplete, unless it is announced in the second of an earlier
\* result.
LEMMA PendingFlagged ==
  ASSUME CreateIsTracked, RecordInv, ~ambiguous => Flagged, ~ambiguous', SetExternalCreatePending
  PROVE  Flagged'
<1>t. /\ TypeOK /\ Times /\ LatestInv /\ CopyAgrees /\ LocalFinalizer /\ Decided
  BY DEF RecordInv, LatestInv, FinalizerInv
<1>o. mg \in Object /\ api \in Object /\ now \in Nat
  BY <1>t DEF TypeOK, LocalOK, ServerOK, WorldOK, Time
<1>f. Flagged /\ (pc' = "create" => now # Max(mg.succeeded, mg.failed))
  BY <1>t, Zenon DEF SetExternalCreatePending, TypeOK, WorldOK
<1>p. pc = "setPending" /\ Reconcile /\ UNCHANGED ext
  BY Zenon DEF SetExternalCreatePending, Reconcile
<1> DEFINE o == [mg EXCEPT !.pending = now]
<1>1. KeepsRecord \/ (Accepts /\ api' = o)
  BY <1>p, ReconcileRecord
<1>2. pc' \in {"idle", "status"} \/ (pc' = "create" /\ Accepts /\ Store(o))
  BY Forgets DEF SetExternalCreatePending, Goto, UpdateOK
<1>3. /\ o.name = mg.name /\ o.pending = now /\ o.succeeded = mg.succeeded /\ o.failed = mg.failed
      /\ o.finalizer
  BY <1>o, <1>t, <1>p DEF LocalFinalizer, Object
<1> HIDE DEF o
<1>4. ASSUME Accepts PROVE \A n \in Names : ~Ours(ext, n)
  <2>1. SameDecisions(mg, api) /\ mg.name = api.name /\ api.exists /\ mgCurrent
    BY <1>4, <1>p, <1>t DEF Accepts, CopyAgrees, Copying, Before
  <2>2. ~ExternalCreateIncomplete(mg)
    BY <1>p, <1>t, OptionAssumption DEF Decided, Before, CreateIsTracked
  <2>3. ~ExternalCreateIncomplete(api) BY <2>1, <2>2, SameIncomplete DEF SameRecord, SameDecisions
  <2>4. \A n \in Names : Ours(ext, n) => api.name = n
    BY <1>f, <1>p, <2>1, <2>3, Zenon DEF Flagged
  <2>5. mg.name # NoName => ~Ours(ext, mg.name)
    BY <1>f, <1>p, <2>1, Zenon DEF Flagged
  <2> QED BY <2>1, <2>4, <2>5, NameAssumption
<1>5. CASE pc' \in {"idle", "status"} /\ KeepsRecord
  <2>1. Fades(ext, ext') BY <1>p, <1>t, ReconcileFades
  <2>2. MissingFlagged(pc', mg', api', ext') BY <1>5, <1>f, <1>p, <2>1, QuietFlagged
  <2> QED BY <1>5, <2>2, UnwatchedFlagged DEF Watched
<1>6. CASE pc' \in {"idle", "status"} /\ Accepts
  <2>1. MissingFlagged(pc', mg', api', ext') BY <1>4, <1>6, <1>p, SMTT(30) DEF MissingFlagged, Ours
  <2> QED BY <1>6, <2>1, UnwatchedFlagged DEF Watched
<1>7. CASE pc' = "create" /\ Accepts /\ Store(o)
  <2>1. api' = o BY <1>3, <1>7 DEF Store
  <2>2. mg.succeeded \in Nat /\ mg.failed \in Nat BY <1>o DEF Object, Time
  <2>3. o.pending > Max(o.succeeded, o.failed)
    BY <1>3, <1>7, <1>f, <1>t, <1>o, <2>2 DEF Times, Past, Max
  <2>4. ExternalCreateIncomplete(api') BY <2>1, <2>3 DEF ExternalCreateIncomplete
  <2>5. \A n \in Names : ~Ours(ext', n) BY <1>4, <1>7, <1>p, SMTT(30)
  <2> QED BY <1>7, <2>4, <2>5 DEF Flagged, Ours, ExternalCreateIncomplete
<1> QED BY <1>1, <1>2, <1>5, <1>6, <1>7

\* A creation makes the one live resource that is not recorded yet.
LEMMA CreateFlagged ==
  ASSUME CreateIsTracked, RecordInv, Flagged, Create
  PROVE  Flagged'
<1>1. pc = "create" /\ pc' = "annotateSucceeded" /\ api' = api
  BY SMTT(30) DEF Create, Goto, server
<1>2. \A n \in Names : ~Ours(ext, n) BY <1>1 DEF Flagged
<1>3. ExternalCreateIncomplete(api') BY <1>1 DEF Flagged
<1>4. \A n \in Names : Ours(ext', n) => n = mg'.name
  BY <1>2, CreateTells, SMTT(30) DEF Ours
<1> QED BY <1>1, <1>3, <1>4 DEF Flagged, Ours, ExternalCreateIncomplete

\* One that fails makes none.
LEMMA CreateFailsFlagged ==
  ASSUME ~FailedCreateMayTakeEffect, Flagged, CreateFails
  PROVE  Flagged'
<1>1. pc = "create" /\ pc' = "annotateFailed" /\ UNCHANGED ext
  BY DEF CreateFails, Goto
<1>2. \A n \in Names : ~Ours(ext', n) BY <1>1 DEF Flagged
<1> QED BY <1>1, <1>2 DEF Flagged, Ours

\* Until the result is recorded the creation shows as incomplete; then the record
\* has the name.
LEMMA AnnotateFlagged ==
  ASSUME RecordInv, Flagged, AnnotateSucceeded \/ AnnotateFailed
  PROVE  Flagged'
<1>t. LocalFinalizer BY DEF RecordInv, LatestInv, FinalizerInv
<1>e. UNCHANGED ext BY Zenon DEF AnnotateSucceeded, AnnotateFailed, world
<1>1. UNCHANGED server \/ (Accepts /\ Store(mg))
  BY UpdateStores, Zenon DEF AnnotateSucceeded, AnnotateFailed
<1>2. Accepts => mg.finalizer
  BY <1>t, Zenon DEF AnnotateSucceeded, AnnotateFailed, LocalFinalizer, Creating, Accepts
<1>3. api' = api \/ api' = mg BY <1>1, <1>2 DEF Store, server
<1>4. pc \in {"annotateSucceeded", "annotateFailed"} BY Zenon DEF AnnotateSucceeded, AnnotateFailed
<1>5. \/ pc' \in {"idle", "status"} \/ (pc' = "publishCreated" /\ Accepts /\ Store(mg))
      \/ pc' = pc /\ (mg' = mg \/ mg' = AddAnnotations(cache, mg))
  BY Forgets, Zenon DEF AnnotateSucceeded, AnnotateFailed, Retry, Goto, UpdateOK
<1>6. pc' = pc => mg'.name = mg.name
  BY <1>4, <1>5, RetryRecord
<1>7. CASE pc = "annotateFailed"
  <2>1. \A n \in Names : ~Ours(ext', n) BY <1>7, <1>e, ZenonT(30) DEF Flagged
  <2>2. MissingFlagged(pc', mg', api', ext') BY <2>1 DEF MissingFlagged
  <2>3. CASE pc' \notin Watched BY <2>2, <2>3, UnwatchedFlagged, SMTT(30)
  <2>4. CASE pc' = "annotateFailed" BY <2>1, <2>4 DEF Flagged, Ours
  <2> QED BY <1>5, <1>7, <2>3, <2>4 DEF Watched
<1>8. CASE pc = "annotateSucceeded"
  <2>1. /\ \A n \in Names : Ours(ext', n) => n = mg.name
        /\ ExternalCreateIncomplete(api) \/ api.name = mg.name
    BY <1>8, <1>e DEF Flagged
  <2>2. ExternalCreateIncomplete(api') \/ api'.name = mg.name BY <1>3, <2>1
  <2>3. MissingFlagged(pc', mg', api', ext') BY <2>1, <2>2 DEF MissingFlagged
  <2>4. CASE pc' \notin Watched BY <2>3, <2>4, UnwatchedFlagged
  <2>5. CASE pc' = "annotateSucceeded"
    <3>1. mg'.name = mg.name BY <1>6, <1>8, <2>5
    <3> QED BY <2>1, <2>2, <2>3, <2>5, <3>1, Zenon DEF Flagged, MissingFlagged, Ours, ExternalCreateIncomplete
  <2> QED BY <1>5, <1>8, <2>4, <2>5 DEF Watched
<1> QED BY <1>4, <1>7, <1>8

\* Each call of Reconcile keeps every loss flagged.
LEMMA ReconcileFlagged ==
  ASSUME CreateIsTracked, ~FailedCreateMayTakeEffect, RecordInv, ~ambiguous => Flagged, ~ambiguous',
         Reconcile
  PROVE  Flagged'
<1>t. TypeOK /\ CopyAgrees BY DEF RecordInv, LatestInv, FinalizerInv
<1>o. mg \in Object /\ ext \in [Names -> Resource] BY <1>t DEF TypeOK, LocalOK, WorldOK
<1>1. CASE SetExternalCreatePending BY <1>1, PendingFlagged
<1>2. CASE ~SetExternalCreatePending
  <2>f. Flagged
    <3>1. CASE GetNotFound \/ StopPaused \/ StopInvalid \/ Start
      BY <3>1 DEF GetNotFound, StopPaused, StopInvalid, Start, Dequeue, world
    <3>2. CASE \/ Initialize \/ ResolveReferences \/ Connect \/ ObserveMissing \/ ObserveExisting
               \/ ObserveFails \/ Delete \/ UnpublishConnection \/ RemoveFinalizer \/ PublishConnection
      BY <3>2, Zenon DEF Initialize, ResolveReferences, Connect, ObserveMissing, ObserveExisting, ObserveFails,
         Delete, UnpublishConnection, RemoveFinalizer, PublishConnection, world
    <3>3. CASE \/ AddFinalizer \/ Create \/ CreateFails \/ AnnotateSucceeded \/ AnnotateFailed
               \/ PublishCreated \/ LateInitialize \/ Update \/ UpdateExternalFails \/ PublishUpdated
               \/ UpdateStatus
      BY <3>3, Zenon DEF AddFinalizer, Create, CreateFails, AnnotateSucceeded, AnnotateFailed, PublishCreated,
         LateInitialize, Update, UpdateExternalFails, PublishUpdated, UpdateStatus, world
    <3> QED BY <1>2, <3>1, <3>2, <3>3, SMTT(30) DEF Reconcile
  <2>1. CASE Create BY <2>1, <2>f, CreateFlagged
  <2>2. CASE CreateFails BY <2>2, <2>f, CreateFailsFlagged
  <2>3. CASE AnnotateSucceeded \/ AnnotateFailed BY <2>3, <2>f, AnnotateFlagged
  <2>q. ASSUME pc \notin {"setPending", "create", "annotateSucceeded", "annotateFailed"}
        PROVE  Fades(ext, ext') /\ MissingFlagged(pc', mg', api', ext')
    <3>1. Fades(ext, ext') BY <1>t, <2>q, ReconcileFades
    <3>2. KeepsRecord BY <2>q, ReconcileRecord
    <3> QED BY <2>f, <2>q, <3>1, <3>2, QuietFlagged
  <2>4. CASE ObserveMissing
    <3>1. MissingFlagged(pc', mg', api', ext') BY <2>4, <2>q DEF ObserveMissing
    <3>2. CASE pc' \notin Watched BY <3>1, <3>2, UnwatchedFlagged
    <3>3. CASE pc' = "publish"
      <4>1. /\ mg' = mg /\ mgCurrent' = mgCurrent /\ UNCHANGED <<api, ext>>
            /\ ~ExternalCreateSucceededDuring(mg, creationGracePeriod)
            /\ pc = "observe" /\ FALSE \in Reports(mg.name)
        BY <2>4, <3>3, Forgets, Zenon DEF ObserveMissing, Goto, server, world
      <4>2. mgCurrent' /\ api'.exists /\ mg'.name # NoName => ~Ours(ext', mg'.name)
        BY <4>1, MissingIsGone, Zenon DEF Ours, Exists
      <4> QED BY <3>1, <3>3, <4>2, ObservedFlagged
    <3> QED BY <2>4, <3>2, <3>3, Forgets DEF ObserveMissing, Goto, Watched
  <2>5. CASE ObserveExisting
    <3>1. MissingFlagged(pc', mg', api', ext') BY <2>5, <2>q DEF ObserveExisting
    <3>2. CASE pc' \notin Watched BY <3>1, <3>2, UnwatchedFlagged
    <3>3. CASE pc' = "publish"
      <4>1. obs'.exists BY <2>5 DEF ObserveExisting
      <4> QED BY <3>1, <3>3, <4>1, ObservedFlagged
    <3> QED BY <2>5, <3>2, <3>3 DEF ObserveExisting, Watched
  <2>6. CASE PublishConnection
    <3>1. MissingFlagged(pc', mg', api', ext') BY <2>6, <2>q DEF PublishConnection
    <3>2. CASE pc' \notin Watched BY <3>1, <3>2, UnwatchedFlagged
    <3>3. CASE pc' = "addFinalizer"
      <4>1. UNCHANGED <<mg, mgCurrent, obs, api, ext>> /\ pc = "publish"
        BY <2>6, <3>3, Forgets DEF PublishConnection, Goto, server, world
      <4>2. ~obs'.exists /\ mgCurrent' /\ api'.exists /\ mg'.name # NoName => ~Ours(ext', mg'.name)
        BY <2>f, <4>1, Zenon DEF Flagged
      <4> QED BY <3>1, <3>3, <4>2, ObservedFlagged
    <3> QED BY <2>6, <3>2, <3>3, Forgets DEF PublishConnection, Goto, Watched
  <2>7. CASE AddFinalizer
    <3> DEFINE o == [mg EXCEPT !.finalizer = TRUE]
    <3>1. MissingFlagged(pc', mg', api', ext') BY <2>7, <2>q DEF AddFinalizer
    <3>2. CASE pc' \notin Watched BY <3>1, <3>2, UnwatchedFlagged
    <3>3. CASE pc' = "setPending"
      <4>1. o.name = mg.name BY <1>o DEF Object
      <4>2. /\ mg' \in {mg, o} /\ (mgCurrent' => mgCurrent) /\ UNCHANGED <<obs, ext>> /\ ~obs.exists
            /\ pc = "addFinalizer" /\ (api'.exists => api.exists)
        <5>1. CASE AfterFinalizer(mg, mgCurrent) /\ UNCHANGED server
          BY <2>7, <3>3, <5>1, Forgets
          DEF AddFinalizer, AfterFinalizer, AfterLateInitialize, Goto, server, world
        <5>2. CASE UpdateOK(o) /\ AfterFinalizer(o, TRUE)
          BY <2>7, <3>3, <5>2, Forgets, Zenon
          DEF AddFinalizer, AfterFinalizer, AfterLateInitialize, Goto, UpdateOK, Accepts, world
        <5> QED BY <2>7, <3>3, <5>1, <5>2, Forgets, Zenon DEF AddFinalizer
      <4> HIDE DEF o
      <4>3. mg'.name = mg.name BY <4>1, <4>2
      <4>4. ~obs'.exists /\ mgCurrent' /\ api'.exists /\ mg'.name # NoName => ~Ours(ext', mg'.name)
        BY <2>f, <4>2, <4>3 DEF Flagged
      <4>5. ~obs'.exists BY <4>2
      <4> QED BY <3>1, <3>3, <4>4, <4>5, ObservedFlagged
    <3> QED BY <2>7, <3>2, <3>3, Forgets, Zenon
        DEF AddFinalizer, AfterFinalizer, AfterLateInitialize, Goto, Watched
  <2>8. CASE \/ GetNotFound \/ StopPaused \/ StopInvalid \/ Start \/ Initialize \/ ResolveReferences
             \/ Connect \/ ObserveFails
    <3>1. pc' \notin Watched /\ pc \notin Watched
      BY <2>8, Forgets, Zenon DEF GetNotFound, StopPaused, StopInvalid, Start, Dequeue, Begin, local, Initialize,
         AfterInitialize, ResolveReferences, Connect, ObserveFails, Goto, Watched
    <3> QED BY <2>q, <3>1, UnwatchedFlagged DEF Watched
  <2>9. CASE \/ Delete \/ UnpublishConnection \/ RemoveFinalizer \/ PublishCreated \/ LateInitialize
             \/ Update \/ UpdateExternalFails \/ PublishUpdated \/ UpdateStatus
    <3>1. pc' \notin Watched /\ pc \notin Watched
      BY <2>9, Forgets, Zenon DEF Delete, UnpublishConnection, RemoveFinalizer, PublishCreated, LateInitialize,
         AfterLateInitialize, Update, UpdateExternalFails, PublishUpdated, UpdateStatus, Goto, Watched
    <3> QED BY <2>q, <3>1, UnwatchedFlagged DEF Watched
  <2> QED BY <1>2, <2>1, <2>2, <2>3, <2>4, <2>5, <2>6, <2>7, <2>8, <2>9 DEF Reconcile
<1> QED BY <1>1, <1>2

-----------------------------------------------------------------------------

\* Users write no annotation but the pending one, which they remove when nothing is
\* being created; an object without a finalizer may go.
LEMMA UserRecord ==
  ASSUME TypeOK, UserEdits \/ UserDeletes \/ UserClearsPending
  PROVE  /\ UNCHANGED <<cache, pc, mg, obs, now, ext, ambiguous>> /\ ~mgCurrent' /\ api.exists
         /\ \/ api' = NoObject /\ ~api.finalizer
            \/ SameRecord(api', api)
            \/ UserClearsPending /\ api'.name = api.name /\ api'.succeeded = api.succeeded
                                 /\ api'.failed = api.failed
<1>o. api \in Object BY DEF TypeOK, ServerOK
<1>1. UNCHANGED <<cache, pc, mg, obs, now, ext, ambiguous>> /\ ~mgCurrent' /\ api.exists
  BY DEF UserEdits, UserDeletes, UserClearsPending, UserWrites
<1>2. CASE UserEdits
  <2>1. SameRecord(api', api) BY <1>o, <1>2 DEF UserEdits, UserWrites, Object, SameRecord
  <2> QED BY <1>1, <2>1
<1>3. CASE UserDeletes /\ api.finalizer
  <2>1. api' = [api EXCEPT !.deleted = TRUE] BY <1>3 DEF UserDeletes, UserWrites
  <2>2. SameRecord(api', api) BY <1>o, <2>1 DEF Object, SameRecord
  <2> QED BY <1>1, <2>2
<1>4. CASE UserDeletes /\ ~api.finalizer
  <2>1. api' = NoObject BY <1>4 DEF UserDeletes, UserWrites
  <2> QED BY <1>1, <1>4, <2>1
<1>5. CASE UserClearsPending
  <2>1. api' = [api EXCEPT !.pending = 0] BY <1>5 DEF UserClearsPending, UserWrites
  <2>2. api'.name = api.name /\ api'.succeeded = api.succeeded /\ api'.failed = api.failed
    BY <1>o, <2>1 DEF Object
  <2> QED BY <1>1, <1>5, <2>2
<1> QED BY <1>2, <1>3, <1>4, <1>5, Zenon

\* Everything around Reconcile keeps the record true.
LEMMA EnvironmentRecord ==
  ASSUME RecordInv, Environment
  PROVE  Times' /\ CopyAgrees' /\ Annotated'
<1>t. /\ TypeOK /\ TypeOK' /\ CreateUnderFinalizer /\ Times /\ CopyAgrees /\ Annotated
  BY EnvironmentType DEF RecordInv, LatestInv, FinalizerInv
<1>o. /\ mg \in Object /\ api \in Object /\ cache \in Object /\ now \in Nat
      /\ ext \in [Names -> Resource] /\ ext' \in [Names -> Resource]
  BY <1>t, SMTT(30) DEF TypeOK, LocalOK, ServerOK, WorldOK, Time
<1>p. now >= 1 /\ Past(api, now) /\ Past(cache, now) /\ Past(mg, now) /\ Past(NoObject, now)
  BY <1>o, <1>t DEF Times, Past, NoObject
<1>s. ServerTells(api, cache, ext) BY <1>t, Zenon DEF Annotated, ServerTells
<1>1. CASE Crash
  <2>1. UNCHANGED <<api, cache, ext, now>> /\ mg' = NoObject /\ pc' = "idle"
    BY <1>1 DEF Crash, Forget, server, world
  <2>2. Past(mg', now') /\ Past(api', now') /\ Past(cache', now') /\ now' >= 1 BY <1>p, <2>1
  <2>3. Times' BY <2>2 DEF Times, Past
  <2>4. ServerTells(api', cache', ext') BY <1>s, <2>1
  <2> QED BY <2>1, <2>3, <2>4, Zenon DEF CopyAgrees, Copying, Before, Deleting, Annotated, ServerTells
<1>2. CASE CacheSync
  <2>1. cache' = api /\ UNCHANGED <<api, mg, pc, mgCurrent, ext, now>>
    BY <1>2 DEF CacheSync, local, world
  <2>2. Times' BY <1>p, <2>1 DEF Times, Past
  <2>3. CopyAgrees' BY <1>t, <2>1, SMTT(30) DEF CopyAgrees, SameDecisions
  <2>4. ServerTells(api', cache', ext') BY <1>s, <2>1 DEF ServerTells
  <2>5. Annotated' BY <1>t, <2>1, <2>4, Zenon DEF Annotated, ServerTells, MadeBy
  <2> QED BY <2>2, <2>3, <2>5
<1>3. CASE Poll
  <2>1. UNCHANGED <<api, cache, mg, pc, mgCurrent, ext, now>> BY <1>3 DEF Poll, server, local, world
  <2>2. Times' BY <1>p, <2>1 DEF Times, Past
  <2>3. CopyAgrees' BY <1>t, <2>1, SMTT(30) DEF CopyAgrees, SameDecisions
  <2>4. Annotated' BY <1>t, <2>1 DEF Annotated, MadeBy
  <2> QED BY <2>2, <2>3, <2>4
<1>4. CASE Tick
  <2>1. UNCHANGED <<api, cache, mg, pc, mgCurrent, ext>> /\ now' = now + 1
    BY <1>4 DEF Tick, server, local
  <2>2. /\ api.succeeded \in Nat /\ api.failed \in Nat /\ cache.succeeded \in Nat /\ cache.failed \in Nat
        /\ mg.succeeded \in Nat /\ mg.failed \in Nat
    BY <1>o DEF Object, Time
  <2>3. Times' BY <1>o, <1>p, <2>1, <2>2 DEF Times, Past
  <2>4. CopyAgrees' BY <1>t, <2>1, SMTT(30) DEF CopyAgrees, SameDecisions
  <2>5. Annotated' BY <1>t, <2>1 DEF Annotated, MadeBy
  <2> QED BY <2>3, <2>4, <2>5
<1>5. CASE OutsiderActs \/ DeletionEnds
  <2>1. UNCHANGED <<api, cache, mg, pc, mgCurrent, now>>
    BY <1>5 DEF OutsiderActs, DeletionEnds, server, local
  <2>2. Fades(ext, ext') BY <1>t, EnvironmentFades
  <2>3. Times' BY <1>p, <2>1, SMTT(30) DEF Times, Past
  <2>4. CopyAgrees' BY <1>t, <2>1 DEF CopyAgrees, SameDecisions
  <2>5. KeepsRecord BY <2>1 DEF KeepsRecord, SameRecord
  <2>6. ServerTells(api', cache', ext') BY <1>o, <1>s, <2>1, <2>2, <2>5, KeptTells
  <2>7. pc = "annotateSucceeded" => MadeBy(mg.name, mg.succeeded, ext')
    <3> SUFFICES ASSUME pc = "annotateSucceeded" PROVE MadeBy(mg.name, mg.succeeded, ext')
      OBVIOUS
    <3>1. mg.name \in Names /\ MadeBy(mg.name, mg.succeeded, ext)
      BY <1>o, <1>t DEF Annotated, Object
    <3> QED BY <1>o, <2>2, <3>1, MadeFades
  <2>8. /\ pc' \in {"create", "annotateFailed"} => mg'.name = api'.name /\ mg'.succeeded = api'.succeeded
        /\ pc' = "annotateSucceeded" => /\ mg'.name # NoName /\ mg'.succeeded # 0
                                        /\ MadeBy(mg'.name, mg'.succeeded, ext')
    BY <1>t, <2>1, <2>7, ZenonT(30) DEF Annotated
  <2>9. Annotated' BY <2>6, <2>8, SMTT(30) DEF Annotated, ServerTells, MadeBy
  <2> QED BY <2>3, <2>4, <2>9
<1>6. CASE UserEdits \/ UserDeletes \/ UserClearsPending
  <2>1. /\ UNCHANGED <<cache, pc, mg, now, ext>> /\ ~mgCurrent' /\ api.exists
        /\ \/ api' = NoObject /\ ~api.finalizer
           \/ /\ api'.name = api.name /\ api'.succeeded = api.succeeded /\ api'.failed = api.failed
    BY <1>6, <1>t, UserRecord DEF SameRecord
  <2>2. Past(api', now) BY <1>p, <2>1 DEF Past
  <2>3. Times' BY <1>p, <2>1, <2>2 DEF Times, Past
  <2>4. CopyAgrees' BY <2>1, SMTT(30) DEF CopyAgrees
  <2>5. ServerTells(api', cache', ext')
    <3>1. CASE api' = NoObject BY <3>1 DEF ServerTells, NoObject
    <3> QED BY <1>s, <2>1, <3>1, SMTT(30) DEF ServerTells
  <2>6. pc' \in {"create", "annotateFailed"} => mg'.name = api'.name /\ mg'.succeeded = api'.succeeded
    BY <1>t, <2>1, Zenon DEF Annotated, CreateUnderFinalizer, Creating
  <2>7. pc = "annotateSucceeded" => MadeBy(mg'.name, mg'.succeeded, ext')
    BY <1>t, <2>1, SMTT(30) DEF Annotated
  <2>8. Annotated' BY <1>t, <2>1, <2>5, <2>6, <2>7 DEF Annotated, ServerTells
  <2> QED BY <2>3, <2>4, <2>8
<1> QED BY <1>1, <1>2, <1>3, <1>4, <1>5, <1>6 DEF Environment

\* It keeps every loss flagged too: the flag is only removed when nothing is lost.
LEMMA EnvironmentFlagged ==
  ASSUME RecordInv, Flagged, Environment
  PROVE  Flagged'
<1>t. TypeOK /\ CreateUnderFinalizer BY DEF RecordInv, LatestInv, FinalizerInv
<1>o. api \in Object /\ ext \in [Names -> Resource] BY <1>t DEF TypeOK, ServerOK, WorldOK
<1>m. MissingFlagged(pc, mg, api, ext) BY Zenon DEF Flagged, MissingFlagged
<1>1. CASE Crash
  <2>1. UNCHANGED <<api, ext>> /\ pc' = "idle" BY <1>1, SMTT(30) DEF Crash, server, world
  <2>2. \A n \in Names : Ours(ext, n) /\ api.exists /\ api.name # n => ExternalCreateIncomplete(api)
    BY DEF Flagged
  <2>3. MissingFlagged(pc', mg', api', ext') BY <2>1, <2>2 DEF MissingFlagged
  <2> QED BY <2>1, <2>3, UnwatchedFlagged DEF Watched
<1>2. CASE CacheSync \/ Poll \/ Tick
  <2>1. UNCHANGED <<api, ext, pc, mg, mgCurrent, obs>>
    BY <1>2 DEF CacheSync, Poll, Tick, server, local, world
  <2> QED BY <2>1, Zenon DEF Flagged, Ours, ExternalCreateIncomplete
<1>3. CASE OutsiderActs \/ DeletionEnds
  <2>1. UNCHANGED <<api, pc, mg, mgCurrent, obs>>
    BY <1>3 DEF OutsiderActs, DeletionEnds, server, local
  <2>2. \A n \in Names : Ours(ext', n) => Ours(ext, n)
    BY <1>t, EnvironmentFades DEF Fades, Ours
  <2>3. mg.name # NoName => mg.name \in Names BY <1>t, SMTT(30) DEF TypeOK, LocalOK, Object
  <2>4. MissingFlagged(pc', mg', api', ext') BY <1>m, <2>1, <2>2 DEF MissingFlagged
  <2>5. /\ /\ pc' \in {"publish", "addFinalizer", "setPending"}
           /\ ~obs'.exists /\ mgCurrent' /\ api'.exists /\ mg'.name # NoName
           => ~Ours(ext', mg'.name)
        /\ pc' = "setPending" => ~obs'.exists
        /\ pc' \in {"create", "annotateFailed"} => \A n \in Names : ~Ours(ext', n)
        /\ pc' = "create" => ExternalCreateIncomplete(api')
        /\ pc' = "annotateSucceeded" => /\ \A n \in Names : Ours(ext', n) => n = mg'.name
                                        /\ ExternalCreateIncomplete(api') \/ api'.name = mg'.name
    BY <2>1, <2>2, <2>3, Zenon DEF Flagged
  <2> QED BY <2>4, <2>5, Zenon DEF Flagged, MissingFlagged, Ours, ExternalCreateIncomplete
<1>4. CASE UserEdits \/ UserDeletes \/ UserClearsPending
  <2>1. /\ UNCHANGED <<pc, mg, obs, ext>> /\ ~mgCurrent' /\ api.exists
        /\ (api' = NoObject /\ ~api.finalizer) \/ SameRecord(api', api) \/ UserClearsPending
    BY <1>4, <1>t, UserRecord
  <2>2. CASE api' = NoObject /\ ~api.finalizer
    <3>1. ~Creating BY <1>t, <2>2 DEF CreateUnderFinalizer
    <3>2. ~api'.exists BY <2>2 DEF NoObject
    <3> QED BY <2>1, <3>1, <3>2, Zenon DEF Flagged, Creating
  <2>3. CASE SameRecord(api', api)
    <3>1. ExternalCreateIncomplete(api') <=> ExternalCreateIncomplete(api) BY <2>3, SameIncomplete
    <3>2. MissingFlagged(pc', mg', api', ext') BY <1>m, <2>1, <2>3, <3>1, ZenonT(30) DEF MissingFlagged, SameRecord
    <3>3. /\ pc' = "setPending" => ~obs'.exists
          /\ pc' \in {"create", "annotateFailed"} => \A n \in Names : ~Ours(ext', n)
          /\ pc' = "create" => ExternalCreateIncomplete(api')
          /\ pc' = "annotateSucceeded" => /\ \A n \in Names : Ours(ext', n) => n = mg'.name
                                          /\ ExternalCreateIncomplete(api') \/ api'.name = mg'.name
      BY <2>1, <2>3, <3>1 DEF Flagged, SameRecord
    <3> QED BY <2>1, <3>2, <3>3, Zenon DEF Flagged, MissingFlagged, Ours, ExternalCreateIncomplete
  <2>4. CASE UserClearsPending
    <3>1. ~Creating /\ \A n \in Names : ~Unrecorded(n) BY <2>4 DEF UserClearsPending
    <3>2. api' = [api EXCEPT !.pending = 0] BY <2>4 DEF UserClearsPending, UserWrites
    <3>3. api'.name = api.name BY <1>o, <3>2 DEF Object
    <3>4. MissingFlagged(pc', mg', api', ext')
      BY <2>1, <3>1, <3>3, ZenonT(30) DEF MissingFlagged, Unrecorded, Ours
    <3>5. pc' = "setPending" => ~obs'.exists BY <2>1, Zenon DEF Flagged
    <3>6. pc' \notin {"create", "annotateFailed", "annotateSucceeded"} BY <2>1, <3>1 DEF Creating
    <3> QED BY <2>1, <3>4, <3>5, <3>6, Zenon DEF Flagged, MissingFlagged, Ours, ExternalCreateIncomplete
  <2> QED BY <2>1, <2>2, <2>3, <2>4
<1> QED BY <1>1, <1>2, <1>3, <1>4 DEF Environment

\* The record is true in every state, when Create names the resource.
LEMMA RecordInvariant ==
  ASSUME CreateIsTracked
  PROVE  Spec => []RecordInv
<1>1. Init /\ FinalizerInv => RecordInv
  <2> SUFFICES ASSUME Init, FinalizerInv PROVE RecordInv
    OBVIOUS
  <2>1. /\ pc = "idle" /\ cache = NoObject /\ mg = NoObject /\ now = 1
        /\ ext = [n \in Names |-> [state |-> IF n \in Preexisting THEN "live" ELSE "none",
                                   spec |-> NoObject.spec, ours |-> FALSE, created |-> 0]]
    BY DEF Init
  <2>2. PICK m \in Preexisting \cup {NoName}, p \in PolicyChoices, s \in Specs :
             api = [NoObject EXCEPT !.exists = TRUE, !.name = m, !.policy = p, !.spec = s]
    BY Zenon DEF Init
  <2>3. api.name = m /\ api.succeeded = 0 /\ api.failed = 0 BY <2>2 DEF NoObject
  <2>4. LatestInv BY <2>1 DEF LatestInv, Agrees, Decided, Before
  <2>5. CopyInv BY <2>1, Zenon DEF CopyInv, Before, Deleting, NoObject
  <2>6. Times
    <3>1. NoObject.succeeded = 0 /\ NoObject.failed = 0 BY DEF NoObject
    <3>2. cache.succeeded = 0 /\ cache.failed = 0 /\ mg.succeeded = 0 /\ mg.failed = 0 BY <2>1, <3>1
    <3> QED BY <2>1, <2>3, <3>2 DEF Times, Past
  <2>7. CopyAgrees BY <2>1, Zenon DEF CopyAgrees, Copying, Before, Deleting
  <2>8. Annotated
    <3>1. \A n \in Preexisting : ext[n].state = "live" /\ ~ext[n].ours BY <2>1, NameAssumption
    <3>2. api.name # NoName => MadeBy(api.name, api.succeeded, ext)
      BY <2>3, <3>1, NameAssumption DEF MadeBy
    <3> QED BY <2>1, <3>2, Zenon DEF Annotated, NoObject
  <2> QED BY <2>4, <2>5, <2>6, <2>7, <2>8 DEF RecordInv
<1>2. RecordInv /\ FinalizerInv' /\ [Next]_vars => RecordInv'
  <2> SUFFICES ASSUME RecordInv, FinalizerInv', [Next]_vars PROVE RecordInv'
    OBVIOUS
  <2>t. LatestInv /\ FinalizerInv /\ CopyInv BY DEF RecordInv, LatestInv
  <2>1. CASE UNCHANGED vars
    <3>1. LatestInv'
      BY <2>1, <2>t DEF vars, server, local, LatestInv, Agrees, Decided, Paused,
         ExternalCreateIncomplete
    <3>2. CopyInv' BY <2>1, <2>t DEF vars, server, local, CopyInv
    <3>3. (Times /\ CopyAgrees /\ Annotated)'
      BY <2>1, Zenon DEF vars, server, local, world, RecordInv, Times, Past, CopyAgrees, SameDecisions,
         Annotated, MadeBy
    <3> QED BY <3>1, <3>2, <3>3 DEF RecordInv
  <2>2. CASE Reconcile
    <3>1. LatestInv' BY <2>2, <2>t, ReconcileLatest DEF CreateIsTracked
    <3>2. CopyInv' BY <2>2, <2>t, ReconcileCopy
    <3>3. Times' /\ CopyAgrees' /\ Annotated'
      BY <2>2, ReconcileTimes, ReconcileAgrees, ReconcileAnnotated
    <3> QED BY <3>1, <3>2, <3>3 DEF RecordInv
  <2>3. CASE Environment
    <3>1. LatestInv' BY <2>3, <2>t, EnvironmentLatest
    <3>2. CopyInv' BY <2>3, <2>t, EnvironmentCopy
    <3>3. Times' /\ CopyAgrees' /\ Annotated' BY <2>3, EnvironmentRecord
    <3> QED BY <3>1, <3>2, <3>3 DEF RecordInv
  <2> QED BY <2>1, <2>2, <2>3 DEF Next
<1> QED BY <1>1, <1>2, FinalizerInvariant, PTL DEF Spec

\* So is every loss flagged, when a Create that fails leaves nothing.
LEMMA FlaggedInvariant ==
  ASSUME CreateIsTracked, ~FailedCreateMayTakeEffect
  PROVE  Spec => [](~ambiguous => Flagged)
<1>1. Init => (~ambiguous => Flagged)
  <2> SUFFICES ASSUME Init PROVE Flagged
    OBVIOUS
  <2>1. pc = "idle" /\ \A n \in Names : ~ext[n].ours BY DEF Init
  <2> QED BY <2>1, Zenon DEF Flagged, Ours
<1>2. RecordInv /\ (~ambiguous => Flagged) /\ [Next]_vars => (~ambiguous => Flagged)'
  <2> SUFFICES ASSUME RecordInv, ~ambiguous => Flagged, [Next]_vars, ~ambiguous' PROVE Flagged'
    OBVIOUS
  <2>1. CASE UNCHANGED vars
    BY <2>1, Zenon DEF vars, server, local, world, Flagged, Ours, ExternalCreateIncomplete
  <2>2. CASE Reconcile BY <2>2, ReconcileFlagged
  <2>3. CASE Environment
    <3>1. ambiguous' = ambiguous
      BY <2>3 DEF Environment, Crash, CacheSync, Poll, UserEdits, UserDeletes, UserClearsPending,
         UserWrites, OutsiderActs, DeletionEnds, Tick, world
    <3> QED BY <2>3, <3>1, EnvironmentFlagged
  <2> QED BY <2>1, <2>2, <2>3 DEF Next
<1> QED BY <1>1, <1>2, RecordInvariant, PTL DEF Spec

\* An external resource the reconciler created and the API server has no record of
\* is being recorded at this moment, or the resource's creation shows as incomplete.
\* Proved when the initializer names the resource, and when Create does and nothing
\* hides what it made: a failed Create leaves nothing, Observe misses nothing once
\* the grace period is over, and no reference is resolved in between.
THEOREM LeaksFlagged ==
  ASSUME NamedByInitializer \/ (CreateIsTracked /\ ~FailedCreateMayTakeEffect)
  PROVE  Spec => []LeakFlagged
<1>1. CASE NamedByInitializer
  <2> DEFINE Inv == FinalizerInv /\ CopyInv /\ OneName
  <2>1. Init /\ FinalizerInv => Inv
    <3> SUFFICES ASSUME Init, FinalizerInv PROVE Inv
      OBVIOUS
    <3>1. pc = "idle" /\ cache = NoObject /\ mg = NoObject /\ \A n \in Names : ~ext[n].ours BY DEF Init
    <3> QED BY <3>1, Zenon DEF CopyInv, OneName, Before, Deleting, Named, NoObject
  <2>2. Inv /\ FinalizerInv' /\ [Next]_vars => Inv'
    <3> SUFFICES ASSUME Inv, FinalizerInv', [Next]_vars PROVE Inv'
      OBVIOUS
    <3>1. CASE UNCHANGED vars BY <3>1, Zenon DEF vars, server, local, world, CopyInv, OneName
    <3>2. CASE Reconcile BY <1>1, <3>2, ReconcileCopy, ReconcileNames
    <3>3. CASE Environment BY <3>3, EnvironmentCopy, EnvironmentNames
    <3> QED BY <3>1, <3>2, <3>3 DEF Next
  <2>3. Inv => LeakFlagged BY DEF OneName, LeakFlagged, Unrecorded
  <2> HIDE DEF Inv
  <2> QED BY <2>1, <2>2, <2>3, FinalizerInvariant, PTL DEF Spec
<1>2. CASE CreateIsTracked /\ ~FailedCreateMayTakeEffect
  <2>1. (~ambiguous => Flagged) => LeakFlagged BY Zenon DEF Flagged, LeakFlagged, Unrecorded, Ours
  <2>2. Spec => [](~ambiguous => Flagged) BY <1>2, FlaggedInvariant
  <2> QED BY <2>1, <2>2, PTL
<1> QED BY <1>1, <1>2

-----------------------------------------------------------------------------
(* FinalizerRemoval.                                                       *)

\* The calls of a deletion are made for a resource that is not paused; its external
\* resource is gone or stays behind by the time the finalizer is about to go.
Removing ==
  /\ pc \in Deleting => policy = mg.policy /\ ~Paused(mg)
  /\ pc \in {"unpublish", "removeFinalizer"} /\ mgCurrent /\ api.exists =>
       ~ShouldDelete(Resolver(mg.policy)) \/ ~Exists(mg.name)

\* Away from those calls nothing is owed.
LEMMA NotRemoving ==
  ASSUME pc' \notin Deleting
  PROVE  Removing'
BY DEF Removing, Deleting

\* A resource that fades does not come back.
LEMMA GoneStays ==
  ASSUME NEW n \in Names \cup {NoName}, Fades(ext, ext'), ~Exists(n)
  PROVE  ~(n # NoName /\ ext'[n].state \in {"live", "deleting"})
BY DEF Fades, Exists

\* Each call of Reconcile keeps to it.
LEMMA ReconcileRemoving ==
  ASSUME CreateIsTracked, RecordInv, Removing, Reconcile
  PROVE  Removing'
<1>t. TypeOK /\ Coherent /\ Decided BY DEF RecordInv, LatestInv, FinalizerInv
<1>o. mg \in Object /\ cache \in Object BY <1>t, SMTT(30) DEF TypeOK, LocalOK, ServerOK
<1>1. CASE Start
  <2>1. /\ mg' = cache /\ policy' = cache.policy /\ ~Paused(cache)
        /\ pc' = "initialize" \/ (pc' = "unpublish" /\ ~ShouldDelete(Resolver(cache.policy)))
    BY <1>1 DEF Start, Begin, Dequeue
  <2> QED BY <2>1 DEF Removing, Deleting, Paused
<1>2. CASE ObserveMissing
  <2>1. CASE pc' \in {"idle", "status", "publish"} BY <2>1, NotRemoving DEF Deleting
  <2>2. CASE pc' = "unpublish"
    <3>1. /\ UNCHANGED <<api, ext, mg, mgCurrent, policy>> /\ pc = "observe"
          /\ FALSE \in Reports(mg.name) /\ ~ExternalCreateSucceededDuring(mg, creationGracePeriod)
      BY <1>2, <2>2, Ends, Zenon DEF ObserveMissing, Goto, server, world
    <3>2. policy = mg.policy /\ ~Paused(mg) BY <1>t, <3>1 DEF Decided, Before
    <3>3. mgCurrent /\ api.exists => ~Exists(mg.name)
      <4>1. CASE Exists(mg.name) /\ ext[mg.name].ours
        BY <3>1, <4>1, MissingIsGone DEF Exists
      <4> QED BY <3>1, <4>1, Zenon DEF Reports
    <3> QED BY <2>2, <3>1, <3>2, <3>3, Zenon DEF Removing, Paused, Exists
  <2> QED BY <1>2, <2>1, <2>2, Ends DEF ObserveMissing, Goto
<1>3. CASE ObserveExisting
  <2>1. CASE pc' = "publish" BY <2>1, NotRemoving DEF Deleting
  <2>2. CASE pc' \in {"delete", "unpublish"}
    <3>1. /\ mg'.policy = mg.policy /\ mg'.paused = mg.paused /\ policy' = policy
          /\ pc' = "unpublish" => ~ShouldDelete(Resolver(policy))
      BY <1>3, <2>2, <1>o DEF ObserveExisting, Object
    <3>2. policy = mg.policy /\ ~Paused(mg) BY <1>3, <1>t DEF ObserveExisting, Decided, Before
    <3>3. ~Paused(mg') BY <3>1, <3>2 DEF Paused
    <3>4. pc' = "unpublish" => ~ShouldDelete(Resolver(mg'.policy)) BY <3>1, <3>2
    <3>5. pc' # "removeFinalizer" BY <2>2
    <3> QED BY <3>1, <3>2, <3>3, <3>4, <3>5, Zenon DEF Removing, Paused
  <2> QED BY <1>3, <2>1, <2>2 DEF ObserveExisting
<1>4. CASE UnpublishConnection
  <2>1. CASE pc' \in {"idle", "status"} BY <2>1, NotRemoving DEF Deleting
  <2>2. CASE Goto("removeFinalizer", mg, mgCurrent) /\ UNCHANGED <<server, world>>
    <3>1. UNCHANGED <<api, ext, mg, mgCurrent, policy>> /\ pc = "unpublish"
      BY <1>4, <2>2 DEF UnpublishConnection, Goto, server, world
    <3> QED BY <3>1, Zenon DEF Removing, Deleting, Paused, Exists
  <2> QED BY <1>4, <2>1, <2>2, Ends DEF UnpublishConnection
<1>5. CASE GetNotFound \/ StopPaused \/ StopInvalid
  BY <1>5, NotRemoving DEF GetNotFound, StopPaused, StopInvalid, Begin, Dequeue, local, Deleting
<1>6. CASE \/ Initialize \/ ResolveReferences \/ Connect \/ ObserveFails \/ PublishConnection
           \/ AddFinalizer
  BY <1>6, NotRemoving, Ends, Zenon
  DEF Initialize, AfterInitialize, ResolveReferences, Connect, ObserveFails, PublishConnection,
      AddFinalizer, AfterFinalizer, AfterLateInitialize, Goto, Deleting
<1>7. CASE \/ Delete \/ RemoveFinalizer \/ SetExternalCreatePending
           \/ Create \/ CreateFails \/ AnnotateSucceeded \/ AnnotateFailed \/ PublishCreated
           \/ LateInitialize \/ Update \/ UpdateExternalFails \/ PublishUpdated \/ UpdateStatus
  <2>1. pc' \in {"idle", "status", "create", "annotateSucceeded", "annotateFailed",
                 "publishCreated", "update", "publishUpdated"}
    BY <1>7, Ends, Zenon
    DEF Delete, RemoveFinalizer, SetExternalCreatePending, Create,
        CreateFails, AnnotateSucceeded, AnnotateFailed, PublishCreated, LateInitialize,
        AfterLateInitialize, Update, UpdateExternalFails, PublishUpdated, UpdateStatus, Goto, Retry
  <2> QED BY <2>1, NotRemoving DEF Deleting
<1> QED BY <1>1, <1>2, <1>3, <1>4, <1>5, <1>6, <1>7 DEF Reconcile

\* So does everything around Reconcile.
LEMMA EnvironmentRemoving ==
  ASSUME TypeOK, Removing, Environment
  PROVE  Removing'
<1>o. mg.name \in Names \cup {NoName} BY DEF TypeOK, LocalOK, Object
<1>1. CASE Crash BY <1>1, NotRemoving DEF Crash, Deleting
<1>2. CASE UserEdits \/ UserDeletes \/ UserClearsPending
  <2>1. UNCHANGED <<pc, mg, policy>> /\ ~mgCurrent'
    BY <1>2, SMTT(30) DEF UserEdits, UserDeletes, UserClearsPending, UserWrites
  <2> QED BY <2>1 DEF Removing, Paused
<1>3. CASE CacheSync \/ Poll \/ OutsiderActs \/ DeletionEnds \/ Tick
  <2>1. UNCHANGED <<api, pc, mg, mgCurrent, policy>>
    BY <1>3 DEF CacheSync, Poll, OutsiderActs, DeletionEnds, Tick, server, local
  <2>2. ~Exists(mg.name) => ~(mg.name # NoName /\ ext'[mg.name].state \in {"live", "deleting"})
    BY <1>o, EnvironmentFades, GoneStays
  <2> QED BY <2>1, <2>2 DEF Removing, Paused, Exists
<1> QED BY <1>1, <1>2, <1>3 DEF Environment

\* A write of an object with its finalizer leaves the finalizer.
LEMMA StoreKeepsFinalizer ==
  ASSUME NEW o, UNCHANGED server \/ (Accepts /\ Store(o)), api.finalizer,
         Accepts => o.finalizer
  PROVE  api'.finalizer
BY DEF Store, server

\* Only RemoveFinalizer takes the finalizer off the server's object.
LEMMA OnlyRemoveFinalizer ==
  ASSUME CreateIsTracked, RecordInv, Reconcile, api.finalizer, ~api'.finalizer
  PROVE  pc = "removeFinalizer" /\ Accepts
<1>t. TypeOK /\ LocalFinalizer /\ CopyAgrees BY DEF RecordInv, LatestInv, FinalizerInv
<1>o. mg \in Object /\ api \in Object BY <1>t DEF TypeOK, LocalOK, ServerOK
<1>0. ~UNCHANGED server BY DEF server
<1>1. CASE RemoveFinalizer BY <1>0, <1>1, UpdateStores DEF RemoveFinalizer
<1>2. CASE AddFinalizer
  <2> DEFINE o == [mg EXCEPT !.finalizer = TRUE]
  <2>1. o.finalizer BY <1>o DEF Object
  <2>2. UNCHANGED server \/ (Accepts /\ Store(o))
    BY <1>2, UpdateStores, UpdateErrsStores, Zenon DEF AddFinalizer
  <2> HIDE DEF o
  <2> QED BY <2>1, <2>2, StoreKeepsFinalizer
<1>3. CASE LateInitialize
  <2>1. UNCHANGED server \/ (Accepts /\ Store(mg))
    BY <1>3, UpdateStores, UpdateErrsStores, Zenon DEF LateInitialize
  <2>2. Accepts => mg.finalizer
    BY <1>3, <1>t, Zenon DEF LateInitialize, Accepts, CopyAgrees, Copying, SameDecisions
  <2> QED BY <2>1, <2>2, StoreKeepsFinalizer
<1>4. CASE UpdateStatus
  <2> DEFINE o == [api EXCEPT !.synced = outcome.synced]
  <2>1. o.finalizer BY <1>o DEF Object
  <2>2. UNCHANGED server \/ (Accepts /\ Store(o)) BY <1>4, UpdateStores DEF UpdateStatus
  <2> HIDE DEF o
  <2> QED BY <2>1, <2>2, StoreKeepsFinalizer
<1>5. CASE SetExternalCreatePending
  <2> DEFINE o == [mg EXCEPT !.pending = now]
  <2>1. o.finalizer BY <1>5, <1>o, <1>t DEF SetExternalCreatePending, LocalFinalizer, Object
  <2>2. UNCHANGED server \/ (Accepts /\ Store(o))
    BY <1>5, UpdateStores, UpdateErrsStores, Zenon DEF SetExternalCreatePending
  <2> HIDE DEF o
  <2> QED BY <2>1, <2>2, StoreKeepsFinalizer
<1>6. CASE AnnotateSucceeded \/ AnnotateFailed
  <2>1. UNCHANGED server \/ (Accepts /\ Store(mg))
    BY <1>6, UpdateStores, Zenon DEF AnnotateSucceeded, AnnotateFailed
  <2>2. Accepts => mg.finalizer
    BY <1>6, <1>t, Zenon DEF AnnotateSucceeded, AnnotateFailed, LocalFinalizer, Creating, Accepts
  <2> QED BY <2>1, <2>2, StoreKeepsFinalizer
<1>7. CASE Initialize \/ ResolveReferences
  BY <1>0, <1>7, Zenon DEF Initialize, ResolveReferences, CreateIsTracked
<1>8. CASE GetNotFound \/ StopPaused \/ StopInvalid \/ Start
  BY <1>0, <1>8 DEF GetNotFound, StopPaused, StopInvalid, Start, Dequeue
<1>9. CASE \/ Connect \/ ObserveMissing \/ ObserveExisting \/ ObserveFails \/ Delete
           \/ UnpublishConnection \/ PublishConnection \/ Create \/ CreateFails \/ PublishCreated
           \/ Update \/ UpdateExternalFails \/ PublishUpdated
  BY <1>0, <1>9, Zenon DEF Connect, ObserveMissing, ObserveExisting, ObserveFails, Delete, UnpublishConnection,
     PublishConnection, Create, CreateFails, PublishCreated, Update, UpdateExternalFails,
     PublishUpdated, CallFails
<1> QED BY <1>1, <1>2, <1>3, <1>4, <1>5, <1>6, <1>7, <1>8, <1>9 DEF Reconcile

\* The finalizer goes from a deleted resource that is not paused, when its external
\* resource is gone or its policy leaves it behind.
LEMMA RemovalSound ==
  ASSUME CreateIsTracked, RecordInv, Removing, Next, api.finalizer, ~api'.finalizer
  PROVE  /\ api.deleted /\ ~Paused(api)
         /\ ~ShouldDelete(Resolver(api.policy)) \/ ~Exists(api.name)
<1>t. TypeOK /\ CopyAgrees /\ CopyInv BY DEF RecordInv, LatestInv, FinalizerInv
<1>o. api \in Object BY <1>t DEF TypeOK, ServerOK
<1>1. CASE Reconcile
  <2>1. pc = "removeFinalizer" /\ api.exists /\ mgCurrent
    BY <1>1, OnlyRemoveFinalizer DEF Accepts
  <2>2. SameDecisions(mg, api) /\ mg.name = api.name /\ mg.deleted
    BY <1>t, <2>1 DEF CopyAgrees, Copying, Deleting, CopyInv
  <2>3. /\ ~Paused(mg)
        /\ ~ShouldDelete(Resolver(mg.policy)) \/ ~Exists(mg.name)
    BY <2>1 DEF Removing, Deleting
  <2>4. ~Paused(api) BY <2>2, <2>3, Zenon DEF SameDecisions, Paused
  <2>5. api.policy = mg.policy /\ api.deleted BY <2>2 DEF SameDecisions
  <2> QED BY <2>2, <2>3, <2>4, <2>5
<1>2. CASE UserEdits \/ UserDeletes \/ UserClearsPending
  <2>1. CASE UserEdits
    <3>1. api'.finalizer = api.finalizer BY <1>o, <2>1 DEF UserEdits, UserWrites, Object
    <3> QED BY <3>1
  <2>2. CASE UserDeletes \/ UserClearsPending
    <3>1. api'.finalizer = api.finalizer
      BY <1>o, <2>2 DEF UserDeletes, UserClearsPending, UserWrites, Object
    <3> QED BY <3>1
  <2> QED BY <1>2, <2>1, <2>2
<1>3. CASE Crash \/ CacheSync \/ Poll \/ OutsiderActs \/ DeletionEnds \/ Tick
  BY <1>3 DEF Crash, CacheSync, Poll, OutsiderActs, DeletionEnds, Tick, server
<1> QED BY <1>1, <1>2, <1>3 DEF Next, Environment

\* The promise of the deletion holds in every state.
LEMMA RemovingInvariant ==
  ASSUME CreateIsTracked
  PROVE  Spec => []Removing
<1>1. Init => Removing BY DEF Init, Removing, Deleting
<1>2. RecordInv /\ Removing /\ [Next]_vars => Removing'
  <2> SUFFICES ASSUME RecordInv, Removing, [Next]_vars PROVE Removing'
    OBVIOUS
  <2>t. TypeOK BY DEF RecordInv, LatestInv, FinalizerInv
  <2>1. CASE UNCHANGED vars BY <2>1, Zenon DEF vars, server, local, world, Removing, Paused, Exists
  <2>2. CASE Reconcile BY <2>2, ReconcileRemoving
  <2>3. CASE Environment BY <2>3, <2>t, EnvironmentRemoving
  <2> QED BY <2>1, <2>2, <2>3 DEF Next
<1> QED BY <1>1, <1>2, RecordInvariant, PTL DEF Spec

\* The finalizer goes only from a deleted resource that is not paused, and only when
\* its external resource is gone or its policy leaves it behind, whatever users, the
\* cache and crashes did since Observe looked.
THEOREM FinalizerGoesLast ==
  ASSUME CreateIsTracked
  PROVE  Spec => FinalizerRemoval
<1> DEFINE Removal == api.finalizer /\ ~api'.finalizer =>
                        /\ api.deleted /\ ~Paused(api)
                        /\ \/ ~ShouldDelete(Resolver(api.policy))
                           \/ ~Exists(api.name)
                           \/ ExternalCreateIncomplete(api) \/ ambiguous
<1>1. RecordInv /\ Removing /\ [Next]_vars => [Removal]_vars BY RemovalSound
<1> QED BY <1>1, RecordInvariant, RemovingInvariant, PTL DEF Spec, FinalizerRemoval

\* Then even a creation whose result was lost leaves no external resource behind that
\* the server's object names.
THEOREM LeavesNoOrphan ==
  ASSUME CreateIsTracked
  PROVE  Spec => NoOrphanLeft
<1> DEFINE Removal == api.finalizer /\ ~api'.finalizer =>
                        ~ShouldDelete(Resolver(api.policy)) \/ ~Exists(api.name)
<1>1. RecordInv /\ Removing /\ [Next]_vars => [Removal]_vars BY RemovalSound
<1> QED BY <1>1, RecordInvariant, RemovingInvariant, PTL DEF Spec, NoOrphanLeft
=============================================================================
