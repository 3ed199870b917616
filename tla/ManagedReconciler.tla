------------------------- MODULE ManagedReconciler --------------------------
(***************************************************************************)
(* The managed resource reconciler: Reconciler.Reconcile of                *)
(* pkg/reconciler/managed/reconciler.go, with the API helpers it calls     *)
(* (managed/api.go, pkg/resource/api.go, pkg/meta/meta.go), one managed    *)
(* resource, the API server that stores it, the informer cache the         *)
(* reconciler reads it from, the work queue, and the external system.      *)
(*                                                                         *)
(* A reconcile is one step per call that leaves the process: every call to *)
(* the API server or to the external client is an action, so that users,   *)
(* the cache, the external system, the clock and crashes interleave        *)
(* between any two calls.  What Reconcile computes between two calls is    *)
(* part of the action of the earlier one.                                  *)
(*                                                                         *)
(* A resource version matters only through "is it the server's?", so each  *)
(* copy of the object carries that one bit: cacheCurrent and mgCurrent.    *)
(* Time is counted in the whole seconds that RFC3339 annotations keep.     *)
(***************************************************************************)
EXTENDS Integers, ManagementPolicies

CONSTANTS
  Names,                      \* identifiers of external resources
  NoName,                     \* no external-name annotation
  ManagedName,                \* the name NameAsExternalName writes
  Specs,                      \* desired states of the resource
  PolicyChoices,              \* managementPolicies users choose from
  DeletionPolicy,             \* deletionPolicy of a legacy resource, or "Modern"
  Preexisting,                \* external resources not created by the reconciler
  managementPoliciesEnabled,  \* the feature flag
  deterministicExternalName,  \* WithDeterministicExternalName
  NamedByInitializer,         \* the NameAsExternalName initializer is installed
  HasReferences,              \* the resource has a reference to resolve
  LateInitializes,            \* Observe fills in unset spec fields
  FilterEvents,               \* the watch uses the DesiredStateChanged predicate
  FailedCreateMayTakeEffect,  \* Create may return an error and still create
  creationGracePeriod,        \* WithCreationGracePeriod, in seconds
  ConsistencyDelay,           \* Observe may miss a resource younger than this
  RetrySteps,                 \* steps of retry.DefaultRetry
  MaxTime, MaxEdits, MaxFaults \* bounds on the clock, on users, on failures

ASSUME NameAssumption == /\ NoName \notin Names
                         /\ ManagedName \in Names
                         /\ Preexisting \subseteq Names
                         /\ Specs # {}

ASSUME PolicyAssumption == /\ PolicyChoices \subseteq SUBSET ManagementActions
                           /\ DeletionPolicy \in DeletionPolicies
                           /\ managementPoliciesEnabled \in BOOLEAN

ASSUME OptionAssumption ==
  /\ {deterministicExternalName, NamedByInitializer, HasReferences, LateInitializes,
      FilterEvents, FailedCreateMayTakeEffect} \subseteq BOOLEAN
  /\ deterministicExternalName => NamedByInitializer

ASSUME BoundAssumption ==
  /\ {creationGracePeriod, ConsistencyDelay, MaxTime, MaxEdits, MaxFaults} \subseteq Nat
  /\ RetrySteps \in Nat \ {0}

VARIABLES
  api,          \* the managed resource in the API server
  cache,        \* the informer's copy, which Get reads
  cacheCurrent, \* the informer's copy has the server's resource version
  queued,       \* the work queue holds a request for the resource
  timer,        \* a delayed request (RequeueAfter) is outstanding
  pc,           \* the call Reconcile makes next, "idle" between reconciles
  mg,           \* Reconcile's own copy of the resource
  mgCurrent,    \* that copy has the server's resource version
  policy,       \* managementPolicies as read at the start of the reconcile
  obs,          \* what Observe reported
  outcome,      \* the condition and result a status update will report
  tries,        \* failed attempts of UpdateCriticalAnnotations
  ext,          \* the external resources
  now,          \* the clock
  edits,        \* what users and outsiders have done so far
  faults,       \* failures so far
  ambiguous     \* history: creation began in the second of an earlier result

server == <<api, cache, cacheCurrent>>
local  == <<pc, mg, mgCurrent, policy, obs, outcome, tries>>
queue  == <<queued, timer>>
world  == <<ext, now, edits, ambiguous>>
vars   == <<server, local, queue, world, faults>>

-----------------------------------------------------------------------------
(* The object.  pending, succeeded and failed are the creation tracking    *)
(* annotations, 0 when absent; resolved says that the reference is         *)
(* resolved, late that the unset fields are filled in; synced is the       *)
(* Synced condition.                                                       *)

Time == Nat

Synced == {"unknown", "success", "error", "paused"}

Object == [exists : BOOLEAN, deleted : BOOLEAN, finalizer : BOOLEAN, paused : BOOLEAN,
           name : Names \cup {NoName}, pending : Time, succeeded : Time, failed : Time,
           policy : SUBSET ManagementActions, spec : Specs,
           resolved : BOOLEAN, late : BOOLEAN, synced : Synced]

NoObject == [exists |-> FALSE, deleted |-> FALSE, finalizer |-> FALSE, paused |-> FALSE,
             name |-> NoName, pending |-> 0, succeeded |-> 0, failed |-> 0,
             policy |-> {}, spec |-> CHOOSE s \in Specs : TRUE,
             resolved |-> FALSE, late |-> FALSE, synced |-> "unknown"]

Observation == [exists : BOOLEAN, upToDate : BOOLEAN, late : BOOLEAN]

NoObservation == [exists |-> FALSE, upToDate |-> FALSE, late |-> FALSE]

Requeues == {"none", "now", "poll"}

Outcome == [synced : Synced, requeue : Requeues]

NoOutcome == [synced |-> "unknown", requeue |-> "none"]

\* An external resource: "none" was never created, "deleting" was asked to go,
\* "gone" is gone for good; ours says that Create made it, at second created.
Resource == [state : {"none", "live", "deleting", "gone"}, spec : Specs,
             ours : BOOLEAN, created : Time]

Calls == {"initialize", "resolve", "connect", "observe", "delete", "unpublish",
          "removeFinalizer", "publish", "addFinalizer", "setPending", "create",
          "annotateFailed", "annotateSucceeded", "publishCreated", "lateInitialize",
          "update", "publishUpdated", "status"}

Exists(n) == n # NoName /\ ext[n].state \in {"live", "deleting"}

Resolver(p) == [enabled |-> managementPoliciesEnabled, policies |-> p,
                deletion |-> DeletionPolicy]

Max(a, b) == IF a > b THEN a ELSE b

\* Mutant: any earlier result ever recorded counts as the result of this creation.
IncompleteFirstTimeOnly(o) == o.pending # 0 /\ o.succeeded = 0 /\ o.failed = 0

ExternalCreateIncomplete(o) == o.pending > Max(o.succeeded, o.failed)

\* Mutant: the grace period is not consulted.
NeverDuring(o, d) == FALSE

ExternalCreateSucceededDuring(o, d) == o.succeeded # 0 /\ now < o.succeeded + d

\* AddAnnotations(o, a.GetAnnotations()): the annotations set on a win.
AddAnnotations(o, a) ==
  [o EXCEPT !.name      = IF a.name # NoName THEN a.name ELSE @,
            !.pending   = IF a.pending # 0 THEN a.pending ELSE @,
            !.succeeded = IF a.succeeded # 0 THEN a.succeeded ELSE @,
            !.failed    = IF a.failed # 0 THEN a.failed ELSE @]

\* The annotations that count as desired state: not the pending and failed ones.
AnnotationsChanged(old, new) ==
  old.paused # new.paused \/ old.name # new.name \/ old.succeeded # new.succeeded

\* The events that DesiredStateChanged lets through: every creation and deletion,
\* and an update of those annotations or of the generation, which a deletion
\* timestamp and every change of the spec increment.
DesiredStateChanged(old, new) ==
  \/ old.exists # new.exists
  \/ AnnotationsChanged(old, new)
  \/ \E f \in {"deleted", "policy", "spec", "resolved", "late"} : old[f] # new[f]

-----------------------------------------------------------------------------
(* How Reconcile goes on after a call.                                     *)

\* Make call next, with o as the local copy.
Goto(call, o, current) ==
  /\ pc' = call /\ mg' = o /\ mgCurrent' = current
  /\ UNCHANGED <<policy, obs, outcome, tries, queue>>

\* Forget what this reconcile knew.
Forget == /\ mg' = NoObject /\ policy' = {} /\ obs' = NoObservation /\ tries' = 0

\* Mark the Synced condition, then update the status and return.
Finish(synced, requeue, current) ==
  /\ pc' = "status" /\ mgCurrent' = current /\ Forget
  /\ outcome' = [synced |-> synced, requeue |-> requeue]
  /\ UNCHANGED queue

\* Return to the controller, which requeues as the result (or an error) says.
Return(requeue) ==
  /\ pc' = "idle" /\ mgCurrent' = FALSE /\ Forget
  /\ outcome' = NoOutcome
  /\ queued' = (queued \/ requeue = "now")
  /\ timer' = (timer \/ requeue = "poll")

\* One of the failures the environment may still inject.
Fault == faults < MaxFaults /\ faults' = faults + 1

\* An error from the external client, a publisher or a reference: reported in
\* the status, unless it is a Kubernetes conflict, which only requeues.
CallFails == /\ Fault /\ UNCHANGED server
             /\ \/ Finish("error", "now", mgCurrent)
                \/ Return("now")

-----------------------------------------------------------------------------
(* client.Update(ctx, o) and Status().Update(ctx, o): the API server       *)
(* refuses a resource version that is not its own with a conflict, removes *)
(* a deleted object that has lost its finalizer, and does not change the   *)
(* version of an object an update leaves as it was.                        *)

Store(o) == /\ api' = IF o.deleted /\ ~o.finalizer THEN NoObject ELSE o
            /\ cacheCurrent' = (cacheCurrent /\ o = api)
            /\ cache' = cache

Accepts == api.exists /\ mgCurrent

UpdateOK(o) == Accepts /\ Store(o) /\ UNCHANGED faults

UpdateConflicts == api.exists /\ ~Accepts /\ UNCHANGED <<server, faults>>

UpdateNotFound == ~api.exists /\ UNCHANGED <<server, faults>>

\* The client sees an error; the update may have been applied all the same, and
\* then the local copy is no longer current.
UpdateFails(o, current) ==
  Fault /\ \/ current = mgCurrent /\ UNCHANGED server
           \/ ~current /\ Accepts /\ Store(o)

\* What Reconcile makes of an update that failed otherwise than by a conflict.
UpdateErrs(o) ==
  \/ UpdateNotFound /\ Finish("error", "now", mgCurrent)
  \/ \E current \in BOOLEAN : UpdateFails(o, current) /\ Finish("error", "now", current)

-----------------------------------------------------------------------------
(* Reconcile, call by call.                                                *)

\* The worker takes the request from the queue and Get reads the cache.
Dequeue == /\ pc = "idle" /\ queued /\ queued' = FALSE
           /\ UNCHANGED <<server, timer, world, faults>>

Begin(call, o, result) ==
  /\ pc' = call /\ mg' = o /\ mgCurrent' = cacheCurrent /\ policy' = o.policy
  /\ outcome' = result
  /\ UNCHANGED <<obs, tries>>

Paused(o) == o.paused \/ IsPaused(Resolver(o.policy))

GetNotFound == Dequeue /\ ~cache.exists /\ UNCHANGED local

StopPaused == /\ Dequeue /\ cache.exists /\ Paused(cache)
              /\ Begin("status", NoObject, [synced |-> "paused", requeue |-> "none"])

StopInvalid == /\ Dequeue /\ cache.exists /\ ~Paused(cache) /\ ~Validate(Resolver(cache.policy))
               /\ Begin("status", NoObject, [synced |-> "error", requeue |-> "none"])

Start ==
  /\ Dequeue /\ cache.exists /\ ~Paused(cache) /\ Validate(Resolver(cache.policy))
  /\ LET orphan == cache.deleted /\ ~ShouldDelete(Resolver(cache.policy))
     IN  Begin(IF orphan THEN "unpublish" ELSE "initialize", cache, NoOutcome)

\* The check for an incomplete creation, which follows Initialize.
AfterInitialize(o, current) ==
  IF ExternalCreateIncomplete(o) /\ ~deterministicExternalName
  THEN Finish("error", "none", current)
  ELSE Goto(IF o.deleted THEN "connect" ELSE "resolve", o, current)

Initialize ==
  /\ pc = "initialize"
  /\ IF ~NamedByInitializer \/ mg.name # NoName
     THEN AfterInitialize(mg, mgCurrent) /\ UNCHANGED <<server, faults>>
     ELSE LET o == [mg EXCEPT !.name = ManagedName] IN
          \/ UpdateOK(o) /\ AfterInitialize(o, TRUE)
          \/ UpdateConflicts /\ Return("now")
          \/ UpdateErrs(o)
  /\ UNCHANGED world

\* ResolveReferences patches the server's object, whatever its version, and
\* reads the server's reply into the local copy.
ResolveReferences ==
  /\ pc = "resolve"
  /\ \/ /\ ~HasReferences \/ mg.resolved
        /\ Goto("connect", mg, mgCurrent) /\ UNCHANGED <<server, faults>>
     \/ /\ HasReferences /\ ~mg.resolved /\ api.exists
        /\ LET o == [api EXCEPT !.resolved = TRUE]
           IN  Store(o) /\ Goto("connect", o, TRUE) /\ UNCHANGED faults
     \/ HasReferences /\ ~mg.resolved /\ UpdateNotFound /\ Finish("error", "now", mgCurrent)
     \/ /\ HasReferences /\ ~mg.resolved /\ api.exists /\ Fault
        /\ Store([api EXCEPT !.resolved = TRUE]) /\ Finish("error", "now", FALSE)
     \/ HasReferences /\ ~mg.resolved /\ CallFails
  /\ UNCHANGED world

Connect ==
  /\ pc = "connect"
  /\ \/ Goto("observe", mg, mgCurrent) /\ UNCHANGED <<server, faults>>
     \/ CallFails
  /\ UNCHANGED world

\* An eventually consistent external API may miss a young resource.
Reports(n) == IF Exists(n) /\ ext[n].ours /\ now <= ext[n].created + ConsistencyDelay
              THEN BOOLEAN ELSE {Exists(n)}

ObserveMissing ==
  /\ pc = "observe" /\ FALSE \in Reports(mg.name)
  /\ \/ ShouldOnlyObserve(Resolver(policy)) /\ Finish("error", "now", mgCurrent)
     \/ /\ ~ShouldOnlyObserve(Resolver(policy))
        /\ ExternalCreateSucceededDuring(mg, creationGracePeriod)
        /\ Return("now")
     \/ /\ ~ShouldOnlyObserve(Resolver(policy))
        /\ ~ExternalCreateSucceededDuring(mg, creationGracePeriod)
        /\ Goto(IF mg.deleted THEN "unpublish" ELSE "publish", mg, mgCurrent)
  /\ UNCHANGED <<server, world, faults>>

ObserveExisting ==
  /\ pc = "observe" /\ TRUE \in Reports(mg.name)
  /\ obs' = [exists |-> TRUE, upToDate |-> ext[mg.name].spec = mg.spec,
             late |-> LateInitializes /\ ~mg.late]
  /\ mg' = [mg EXCEPT !.late = mg.late \/ LateInitializes]
  /\ pc' = IF ~mg.deleted THEN "publish"
           ELSE IF ShouldDelete(Resolver(policy)) THEN "delete" ELSE "unpublish"
  /\ UNCHANGED <<server, queue, world, faults, mgCurrent, policy, outcome, tries>>

ObserveFails == pc = "observe" /\ CallFails /\ UNCHANGED world

\* Mutant: no requeue to confirm the deletion.
DeleteUnconfirmed ==
  /\ pc = "delete" /\ UNCHANGED <<server, now, edits, ambiguous>>
  /\ ext' = [ext EXCEPT ![mg.name].state = IF Exists(mg.name) THEN "deleting" ELSE @]
  /\ Finish("success", "none", mgCurrent) /\ UNCHANGED faults

Delete ==
  /\ pc = "delete" /\ UNCHANGED <<server, now, edits, ambiguous>>
  /\ \/ /\ ext' = [ext EXCEPT ![mg.name].state = IF Exists(mg.name) THEN "deleting" ELSE @]
        /\ Finish("success", "now", mgCurrent) /\ UNCHANGED faults
     \/ Fault /\ Finish("error", "now", mgCurrent) /\ UNCHANGED ext

UnpublishConnection ==
  /\ pc = "unpublish"
  /\ \/ Goto("removeFinalizer", mg, mgCurrent) /\ UNCHANGED <<server, faults>>
     \/ CallFails
  /\ UNCHANGED world

RemoveFinalizer ==
  /\ pc = "removeFinalizer"
  /\ IF ~mg.finalizer THEN Return("none") /\ UNCHANGED <<server, faults>>
     ELSE LET o == [mg EXCEPT !.finalizer = FALSE] IN
          \/ UpdateOK(o) /\ Return("none")
          \/ UpdateNotFound /\ Return("none")
          \/ UpdateConflicts /\ Return("now")
          \/ \E current \in BOOLEAN : UpdateFails(o, current) /\ Finish("error", "now", current)
  /\ UNCHANGED world

\* What Reconcile does once the resource has its finalizer: create, late
\* initialize, or go on to the update.
AfterLateInitialize(o, current) ==
  IF obs.upToDate \/ ~ShouldUpdate(Resolver(policy))
  THEN Finish("success", "poll", current)
  ELSE Goto("update", o, current)

AfterFinalizer(o, current) ==
  IF ~obs.exists /\ ShouldCreate(Resolver(policy)) THEN Goto("setPending", o, current)
  ELSE IF obs.late /\ ShouldLateInitialize(Resolver(policy)) THEN Goto("lateInitialize", o, current)
  ELSE AfterLateInitialize(o, current)

\* Mutant: the finalizer is never added.
PublishWithoutFinalizer ==
  /\ pc = "publish" /\ AfterFinalizer(mg, mgCurrent)
  /\ UNCHANGED <<server, world, faults>>

PublishConnection ==
  /\ pc = "publish"
  /\ \/ Goto("addFinalizer", mg, mgCurrent) /\ UNCHANGED <<server, faults>>
     \/ CallFails
  /\ UNCHANGED world

AddFinalizer ==
  /\ pc = "addFinalizer"
  /\ IF mg.finalizer THEN AfterFinalizer(mg, mgCurrent) /\ UNCHANGED <<server, faults>>
     ELSE LET o == [mg EXCEPT !.finalizer = TRUE] IN
          \/ UpdateOK(o) /\ AfterFinalizer(o, TRUE)
          \/ UpdateConflicts /\ Return("now")
          \/ UpdateErrs(o)
  /\ UNCHANGED world

\* Mutant: the annotation is written whatever the version, as critical ones are.
SetPendingWhateverTheVersion ==
  /\ pc = "setPending" /\ api.exists
  /\ LET o == AddAnnotations(api, [mg EXCEPT !.pending = now])
     IN  Store(o) /\ Goto("create", o, TRUE)
  /\ UNCHANGED <<world, faults>>

\* The creation is announced with a plain update, which a stale copy fails.
SetExternalCreatePending ==
  /\ pc = "setPending"
  /\ LET o == [mg EXCEPT !.pending = now] IN
     /\ \/ UpdateOK(o) /\ Goto("create", o, TRUE)
        \/ UpdateConflicts /\ Return("now")
        \/ UpdateErrs(o)
     /\ ambiguous' = (ambiguous \/ (pc' = "create" /\ now = Max(mg.succeeded, mg.failed)))
  /\ UNCHANGED <<ext, now, edits>>

\* The names Create may return: the one it was given, else a new one.
CreatedNames == IF NamedByInitializer THEN {mg.name}
                ELSE {n \in Names : ext[n].state = "none"}

Created(n) == IF Exists(n) THEN ext
              ELSE [ext EXCEPT ![n] = [state |-> "live", spec |-> mg.spec,
                                       ours |-> TRUE, created |-> now]]

Create ==
  /\ pc = "create"
  /\ \E n \in CreatedNames :
       /\ ext' = Created(n)
       /\ Goto("annotateSucceeded", [mg EXCEPT !.name = n, !.succeeded = now], mgCurrent)
  /\ UNCHANGED <<server, now, edits, ambiguous, faults>>

CreateFails ==
  /\ pc = "create"
  /\ \/ Fault
     \/ CreatedNames = {} /\ UNCHANGED faults
  /\ \/ UNCHANGED ext
     \/ FailedCreateMayTakeEffect /\ \E n \in CreatedNames : ext' = Created(n)
  /\ Goto("annotateFailed", [mg EXCEPT !.failed = now], mgCurrent)
  /\ UNCHANGED <<server, now, edits, ambiguous>>

\* Mutant: one attempt too many.
LastTryOffByOne == tries = RetrySteps

\* UpdateCriticalAnnotations: update, and on a conflict read the resource from
\* the cache, put the annotations back and try again, RetrySteps times in all.
LastTry == tries + 1 = RetrySteps

Retry(o, current) ==
  /\ tries' = tries + 1 /\ mg' = o /\ mgCurrent' = current
  /\ UNCHANGED <<pc, policy, obs, outcome, queue>>

AnnotateSucceeded ==
  /\ pc = "annotateSucceeded"
  /\ \/ UpdateOK(mg) /\ Goto("publishCreated", mg, TRUE)
     \/ UpdateConflicts /\ ~LastTry /\ Retry(AddAnnotations(cache, mg), cacheCurrent)
     \/ UpdateConflicts /\ LastTry /\ Return("now")
     \/ \E current \in BOOLEAN :
          /\ UpdateFails(mg, current)
          /\ IF LastTry THEN Finish("error", "now", current) ELSE Retry(mg, current)
  /\ UNCHANGED world

AnnotateFailed ==
  /\ pc = "annotateFailed"
  /\ \/ UpdateOK(mg) /\ Finish("error", "now", TRUE)
     \/ UpdateConflicts /\ ~LastTry /\ Retry(AddAnnotations(cache, mg), cacheCurrent)
     \/ UpdateConflicts /\ LastTry /\ Finish("error", "now", cacheCurrent)
     \/ \E current \in BOOLEAN :
          /\ UpdateFails(mg, current)
          /\ IF LastTry THEN Finish("error", "now", current) ELSE Retry(mg, current)
  /\ UNCHANGED world

PublishCreated ==
  /\ pc = "publishCreated"
  /\ \/ Finish("success", "now", mgCurrent) /\ UNCHANGED <<server, faults>>
     \/ CallFails
  /\ UNCHANGED world

LateInitialize ==
  /\ pc = "lateInitialize"
  /\ \/ UpdateOK(mg) /\ AfterLateInitialize(mg, TRUE)
     \/ UpdateConflicts /\ Finish("error", "now", FALSE)
     \/ UpdateErrs(mg)
  /\ UNCHANGED world

Update ==
  /\ pc = "update"
  /\ ext' = IF Exists(mg.name) THEN [ext EXCEPT ![mg.name].spec = mg.spec] ELSE ext
  /\ Goto("publishUpdated", mg, mgCurrent)
  /\ UNCHANGED <<server, now, edits, ambiguous, faults>>

UpdateExternalFails ==
  /\ pc = "update" /\ Fault /\ Finish("error", "now", mgCurrent)
  /\ UNCHANGED <<server, world>>

PublishUpdated ==
  /\ pc = "publishUpdated"
  /\ \/ Finish("success", "poll", mgCurrent) /\ UNCHANGED faults
     \/ Fault /\ Finish("error", "now", mgCurrent)
  /\ UNCHANGED <<server, world>>

\* Status().Update writes the conditions only; SilentlyRequeueOnConflict turns
\* a conflict into a requeue, and any other error requeues too.
UpdateStatus ==
  /\ pc = "status"
  /\ LET o == [api EXCEPT !.synced = outcome.synced] IN
     \/ UpdateOK(o) /\ Return(outcome.requeue)
     \/ UpdateConflicts /\ Return("now")
     \/ UpdateNotFound /\ Return("now")
     \/ \E current \in BOOLEAN : UpdateFails(o, current) /\ Return("now")
  /\ UNCHANGED world

-----------------------------------------------------------------------------
(* What goes on around Reconcile.                                          *)

\* The controller process stops anywhere; the new one lists the resource, which
\* queues it, and has lost the delayed requests.
Crash ==
  /\ Fault
  /\ pc' = "idle" /\ mgCurrent' = FALSE /\ Forget /\ outcome' = NoOutcome
  /\ queued' = TRUE /\ timer' = FALSE
  /\ UNCHANGED <<server, world>>

\* The informer catches up with the server; the watch queues a request if the
\* event passes the predicate.
CacheSync ==
  /\ ~cacheCurrent
  /\ cache' = api /\ cacheCurrent' = TRUE
  /\ queued' = (queued \/ ~FilterEvents \/ DesiredStateChanged(cache, api))
  /\ UNCHANGED <<api, local, timer, world, faults>>

\* The poll interval ends.
Poll == /\ timer /\ timer' = FALSE /\ queued' = TRUE
        /\ UNCHANGED <<server, local, world, faults>>

\* A user writes o to the API server.
UserWrites(o) ==
  /\ api.exists /\ edits < MaxEdits /\ edits' = edits + 1
  /\ api' = o /\ o # api /\ cacheCurrent' = FALSE /\ mgCurrent' = FALSE
  /\ UNCHANGED <<cache, pc, mg, policy, obs, outcome, tries, queue, ext, now, ambiguous, faults>>

UserEdits == \/ \E s \in Specs : UserWrites([api EXCEPT !.spec = s])
             \/ \E p \in PolicyChoices : UserWrites([api EXCEPT !.policy = p])
             \/ UserWrites([api EXCEPT !.paused = ~@])

UserDeletes == UserWrites(IF api.finalizer THEN [api EXCEPT !.deleted = TRUE] ELSE NoObject)

Creating == pc \in {"create", "annotateSucceeded", "annotateFailed"}

Unrecorded(n) == /\ ext[n].state = "live" /\ ext[n].ours
                 /\ api.exists /\ api.name # n

\* The user removes the pending annotation "if it is safe to proceed": nothing is
\* being created and no resource is missing from the annotations.
UserClearsPending ==
  /\ ExternalCreateIncomplete(api) /\ ~Creating /\ \A n \in Names : ~Unrecorded(n)
  /\ UserWrites([api EXCEPT !.pending = 0])

\* An outsider changes or removes an external resource, or a deletion ends.
OutsiderActs ==
  /\ edits < MaxEdits /\ edits' = edits + 1
  /\ \E n \in Names : /\ Exists(n)
                      /\ \/ \E s \in Specs \ {ext[n].spec} : ext' = [ext EXCEPT ![n].spec = s]
                         \/ ext' = [ext EXCEPT ![n].state = "gone"]
  /\ UNCHANGED <<server, local, queue, now, ambiguous, faults>>

DeletionEnds ==
  /\ \E n \in Names : ext[n].state = "deleting" /\ ext' = [ext EXCEPT ![n].state = "gone"]
  /\ UNCHANGED <<server, local, queue, now, edits, ambiguous, faults>>

\* The clock is bounded, but a grace period in progress may run out.
Tick == /\ now < Max(MaxTime, api.succeeded + creationGracePeriod)
        /\ now' = now + 1
        /\ UNCHANGED <<server, local, queue, ext, edits, ambiguous, faults>>

-----------------------------------------------------------------------------

\* A user has just created the resource, perhaps for an existing external one.
Init ==
  /\ \E n \in Preexisting \cup {NoName}, p \in PolicyChoices, s \in Specs :
       api = [NoObject EXCEPT !.exists = TRUE, !.name = n, !.policy = p, !.spec = s]
  /\ cache = NoObject /\ cacheCurrent = FALSE
  /\ queued = FALSE /\ timer = FALSE
  /\ pc = "idle" /\ mg = NoObject /\ mgCurrent = FALSE /\ policy = {}
  /\ obs = NoObservation /\ outcome = NoOutcome /\ tries = 0
  /\ ext = [n \in Names |-> [state |-> IF n \in Preexisting THEN "live" ELSE "none",
                             spec |-> NoObject.spec, ours |-> FALSE, created |-> 0]]
  /\ now = 1 /\ edits = 0 /\ faults = 0 /\ ambiguous = FALSE

Reconcile ==
  \/ GetNotFound \/ StopPaused \/ StopInvalid \/ Start
  \/ Initialize \/ ResolveReferences \/ Connect
  \/ ObserveMissing \/ ObserveExisting \/ ObserveFails
  \/ Delete \/ UnpublishConnection \/ RemoveFinalizer
  \/ PublishConnection \/ AddFinalizer \/ SetExternalCreatePending
  \/ Create \/ CreateFails \/ AnnotateSucceeded \/ AnnotateFailed \/ PublishCreated
  \/ LateInitialize \/ Update \/ UpdateExternalFails \/ PublishUpdated \/ UpdateStatus

Environment == \/ Crash \/ CacheSync \/ Poll \/ UserEdits \/ UserDeletes \/ UserClearsPending
               \/ OutsiderActs \/ DeletionEnds \/ Tick

Next == Reconcile \/ Environment

Spec == Init /\ [][Next]_vars

-----------------------------------------------------------------------------
(* Properties.                                                             *)

ServerOK == api \in Object /\ cache \in Object /\ cacheCurrent \in BOOLEAN

LocalOK == /\ pc \in Calls \cup {"idle"} /\ mg \in Object /\ mgCurrent \in BOOLEAN
           /\ policy \in SUBSET ManagementActions /\ obs \in Observation
           /\ outcome \in Outcome /\ tries \in 0 .. RetrySteps - 1

QueueOK == queued \in BOOLEAN /\ timer \in BOOLEAN

WorldOK == /\ ext \in [Names -> Resource] /\ now \in Time
           /\ edits \in Nat /\ ambiguous \in BOOLEAN

\* Every variable holds a value of the kind the code gives it; in particular
\* UpdateCriticalAnnotations gives up in time.
TypeOK == ServerOK /\ LocalOK /\ QueueOK /\ WorldOK /\ faults \in Nat

\* While external.Create runs and until its result is recorded, the API server
\* holds the resource with the finalizer, so that no deletion, however it
\* interleaves, can make the resource vanish under a creation.
CreateUnderFinalizer == Creating => api.exists /\ api.finalizer

\* Reconcile announces a creation only if the resource as the API server has it
\* at that moment is neither deleted nor paused, allows Create and has no
\* incomplete creation, however stale the cache was that the reconcile read.
CreateFromLatest ==
  [][pc = "setPending" /\ pc' = "create" =>
       /\ ~api.deleted /\ ~Paused(api) /\ ShouldCreate(Resolver(api.policy))
       /\ ExternalCreateIncomplete(api) => deterministicExternalName]_vars

\* An external resource the reconciler created and the API server has no record
\* of is being recorded at this moment, or its loss shows: the resource's
\* creation is incomplete and Reconcile refuses to create another.  (Creations
\* in the second of an earlier result are told apart by ambiguous.)
LeakFlagged ==
  ~ambiguous => \A n \in Names : Unrecorded(n) =>
                  \/ pc = "annotateSucceeded" /\ mg.name = n
                  \/ ExternalCreateIncomplete(api)

\* The finalizer is removed only from a deleted resource that is not paused, and
\* only when its external resource is gone or the policy leaves it behind, or
\* the result of its creation was lost.
FinalizerRemoval ==
  [][api.finalizer /\ ~api'.finalizer =>
       /\ api.deleted /\ ~Paused(api)
       /\ \/ ~ShouldDelete(Resolver(api.policy))
          \/ ~Exists(api.name)
          \/ ExternalCreateIncomplete(api) \/ ambiguous]_vars

\* Nothing is forgotten: when no request is queued, delayed or in progress and
\* the cache has caught up, there is nothing to do for the resource until a user
\* changes it: it is gone, paused, invalid or refused as incomplete.
RestIsJustified ==
  pc = "idle" /\ ~queued /\ ~timer /\ cacheCurrent =>
    \/ ~api.exists \/ Paused(api) \/ ~Validate(Resolver(api.policy))
    \/ ExternalCreateIncomplete(api) /\ ~deterministicExternalName

\* As LeakFlagged, whatever the seconds: "If we started but never completed creation
\* of an external resource ... the safest thing to do is to refuse to proceed".
LeakNeverSilent ==
  \A n \in Names : Unrecorded(n) =>
    \/ pc = "annotateSucceeded" /\ mg.name = n
    \/ ExternalCreateIncomplete(api)

\* As FinalizerRemoval, a lost result included: with a deterministic name "it is
\* safe to proceed".
NoOrphanLeft ==
  [][api.finalizer /\ ~api'.finalizer =>
       ~ShouldDelete(Resolver(api.policy)) \/ ~Exists(api.name)]_vars

\* Observe's late initialization of the spec reaches the API server only under a
\* policy with LateInitialize.
LateInitializedByPolicy == [][api.exists /\ ~api.late /\ api'.late =>
                                ShouldLateInitialize(Resolver(api.policy))]_vars

-----------------------------------------------------------------------------

\* The work queue hands out requests, calls return, the informer catches up,
\* delayed requests come due, the clock runs and external deletions end.
Fairness == /\ WF_vars(Reconcile) /\ WF_vars(CacheSync) /\ WF_vars(Poll)
            /\ WF_vars(Tick) /\ WF_vars(DeletionEnds)

FairSpec == Spec /\ Fairness

Settled ==
  \/ ~api.exists \/ Paused(api)
  \/ ExternalCreateIncomplete(api) /\ ~deterministicExternalName
  \/ /\ ~api.deleted
     /\ \/ api.policy # {"*"}
        \/ Exists(api.name) /\ ext[api.name].spec = api.spec /\ api.synced = "success"

\* Once users, outsiders and failures leave the resource alone, it settles: a
\* deleted resource goes, any other one under the default policy has an external
\* resource that matches its spec and says Synced, unless it is paused or refused
\* as incomplete.
EventuallySettled == <>[]Settled
=============================================================================
