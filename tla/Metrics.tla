------------------------------ MODULE Metrics -------------------------------
(***************************************************************************)
(* What the metrics remember: MRMetricRecorder, as the managed reconciler  *)
(* calls it (pkg/reconciler/managed/metrics.go), and MRStateRecorder with  *)
(* its gauges (pkg/statemetrics/mr_state_metrics.go).  Both work on copies *)
(* from a cache.  Of a reconcile only what the metrics see is modelled;    *)
(* its calls are those of ManagedReconciler.  The map of last observations *)
(* is left out: nothing but a duration depends on it.                      *)
(***************************************************************************)
EXTENDS Naturals, FiniteSets

CONSTANTS Resources, Name,         \* the managed resources, and the name of each
          MaxBirths, MaxRestarts   \* bounds on users and on failures

ASSUME ResourcesAssumption == IsFiniteSet(Resources)

VARIABLES
  managed,           \* the managed resources in the API server; their UID is 0 if they are gone
  cache,             \* the informer's copies of them
  requests,          \* the reconcile of each that is in progress
  firstObservation,  \* the names in the map
  recorded,          \* the UIDs that were recorded as ready, by any process
  misled,            \* history: the UIDs the recorder could not know it had recorded
  listed,            \* what Record has counted, the gauge it sets next, and how many existed before
  gauges, births, restarts

recorder == <<firstObservation, recorded, misled>>
states   == <<listed, gauges>>
vars     == <<managed, cache, requests, recorder, states, births, restarts>>

NoManaged == [uid |-> 0, synced |-> "Unknown", ready |-> FALSE, deleted |-> FALSE]

Nothing == [r \in Resources |-> NoManaged]

Idle == [step |-> "idle", copy |-> NoManaged]

-----------------------------------------------------------------------------
(* The recorder.                                                           *)

\* Mutant: the Synced condition is not asked for.
recordFirstTimeReconciledAgain(r, mg) == firstObservation' = firstObservation \cup {Name[r]}

\* A resource whose Synced condition is unknown has not been reconciled before.
recordFirstTimeReconciled(r, mg) ==
  firstObservation' = IF mg.synced = "Unknown" THEN firstObservation \cup {Name[r]} ELSE firstObservation

\* Mutant: the name stays in the map.
recordFirstTimeReadyKeeps(r, mg) == recorded' = recorded \cup {mg.uid} /\ UNCHANGED firstObservation

\* The second half of recordFirstTimeReady, after the name was found in the map.
recordFirstTimeReady(r, mg) == /\ recorded' = recorded \cup {mg.uid}
                               /\ firstObservation' = firstObservation \ {Name[r]}

\* An update of the status may fail, and does if the resource is another than was read.
UpdateStatus(r, synced, ready) ==
  \/ requests[r].copy = managed[r] /\ managed' = [managed EXCEPT ![r].synced = synced, ![r].ready = ready]
  \/ UNCHANGED managed

Return(r) == requests' = [requests EXCEPT ![r] = Idle]

\* The copy is not yet reconciled, and no longer what the server has.
Outdated(r) == cache[r].synced = "Unknown" /\ cache[r] # managed[r]

Reconcile(r) ==
  /\ requests[r].step = "idle" /\ cache[r].uid > 0
  /\ recordFirstTimeReconciled(r, cache[r])
  /\ misled' = IF Outdated(r) /\ cache[r].uid \in recorded THEN misled \cup {cache[r].uid} ELSE misled
  /\ requests' = [requests EXCEPT ![r] = [step |-> "reconcile", copy |-> cache[r]]]
  /\ UNCHANGED <<managed, cache, recorded, states, births, restarts>>

\* Observe finds the external resource up to date, and perhaps ready.
UpToDate(r, ready) ==
  /\ requests[r].step = "reconcile" /\ ~requests[r].copy.deleted
  /\ IF ready /\ Name[r] \in firstObservation
     THEN requests' = [requests EXCEPT ![r].step = "ready"] /\ UNCHANGED <<managed, recorder>>
     ELSE Return(r) /\ UpdateStatus(r, "True", ready) /\ UNCHANGED recorder
  /\ UNCHANGED <<cache, states, births, restarts>>

\* The server may not come to know that the resource was reconciled.
FirstTimeReady(r) ==
  /\ requests[r].step = "ready"
  /\ Return(r) /\ UpdateStatus(r, "True", TRUE)
  /\ recordFirstTimeReady(r, requests[r].copy)
  /\ misled' = IF managed'[r].synced = "Unknown" THEN misled \cup {requests[r].copy.uid} ELSE misled
  /\ UNCHANGED <<cache, states, births, restarts>>

\* The external resource is updated.
Update(r, ready) ==
  /\ requests[r].step = "reconcile" /\ ~requests[r].copy.deleted
  /\ Return(r) /\ UpdateStatus(r, "True", ready)
  /\ UNCHANGED <<cache, recorder, states, births, restarts>>

\* Some call of the reconcile fails, or the resource is paused.
ReconcileError(r, ready) ==
  /\ requests[r].step = "reconcile"
  /\ Return(r) /\ UpdateStatus(r, "False", ready)
  /\ UNCHANGED <<cache, recorder, states, births, restarts>>

\* The finalizer is removed, unless the resource has changed.  The maps keep the name.
recordDeleted(r) ==
  /\ requests[r].step = "reconcile" /\ requests[r].copy.deleted
  /\ Return(r)
  /\ managed' = IF requests[r].copy = managed[r] THEN [managed EXCEPT ![r] = NoManaged] ELSE managed
  /\ UNCHANGED <<cache, recorder, states, births, restarts>>

-----------------------------------------------------------------------------
(* The gauges.                                                             *)

Existing(all) == {r \in Resources : all[r].uid > 0}
Ready(all) == {r \in Existing(all) : all[r].ready}
Synced(all) == {r \in Existing(all) : all[r].synced = "True"}

Counts(all) == [exists |-> Cardinality(Existing(all)), ready |-> Cardinality(Ready(all)),
                synced |-> Cardinality(Synced(all))]

NoGauges == [exists |-> 0, ready |-> 0, synced |-> 0]

Done == [step |-> "done", counts |-> NoGauges, before |-> 0]

\* Record lists the resources, and sets one gauge after the other.
Record ==
  /\ listed.step = "done"
  /\ listed' = [step |-> "ready", counts |-> Counts(cache), before |-> gauges.exists]
  /\ gauges' = [gauges EXCEPT !.exists = Counts(cache).exists]
  /\ UNCHANGED <<managed, cache, requests, recorder, births, restarts>>

\* Mutant: the ready resources are counted again when their gauge is set.
RecordReadyLate ==
  /\ listed.step = "ready"
  /\ listed' = [listed EXCEPT !.step = "synced"]
  /\ gauges' = [gauges EXCEPT !.ready = Counts(cache).ready]
  /\ UNCHANGED <<managed, cache, requests, recorder, births, restarts>>

RecordReady ==
  /\ listed.step = "ready"
  /\ listed' = [listed EXCEPT !.step = "synced"]
  /\ gauges' = [gauges EXCEPT !.ready = listed.counts.ready]
  /\ UNCHANGED <<managed, cache, requests, recorder, births, restarts>>

\* Mutant: the gauge is set to the number of ready resources.
RecordSyncedReady ==
  /\ listed.step = "synced"
  /\ listed' = Done
  /\ gauges' = [gauges EXCEPT !.synced = listed.counts.ready]
  /\ UNCHANGED <<managed, cache, requests, recorder, births, restarts>>

RecordSynced ==
  /\ listed.step = "synced"
  /\ listed' = Done
  /\ gauges' = [gauges EXCEPT !.synced = listed.counts.synced]
  /\ UNCHANGED <<managed, cache, requests, recorder, births, restarts>>

-----------------------------------------------------------------------------
(* The others.                                                             *)

CacheSync(r) == /\ cache[r] # managed[r] /\ cache' = [cache EXCEPT ![r] = managed[r]]
                /\ UNCHANGED <<managed, requests, recorder, states, births, restarts>>

UserCreates(r) ==
  /\ managed[r].uid = 0 /\ births < MaxBirths /\ births' = births + 1
  /\ managed' = [managed EXCEPT ![r].uid = births']
  /\ UNCHANGED <<cache, requests, recorder, states, restarts>>

UserDeletes(r) == /\ managed[r].uid > 0 /\ ~managed[r].deleted
                  /\ managed' = [managed EXCEPT ![r].deleted = TRUE]
                  /\ UNCHANGED <<cache, requests, recorder, states, births, restarts>>

\* The process stops, perhaps because List failed: Start returns the error.
Restart == /\ restarts < MaxRestarts /\ restarts' = restarts + 1
           /\ firstObservation' = {} /\ requests' = [r \in Resources |-> Idle]
           /\ listed' = Done /\ gauges' = NoGauges
           /\ UNCHANGED <<managed, cache, recorded, misled, births>>

Init == /\ managed = Nothing /\ cache = Nothing
        /\ firstObservation = {} /\ recorded = {} /\ misled = {} /\ requests = [r \in Resources |-> Idle]
        /\ listed = Done /\ gauges = NoGauges
        /\ births = 0 /\ restarts = 0

Start == Record \/ RecordReady \/ RecordSynced

Next == \/ Start \/ Restart
        \/ \E r \in Resources :
             \/ Reconcile(r) \/ FirstTimeReady(r) \/ recordDeleted(r)
             \/ \E ready \in BOOLEAN : UpToDate(r, ready) \/ Update(r, ready) \/ ReconcileError(r, ready)
             \/ CacheSync(r) \/ UserCreates(r) \/ UserDeletes(r)

Spec == Init /\ [][Next]_vars

\* The ticker ticks and informers catch up.
FairSpec == Spec /\ WF_vars(Start) /\ \A r \in Resources : WF_vars(CacheSync(r))

-----------------------------------------------------------------------------

\* "The time it took for a managed resource to become ready first time after creation" is recorded
\* once for a resource, although others come and go under its name, statuses are written from old
\* copies and the process restarts; unless the recorder could not know, as the server did not come
\* to know that the resource was reconciled, or a copy was read from before it did.
ReadyIsFirst ==
  \A r \in Resources : requests[r].step = "ready" /\ requests[r].copy.uid \in recorded
                          => requests[r].copy.uid \in misled

\* It is recorded once for a resource, whatever the recorder knows.
RecordedOnce == \A r \in Resources : requests[r].step = "ready" => requests[r].copy.uid \notin recorded

\* Whenever the gauges are scraped, no more resources are ready or synced than there were when the
\* last list was recorded, or the one before while Record sets the gauges.
GaugesAgree == \E n \in {gauges.exists, listed.before} : gauges.ready <= n /\ gauges.synced <= n

\* Whenever they are scraped, no more resources are ready or synced than there are.
ScrapesAgree == gauges.ready <= gauges.exists /\ gauges.synced <= gauges.exists

\* A resource is recorded as ready for the first time once, as far as the recorder can know, and the
\* gauges agree whenever they are scraped.
MetricsAreTrue == ReadyIsFirst /\ GaugesAgree

\* Once nothing changes, the gauges say how many resources there are, ready and synced.
GaugesFollow == (<>[][FALSE]_managed) => <>[](gauges = Counts(managed))
=============================================================================
