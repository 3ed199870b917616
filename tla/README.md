# A verification of crossplane-runtime

TLA+ models of the controllers and libraries in this repository, the TLC
configurations that check them on small instances, and proofs that TLAPS checks
for every instance.

Crossplane-runtime is a library for building Kubernetes controllers. Its centre
is the *managed resource reconciler*: it keeps an external resource (a database,
a bucket) in line with a Kubernetes object. What makes it hard is that it reads
from a cache that lags, writes to two systems that fail independently, may be
stopped anywhere, and shares the object with users. The models keep exactly
that: every call that leaves the process is a step of its own. Around it are
libraries: what they do to an object is modelled as an operator, and checked
against a definition that says what they should do.

## Inventory

| Component | State | Operations | What is hard |
|---|---|---|---|
| managed reconciler (`pkg/reconciler/managed`) | the object in the API server, its cached and local copies, the external resource, queue and timer | `Reconcile`, call by call | stale copies, lost results of `Create`, crashes, eventual consistency, requests that are never made |
| management policies (`managed/policies.go`) | none | the `Should...` decisions | combining legacy deletion policies with management policies while users edit them |
| gate (`pkg/gate`) | satisfied conditions, waiting callbacks | `Register`, `Set`, `process` | the mutex is released between a change and `process` |
| CRD gate (`pkg/reconciler/customresourcesgate`) | CRDs, cache, the gate | `Reconcile` | kinds come and go while the gate is told one at a time |
| ProviderConfig reconciler (`pkg/reconciler/providerconfig`, `pkg/resource/enqueue_handlers.go`) | configs, usages, two caches, queue | `Reconcile`, `Track`, event mapping | two caches of different age, events that reach the wrong request |
| rate limiter (`pkg/ratelimiter`) | the map of limited items, a shared bucket | `Reconcile`, `when` | requests that come back early or late |
| applicators, secret publishers, usage trackers (`pkg/resource`, `managed/api.go`) | an object in the API server | `Apply`, in two steps, retried | races between read and write, retries of what was half done |
| finalizers and owners (`pkg/meta`, `pkg/resource/api.go`) | lists on a shared object | add, remove, control | several controllers write one list from old copies |
| references (`pkg/reference`) | a field, its references, targets that change | `Resolve`, `ResolveMultiple` | policies, selectors, no-op rules, targets read one by one |
| field paths (`pkg/fieldpath`) | a lexer goroutine; a nested value | parse, print, get, set, delete, expand, merge | boundaries of arrays, quoting, errors half way |
| unstructured resources and conditions (`pkg/resource/unstructured`, `apis/common`) | a JSON object | accessors, `SetConditions` | paths spelled twice and for two schemas |
| package parser (`pkg/parser`) | a reader that keeps flags between reads | `Read`, `Parse`, `Lint` | where files, reads, buffers and documents end |
| metrics (`managed/metrics.go`, `pkg/statemetrics`) | a map by name, three gauges | the recorders | stale copies, gauges set one after another |

`PROJECT.json` lists every component with its status, and the hazards at the
lines where they bite.

## Modules

| Module | Models | Uses |
|---|---|---|
| `ManagementPolicies` | the policy resolvers, as operators on a record | |
| `PolicyEdits` | every resolver under edits of its policies | `ManagementPolicies` |
| `ManagedReconciler` | `Reconcile` with its API helpers, the API server, cache, queue, clock, users and the external system | `ManagementPolicies` |
| `ManagedReconcilerProofs`, `ManagedCopyProofs`, `ManagedLeakProofs` | proofs | each the one before |
| `GateContract` | what `controller.Gate` promises | |
| `Gate` | `pkg/gate`, shown to implement the contract | `GateContract` |
| `CRDGate` | the CRD reconciler composed with the gate | `Gate` |
| `ProviderConfig`, `ProviderConfigProofs` | the ProviderConfig reconciler, usages and event mapping | |
| `RateLimiter` | the rate limiting reconciler over a token bucket | |
| `Metadata` | finalizers and owner references of one object with several controllers | |
| `Applicators`, `ApplicatorsProofs` | both applicators, the retrying one, and their callers | |
| `References`, `ReferencesProofs` | both resolvers, for one value and for several | |
| `FieldPath` | segments, and how they are printed | |
| `FieldPathLexer` | the lexer goroutine and `Parse` | `FieldPath` |
| `Paved` | the operations on nested values, as recursive operators | `FieldPath` |
| `PavedCalls` | one call of a method of `Paved`, from the text of its path to its result | `FieldPathLexer`, `Paved` |
| `Conditions` | conditions and lists of them | |
| `Unstructured` | sequences of accessor calls on one object | `Paved`, `Conditions` |
| `PackageParser` | reader, parser and linter | |
| `Metrics` | the metric recorder and the state recorder | |
| `WorkersProofs` | proofs about goroutines that work for others | `CRDGate`, `RateLimiter`, `FieldPathLexer` |
| `ObjectsProofs` | proofs about what is kept of objects | `Metadata`, `Metrics` |
| `PavedInputs`, `UnstructuredInputs`, `PackageInputs`, `ReferenceInputs` | the values of the instances TLC checks | |
| `MCManagedReconciler`, `MCProviderConfig`, `MCApplicators` | instances of one component | |
| `MCWorkers`, `MCClients`, `MCObjects` | instances of several components | |

The last three put components side by side that share nothing. Their variable
`lib` says which of them a behaviour uses; the others stay in an initial state.
So the states of such a run are the sum of the states of its parts and not
their product. An invariant or action property of a part is checked as it
stands, since a part that is not used does not move; a liveness property is
checked as `lib = "x" => P`. A property may be the conjunction of several that
its part states; `PROJECT.json` has a mutant for each conjunct.

### The managed reconciler

`pc` names the call that `Reconcile` makes next; what it computes between two
calls belongs to the action of the earlier call. `api` is the server's object,
`cache` the informer's and `mg` the local copy. A resource version only matters
through the question whether it is the server's, so `cacheCurrent` and
`mgCurrent` stand for it. An update with a version that is not current is a
conflict; an update may fail, and may have been applied although it failed.
Creation annotations hold whole seconds, as RFC3339 does, and `now` counts them.
`queued` and `timer` are the request in the work queue and a delayed one.
`ambiguous` is history: a creation was announced in the second of an earlier
result.

Assumed or left out:

- one resource, one incarnation of it, and no finalizer but the reconciler's;
- a failing `Get` is retried and changes nothing;
- of the status only the `Synced` condition; no events, metrics or change logs;
- a server-side-apply patch of an object that is gone is an error;
- after a restart the first list may be as old as the cache was;
- `Create` of an external resource that exists under a deterministic name
  changes nothing, as the documentation of `ExternalClient` asks;
- `Delete` and `Update` of the external client that fail have no effect, and
  `Create` may have one only where a run says so;
- users remove the pending annotation only when it is safe, as the error message
  asks them to;
- the deletion policy of a legacy resource is not edited;
- a reconcile that runs into its timeout sees it as a failed call;
- `UpdateCriticalAnnotations` never finds the object gone: the theorem
  `CreatesUnderFinalizer` shows that it is there.

### The gates

`Register` and `Set` are two steps each: the change under the mutex, then
`process` under the mutex again. A callback is registered once. The refinement
maps conditions that are true, callbacks that wait and callbacks that were
started to the contract's variables. The CRD gate has one worker, as
controller-runtime has by default; a restart makes a new gate and is not
modelled. The versions a CRD lists are fixed, whether they are served is not.

### ProviderConfigs

A config is a pair of namespace and name. Configs and usages have caches of
their own, and the informer may deliver several changes as one. `Track` is one
step here, as its conflicts are resolved by the next connection of the managed
resource; `Applicators` has its steps. The kind in the label of a usage, other
finalizers, several workers and the informer's periodic resync are left out; the
resync would requeue a config some hours later.

### The rate limiter

The work queue never hands one item to two workers and `when` touches only its
own entry of the map, so `when` is one step. The limiter is a bucket that gains
one token per tick and whose reservations may take it below zero.

### Applicators

Owners apply one object: either they publish connection secrets, with the
patching applicator under `ApplicatorWithRetry`, or they track usages, with the
updating one. `Apply` is two steps, the read with the options that are decided
from it and the write. The patching applicator reads into the object it was
passed, so that a retry applies what was read; the model keeps both objects
(`o` and `desired`). Reads come from a cache that lags; a write may fail, and may
have been applied although it failed. Users delete, create and orphan the
object. The API server refuses a create of what exists, an update of an old
version, and a change of the type of a secret. `given` and `read` in a call are
history for the properties.

### Finalizers and owners

Controllers hold copies of one object, change the lists in memory and update.
After an error the reconcile ends and the copy is dropped, as both callers do.
Every controller has one finalizer, named by it, and one UID.

### References

A field with one value is a sequence of at most one, so both shapes share
`FromPtrValues` and `ToPtrValues`, which are modelled by what they do to empty,
numeric and other text. `Resolve` is one step, as it makes one call;
`ResolveMultiple` makes one `Get` per reference, with targets changing in
between. Lists come in any order. Users clear the field and delete the
resource; they do so between two resolutions, as the resolution works on a copy
that the reconciler writes as a whole.

### Field paths

Texts are sequences of characters, since what `Parse` does with each character
is the point; values are nested records of objects, arrays and scalars. `Grown`
and `PutAt` make new values where the code writes in place, and `setIn` returns
the object as it is after an error half way. `maxFieldPathIndex` is 1 for TLC,
so that an index may be at, below and above it. The reference definitions are
in `PavedCalls`: `There` (the paths of a value), `Apart` and `Matches`. Scalars
are zero (`""`, 0, `false`) or not, which `mergo` (external) tells apart: what is
zero or empty is replaced under every configuration, so that `MergeKeeps` is
about the other values.
`Valid` in `FieldPathLexer` is a grammar of the paths that are accepted.

### Unstructured resources and conditions

`dict` is what the object promises to be: a dictionary from accessors to what
they were last given. The accessors of composites and claims spell a path for
every getter and setter and for two schemas, and the model keeps both
spellings. Errors of the setters are ignored, as in the code: a setter that
meets anything but an object on its way changes nothing. `GetCondition` returns
an empty condition where there is no status or one it cannot read, and an
unknown one where a status has none. A condition has a type, a status, a reason, the
generation and a time.

### Package parser

`FsReadCloser` with its two flags, read through `bufio.Reader` and `YAMLReader`
(external, modelled from how the parser uses them). A byte is a newline, a
character of a separator or comment, or a letter. The buffer has 8 bytes, and
files have lines of every length up to one more than that, so that the ends of
files, separators and lines fall on every position of it. A read
that has too little room for the end of a file cuts it: the package is refused
then, but never becomes another one; `ErrorsAreNearby` allows for it (`Faulty`),
and the table below has it. The walk stops at a file it cannot get to or a
filter that fails, and `Init` of the backend returns the error (`InitBackend`).
`bufio.Reader` gives up after 100 reads of nothing in a row; the readers return
nothing once a file, and a reader that did so for ever would show in `ParseEnds`.

### Metrics

Of a reconcile only what the recorders see: the copy it starts from and the
outcome, with a status update that may fail. `recorded` is the samples of the
readiness histogram, by UID; the code has no such memory, and restarts do not
touch it. `misled` is history: resources that were recorded while their status was
lost, and those that were reconciled again from an old copy without a `Synced`
condition. Both make the recorder take a resource
for a new one, and the table below has them. `before` is history as well: the
number of resources at the list before.

## Runs

Passing runs:

| Run | Question |
|---|---|
| `managed_create` | is a creation with an unpredictable name safe under staleness, failures, crashes and edits? |
| `managed_policies` | do the same promises hold while policies change, with a deterministic name, filtered events and an external resource that was there before? |
| `managed_settles` | does a resource with references settle once it is left alone? |
| `provider_config` | are users counted, and deletions blocked by usages only, while managed resources move between configs? |
| `provider_config_goes` | with failures and restarts: is a config in use protected, and does a deleted config that is no longer used go? |
| `workers` | does the gate follow the CRDs and implement its contract, and do controllers start? does the rate limiter's map hold only requests on their way back, and does every request pass? do finalizers protect an object, is control exclusive and handed over, and does a deleted object go? |
| `clients` | does `Apply` leave what is others', is what it returns true, and does its object settle? do resolved values belong to their references, and do they stay and follow as the policies say? |
| `objects` | do parsing, printing and the operations on nested values agree with their reference definitions? do accessors read back what they were given and leave the rest? is a package its files, and does parsing end? do the policy resolvers decide as documented, under every edit? are metrics of what they say? |

The conjuncts of the properties of the last three are stated, and explained, in
the module of the part:

| Property | Conjuncts |
|---|---|
| `ParseIsExact` | `AcceptsValid`, `NoLexerLeft` |
| `PavedIsPrecise` | `SetIsPrecise`, `IndexesAreBounded`, `NotFoundCanBeSet`, `DeleteIsPrecise`, `ExpandsToMatches`, `PrintsBack` |
| `MergesAreStable` | `MergeKeeps`, `MergeIsIdempotent` |
| `AccessorsReadBack` | `AccessorsAgree`, `UserFieldsKept`, `ConditionsReadBack`, `ClaimTypesAreUsers` |
| `PackageIsFiles` | `PackageIsFiles`, `ErrorsAreNearby`, `AcceptedPasses` |
| `PoliciesDecide` | `DeletionDecision`, `PauseIsValid`, `GrantsFollowPolicies` |
| `MetricsAreTrue` | `ReadyIsFirst`, `GaugesAgree` |
| `OthersAreLeft` | `NoTheft`, `UserSecretsAreLeft`, `Additive`, `NoLostUpdate` |
| `ResultsAreTrue` | of what is published, of what is unchanged, and of the number of tries |
| `ResolutionIsSound` | `ValuesOfReferences`, `SelectedInScope`, `RequiredKept`, `Stable`, `SetValuesStay` |
| `ObjectIsGuarded` | `FinalizersProtect`, `OneController`, `ControllersStepDown` |

Runs that find a disagreement between the code and what its comments say; the
findings in `PROJECT.json` quote them:

| Run | What happens |
|---|---|
| `violation_same_second` | a creation lost in the second of an earlier result is not noticed |
| `violation_stale_reference` | resolving a reference makes a stale copy current after it was checked |
| `violation_usages_gone` | a namespaced config blocked by a usage of its namesake in another namespace is not queued when that usage goes |
| `violation_retry_forgets` | a publication that is retried after a failed patch applies what it read, and reports an unchanged secret that does not hold the details; the next reconcile publishes them |

More of them have no run of their own, but are seen by checking a property that
a module states with the constants of a run:

| Property | Constants | What happens |
|---|---|---|
| `LeakFlagged`, `FinalizerRemoval`, `NoOrphanLeft` | `ManagedCreate.cfg` with `ConsistencyDelay = 1` | the grace period, counted from a truncated second, ends up to a second before an external API it was meant to cover reports the resource |
| `LeakFlagged`, `FinalizerRemoval` | `ManagedCreate.cfg` with `HasReferences = TRUE` | resolving a reference makes the copy current after it was checked: a creation that shows as incomplete, or a pause, only there is passed over |
| `NoOrphanLeft` | the same, with `PolicyChoices <- SomePolicies` and `Names` and `Preexisting` `{"n1"}` | so is a policy under which the external resource is to be deleted |
| `LeakFlagged` | `ManagedCreate.cfg` with `FailedCreateMayTakeEffect = TRUE` | a Create that fails and takes effect is annotated as failed, and so as complete |
| `FinalizerRemoval` | `ManagedCreate.cfg` with `Names = {"n1"}` and `NamedByInitializer` true | a result lost in a crash leaves no grace period; once the user has removed the pending annotation and deletes the resource, Observe misses the young external resource and the finalizer goes |
| `NoOrphanLeft` | `ManagedCreate.cfg` with `Names = {"n1"}`, `deterministicExternalName` and `NamedByInitializer` true | a lost result leaves no grace period, and a deletion leaves the external resource behind |
| `RestIsJustified` | `ManagedCreate.cfg` with `FilterEvents = TRUE` | removing the pending annotation, as the error message asks, triggers no reconcile |
| `LateInitializedByPolicy` | `ManagedPolicies.cfg` with `PolicyChoices <- NoLatePolicy` | `AddFinalizer` writes the whole local copy, late initialized fields included |
| `NoStaleKind` | `Workers.cfg` | the gate keeps as true a version that is no longer served |
| `NeverRemovedInUse` | `ProviderConfig.cfg` | a usage tracked after the list was read does not keep the config |
| `UsersCounted` | `ViolationUsagesGone.cfg` | a namespaced config counts the users of its namesakes |
| `NoMoreFrequently` | `Workers.cfg` | a watch event takes a limited request past the limiter early |
| `ExpandReturns` | `P` in `MCObjects`, with `wildcard` among the `Names` of `PavedInputs` | a key `*` is replaced by itself, and `expandWildcards` does not return |
| `NoDuplicateItems` | `P` in `MCObjects` | `AppendSlice` removes duplicates from an array that is merged, not from arrays inside it |
| `TransitionTimeIsOfStatus` | `U` in `MCObjects` | a new reason or generation moves the time of the last transition, although the status stays |
| `Stable` | `Clients.cfg` with a resource that has a selector (not resolved always) and an optional reference | the target of the reference is absent: the first resolution clears the references, the next one selects, and sets field and references although nothing changed |
| `ReadyIsFirst` | `Objects.cfg` with two `Resources` of one `Name` | after a restart the map is empty; a new resource puts the shared name in, and an old one that is reconciled again is recorded as ready for the first time |
| `OptionalIsNoOp` | `Clients.cfg` | an optional reference that is missing is removed, and in a list all the others with it |
| `SetValuesAreSafe` | `Clients.cfg` | a number with a fraction is rounded by a resolution that is a no-op |
| `RecordedOnce` | `Objects.cfg` | a resource is recorded as ready for the "first time after creation" again, when its status update failed or its next reconcile read an older copy: it has no `Synced` condition there, and its name is put into the map again |
| `ScrapesAgree` | `Objects.cfg` | between two gauges of one list a scrape sees more ready or synced resources than there are |
| `ExistingValuesStay` | `P` in `MCObjects` | with `KeepMapValues` a value of `""`, 0, `false` or `{}` is replaced, although values in a merged map are to be preserved |
| `UnmarkedIsUnknown` | `U` in `MCObjects` | without a status the condition of a resource has no status at all, while `ConditionedStatus` returns an unknown one |
| `GoodFilesAreParsed` | `K` in `MCObjects` | a file whose last line leaves two or three bytes of the buffer free has its end cut to `.` or `..`, which is then part of the document and cannot be decoded |
| `ReadErrorsSurface` | `K` in `MCObjects` | the error of a file that cannot be read is dropped with its zero bytes |

### Bounds

Users, outsiders and failures have budgets (`MaxEdits`, `MaxFaults`,
`MaxChanges`, `MaxEvents`, `MaxOwners`, `MaxCalls`, `MaxBirths`, `MaxRestarts`)
of one to six; two edits and two failures are enough for a lost result followed
by a deletion, or a conflict followed by a crash. `MaxTime` of two or three
seconds has a creation in the same second as an earlier result, in the next and
after the grace period. `RetrySteps` and `Steps` are two: a retry and a last
try. Two names, configs, versions, owners or controllers tell the right one from
the wrong one. Field paths are all texts of at most four characters of an
alphabet of eight, and the texts of all paths of at most three segments, on
objects of up to three levels. Three accessor calls on an object are a setter,
one in its way and one that writes the status. Packages have at most two files:
what happens at the end of a file depends on it and on the next. One resource
with two births is enough for the metrics, whose map a namesake would share. The
gate has two callbacks and a CRD that changes three times; with four changes the
run passes as well, but takes eight minutes.
The largest runs have about 1.5 million states. `provider_config` uses symmetry
in managed resources and configs, which its invariants do not tell apart.

No run checks deadlock: the systems come to rest by design, and
`RestIsJustified`, `UsersCounted`, `BlockedOnlyByUsages`, `GateFollowsCRDs` and
the liveness properties say what must be true then.

### Fairness

Weak fairness of what does not depend on users: workers take requests and calls
return (client-go's queue and context timeouts), informers catch up, timers come
due, the garbage collector runs, external deletions end, the clock runs, tickers
tick, resources are reconciled at least every poll interval, and Go schedules
every thread. Users, outsiders, failures and crashes are not fair; the budgets
make them stop, which is the hypothesis of every liveness property here.

## Proofs

| Theorem | Statement |
|---|---|
| `ManagedReconcilerProofs!TypeCorrect` | `Spec => []TypeOK` |
| `ManagedReconcilerProofs!CreatesUnderFinalizer` | `Spec => []CreateUnderFinalizer` |
| `ManagedReconcilerProofs!CreatesFromLatest` | `Spec => CreateFromLatest`, if there are no references |
| `ManagedCopyProofs!RestsJustified` | `Spec => []RestIsJustified`, if `FilterEvents => deterministicExternalName` |
| `ManagedLeakProofs!LeaksFlagged` | `Spec => []LeakFlagged`, if `NamedByInitializer`, or `CreateIsTracked` and `~FailedCreateMayTakeEffect` |
| `ManagedLeakProofs!FinalizerGoesLast`, `LeavesNoOrphan` | `Spec => FinalizerRemoval`, `Spec => NoOrphanLeft`, if `CreateIsTracked` |
| `WorkersProofs!LosesNoRelease`, `StartsOnce` | `Spec => []NoLostRelease`, `Spec => []StartedOnce`, of the gate |
| `WorkersProofs!ImplementsContract` | the gate's steps are steps of its contract |
| `WorkersProofs!FollowsCRDs` | `SpecCRDs => []GateFollowsCRDs` |
| `WorkersProofs!CRDsLoseNoRelease`, `CRDsKeepContract` | `SpecCRDs => []NoLostRelease`; driven by CRDs, the gate keeps its contract |
| `WorkersProofs!MapHoldsReturning` | `LimiterSpec => []LimitedComesBack` |
| `WorkersProofs!ParsesExactly` | `LexSpec => []ParseIsExact` |
| `ProviderConfigProofs!TypeCorrect`, `CountedProtected` | `Spec => []TypeOK`, `Spec => []CountedIsProtected` |
| `ProviderConfigProofs!CountsUsers`, `BlockedByUsages` | `Spec => []UsersCounted`, `Spec => []BlockedOnlyByUsages`, with one namespace |
| `ObjectsProofs!FinalizersHold`, `ControlIsExclusive` | `MetadataSpec => []FinalizersProtect`, `MetadataSpec => []OneController` |
| `ObjectsProofs!ControlIsHandedOver`, `GuardsObjects` | `MetadataSpec => ControllersStepDown`, and with the two above `ObjectIsGuarded` |
| `ObjectsProofs!MetricsTellTheTruth` | `Spec => []MetricsAreTrue`, if `NamesDiffer` |
| `ApplicatorsProofs!TakesNothing`, `LosesNoUpdate` | `Spec => NoTheft`, `Spec => NoLostUpdate` |
| `ApplicatorsProofs!LeavesUserSecrets`, `RemovesNoKeys` | `Spec => UserSecretsAreLeft`, `Spec => Additive` |
| `ApplicatorsProofs!LeavesOthers` | `Spec => OthersAreLeft`, all four of them |
| `ApplicatorsProofs!TellsTheTruth` | `Spec => ResultsAreTrue` |
| `ReferencesProofs!ResolvesTruly` | `ResolveSpec => ValuesOfReferences /\ SelectedInScope /\ RequiredKept /\ SetValuesStay` |
| `ReferencesProofs!ResolvesSoundly` | `ResolveSpec => ResolutionIsSound`, if `SelectorsAlone` |

They hold for every value of the constants that satisfies the named assumptions
of the modules, which TLC evaluates in every run: that the managed resources are
a finite set (`ConfigAssumption`, `ResourcesAssumption` of `Metrics`), that there
is at least one try (`StepsAssumption`), that a burst is a number
(`BurstAssumption`), that paths are sequences of characters
(`TextsAssumption`), that the values of targets are numbers up to `Word`
(`TargetsAssumption`) and what the resources with references look like
(`ResourcesAssumption` of `References`), and those of `ManagedReconciler` and
`CRDGate` on their options. The bounds do not matter. The premises in the table are needed; a counterexample
to the property without it is under Runs. Each is true of the constants of a run
that checks the property (`NoOrphanLeft` implies the last part of
`FinalizerRemoval` and has no run of its own).

`CreateUnderFinalizer` is not inductive: that the update announcing a creation
succeeds says only that the local copy had the server's version. `FinalizerInv`
adds what follows from that: a current cache equals the server's object, a
deleted object on the server has a finalizer (`Coherent`), and the local copy
has the finalizer from `setPending` on (`LocalFinalizer`). A user's deletion
then only sets the deletion timestamp, and the only step that removes a
finalizer is not between those calls.

`CreateFromLatest` needs in addition that a current local copy agrees with the
server's object in everything `Reconcile` decides by (`Agrees`), and what it has
decided so far (`Decided`). The premise `~HasReferences` is needed:
`violation_stale_reference` is the behaviour it excludes.

`RestIsJustified` is about idle moments, and what makes it true happened before.
`RestInv` follows a reconcile that is about to leave no request (`Calm`): its
resource is `Justified` in the cache it was read from, or the cache is old and
will queue a request when it catches up (`EventDue`). Every other end leaves a
request or a timer (`StillBusy`). A finalizer is removed from a resource that is
deleted (`CopyInv`), so that the event that is due is its removal. With
`FilterEvents`, an event the predicate drops changes nothing that justifies the
rest but the pending annotation; with a deterministic name an incomplete creation
is no reason to rest.

`LeakFlagged` has two proofs. With `NamedByInitializer` there is one external
name (`OneName`): no copy of the object that has a name has another than the
server's, and the reconciler has created nothing under another, so nothing is
ever unrecorded. Otherwise Create picks the name, and an invariant says how the
annotations follow the external resources, for users, crashes and stale caches
at any point:

- no annotation is later than the clock (`Times`), so that a creation announced
  now is later than every result and shows as incomplete, unless it is
  `ambiguous`;
- a current copy has the server's name and annotations (`CopyAgrees`);
- the named external resource was made by the second the server recorded, and
  what `AddAnnotations` restores from an old cache takes no name or result away
  (`Annotated`); these three are `RecordInv`;
- before a creation is announced nothing the reconciler made is live, and from
  then on at most the resource Create has just returned is (`Flagged`).

The last needs that a resource which Observe does not find is not there
(`MissingIsGone`): it was made by the recorded second, the grace period from
that second is over, and the external API is late by less. `CreateIsTracked` is
what this takes: Create names the resource, no references, and
`ConsistencyDelay < creationGracePeriod`. `Flagged` needs in addition that no
failed Create takes effect, which would leave a resource that no result tells of.

`FinalizerRemoval` and `NoOrphanLeft` need no `Flagged`, since they are about the
resource that is recorded. To `RecordInv` they add `Removing`: from the moment `Reconcile` decides to
remove the finalizer its copy is not paused, and its external resource is gone
or left behind by its policy, as long as the copy is current. External resources
only fade while no creation runs (`Fades`), users' writes make the copy old, and
an old copy's update is refused. `OnlyRemoveFinalizer` shows that no other write
takes the finalizer away.

For the gate, a thread that makes the last condition true, or registers with all
conditions true, goes on to `process`; a thread in `process` empties the set of
released callbacks, so no other thread is needed for them. Driven by the CRD
reconciler, the gate's steps are the same. `GateFollowsCRDs` is about rest, and
needs what holds before: a CRD for which nothing is queued was told to the gate
as the cache has it, but for the calls still to be made (`CachedTold`), and those
calls are made of that copy.

`CountedIsProtected` is about the server's configs, but what is written there is
made of a request's copy, and that of a cached one. `IInv` says of all three
that users or a deletion come with a finalizer (`ConfigsSound`, `RequestSound`).

For `UsersCounted` and `BlockedOnlyByUsages`, `AInv` accounts for every config
in every state: its status says what the cached usages say, or a request for it
is queued, delayed or running (`Settled`), and a running one has counted the
cached usages, or its config is queued again (`Accounts`). Copies marked current
are (`Fresh`). The premise `OneNamespace` is needed: events
of a usage are mapped to configs of its own namespace, and usages are listed in
all (`violation_usages_gone`).

`LimitedComesBack` needs that delays are numbers (`Timed`): then a tick leaves a
timer a timer.

In `Metadata`, an update that is accepted has the object's version. `MetadataInv` says
that a copy with that version is the object (`Current`), so that an accepted
update changes one entry of the lists that are there; and that an old copy in
which a controller finds its finalizer before the deletion is right about it
(`Claimed`), since `AddFinalizer` then returns without an update. `OneController` also
needs that owners are unique (`UniqueOwners`, `OneOf`): `AddOwnerReference`
replaces the first owner with a UID, and a second would keep control.

In `Applicators`, the options look at what was read and the server at what is
written. `IInv` ties both to the server's object: a copy with its version is
that object (`Known`), a write carries the object its options allowed
(`Allowed`), and an update the version of that object. A patch normally has no
version. `UserSecretsAreLeft` therefore rests on the immutable type of a secret,
except for a retry, which patches the object that the failed attempt read into
its argument: that one has a version, and the options allowed it (`Wanted`).

`ResultsAreTrue` is about retries. A call carries the owner's object until an
attempt fails after its read; from then on it may carry what was read. `IInv`
says what that can be: an object that the server no longer has, unless the cache
still has it (`Wanted`). So a patch made of it is refused or is not made
(`Patches`): the cache had other data by the time it was read again, so the
server has another version. A publication that is reported was therefore made of
the owner's object (`Own`), and the first attempt that finds nothing to do has
read the owner's own data (`Counted` ties attempts to what they carry). That
later attempts do not is `violation_retry_forgets`. `Additive` follows from what
a patch does to data (`Merged`).

A resolution of several references takes many steps, with targets changing in
between. `ResolveInv` says of a call in progress (`InCall`) that its map holds
the values of references the resource has (`Holding`), and those of all that
were read, as they are, if no target changed since the call began (`Current`).
`ValuesOfReferences`, `SelectedInScope`, `RequiredKept` and `SetValuesStay` then
are about the last step of a call. They need what the conversions do to a value
that is written, read and written again: a number that has no fraction comes
back (`Reads`, `Writes`, `SetsField`).

`Stable` compares a resolution with the one before. `StableInv` says that, as
long as nothing changed since the last one, resolving again gives what is there
(`Settled`): the references lead, in the order of their values, to the values in
the field (`Led`), or both are what the selector gives (`Picked`). A map in Go is
iterated in any order; that the result is always the same needs that there is
only one increasing list of a set of numbers (`OneOrder`). The premise
`SelectorsAlone` says that no resource is given both a selector and an optional
reference.

For `ParseIsExact`, `LexInv` says how far the lexer's position and the grammar
agree (`Reads`, `Failing`): in `lexField` everything before the position is valid
and outside of brackets, but for a period that may not be followed by a bracket
(`InField`); the other states stand at the character they are named for. One
lemma for each state function (`FieldStep`, `PeriodStep`, `LeftStep`,
`IndexStep`, `RightStep`) says which errors the grammar has there. An error is the
last item that is sent (`Failing`), so that no goroutine is left when `Parse`
stops receiving. The texts may be of any length: `First` finds the first of some
characters, which is shown with a least element of a set of numbers and not by
induction on the text.

For `MetricsAreTrue`, `RecorderInv` says what a reconcile knows: UIDs are given
once (`UIDsDiffer`), a status is written from the cache, so that the cache has
every resource with a status (`CacheLeads`), and of a resource the recorder can
know to be recorded (`Known`) the server has a `Synced` condition and the map no
name (`Detected`). A name comes into the map from a copy without the condition:
that is the server's, whose resource is not `Known`, or an older one, whose
resource is `misled`. The premise `NamesDiffer` is needed, as the map has names
only. `GaugesInv` says of which of the two lists each gauge is.

Only model-checked:

- all liveness properties, and the fairness in the gate's contract
  (`KeepsContract`): liveness and `ENABLED` are out of the prover's reach;
- what the recursive operators of `Paved`, `Unstructured` and `PackageParser`
  compute, the folds of `SetConditions` and the text that `String` prints: it
  would take induction over data, whose theorems have an operator as a
  parameter that no prover here can instantiate;
- `FinalizerRemoval` when the initializer names resources: it holds for the
  constants of `managed_policies`, and not for every value, see Runs;
- the policy resolvers: they are over a finite set of policies, and TLC tries
  every edit of every one.

## Not modelled

- Of the managed reconciler: events, change logs, `Disconnect`, the `Ready`
  condition; nothing `Reconcile` decides depends on them.
- Late initializer, webhooks, label and annotation helpers, feature flags: each
  is one condition, one map write or a loop that stops at the first error, and a
  model would repeat it.
- The drift of observations in the metric recorder: only a duration depends on
  it. Its map is keyed by name as the other one, so that resources of one name
  in two namespaces share an entry, and entries are never removed.
- The pod log backend, extraction of credentials, certificates,
  passwords, logging, events: input, output and random text.
- The client that unwraps unstructured objects and the typed external clients:
  they forward calls.
- API types, generated and protobuf code, test support.
