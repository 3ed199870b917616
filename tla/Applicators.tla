----------------------------- MODULE Applicators -----------------------------
(***************************************************************************)
(* The applicators of pkg/resource (api.go, resource.go) and their two     *)
(* callers: the publishers of connection secrets                           *)
(* (pkg/reconciler/managed/api.go), which patch and retry, and the         *)
(* trackers of ProviderConfig usages (pkg/resource/providerconfig.go),     *)
(* which update once.  Several owners apply one object, users edit it, and *)
(* it is read from a cache that lags behind the API server.                *)
(*                                                                         *)
(* Apply has two steps, the read (with the options, which are local) and   *)
(* the write.  Both callers name their objects, so generated names do not  *)
(* occur.                                                                  *)
(***************************************************************************)
EXTENDS Integers, FiniteSets

CONSTANTS
  Owners,               \* the owners that apply the object: their UIDs
  Local,                \* those that are namespaced; the others are of legacy kinds
  Steady,               \* those that are reconciled for ever; the others make
  MaxCalls,             \* at most so many calls
  None,                 \* no controller
  Data,                 \* the data owners and users give the object: functions from keys
  Steps,                \* retry.DefaultRetry.Steps: how often Apply is tried
  MaxLag,               \* bound on the writes the informer is behind
  MaxEdits, MaxFaults   \* bounds on users and on failures

ASSUME StepsAssumption == Steps \in Nat \ {0}

VARIABLES
  patching,  \* whether the owners publish secrets (and patch), or track usages (and update)
  server,    \* the object in the API server
  revision,  \* the last resource version it gave
  cached,    \* the informer's copy of it
  lag,       \* the writes it has not seen
  data,      \* the data each owner wants the object to have
  calls,     \* the call of each owner
  made,      \* the calls made by owners that are not steady
  edits, faults

vars == <<patching, server, revision, cached, lag, data, calls, made, edits, faults>>

NoObject == [rv |-> 0, controller |-> None, connection |-> FALSE, data |-> <<>>]

Exists(o) == o.rv > 0

\* o: the object passed to Apply, which the read may overwrite; desired: what is written;
\* read: the copy the options saw; given: the data of the caller; tries: the attempts.
Idle == [step |-> "idle", o |-> NoObject, desired |-> NoObject, read |-> NoObject, given |-> <<>>,
         tries |-> 0, result |-> "none"]

Includes(d, e) == \A k \in DOMAIN e : k \in DOMAIN d /\ d[k] = e[k]

-----------------------------------------------------------------------------
(* The API server.                                                         *)

\* A write that changes nothing leaves the resource version.
Store(o) == IF Exists(server) /\ [o EXCEPT !.rv = server.rv] = server
            THEN UNCHANGED <<server, revision, lag>>
            ELSE /\ lag < MaxLag /\ lag' = lag + 1
                 /\ revision' = revision + 1 /\ server' = [o EXCEPT !.rv = revision']

\* Mutant: the patch replaces the object.
PatchedWhole(desired) == desired

\* A merge patch sets what the desired object has and leaves the rest.
Merged(d, e) == [k \in DOMAIN d \cup DOMAIN e |-> IF k \in DOMAIN d THEN d[k] ELSE e[k]]

Patched(desired) == [desired EXCEPT !.data = Merged(desired.data, server.data)]

\* A write is refused for an object that is gone, for a resource version that is not the
\* server's, and for another type of secret, which is immutable.
AcceptsPatch(desired) == /\ Exists(server) /\ desired.rv \in {0, server.rv}
                         /\ desired.connection = server.connection

AcceptsUpdate(desired) == Exists(server) /\ desired.rv = server.rv

AcceptsCreate(o) == ~Exists(server) /\ o.rv = 0

-----------------------------------------------------------------------------
(* The options.                                                            *)

\* Mutant: a connection secret has to be controlled by the owner already.
ConnectionSecretMustBeControlledBy(current, u) == current.controller = u

ConnectionSecretMustBeControllableBy(current, u) ==
  IF current.controller = None THEN current.connection ELSE current.controller = u

\* Mutant: a controller is looked for and not compared.
MustBeControllableByAnyone(current, u) == current.controller \in Owners \cup {None}

MustBeControllableBy(current, u) == current.controller \in {None, u}

\* Mutant: the keys are compared and the values are not.
AllowUpdateIfKeys(current, desired) == DOMAIN current.data # DOMAIN desired.data

\* Both callers allow an update if what it sets is not what is there.
AllowUpdateIf(current, desired) == current.data # desired.data

-----------------------------------------------------------------------------
(* The calls.                                                              *)

\* Mutant: the secret has no type of its own.
ConnectionSecretForUntyped(a) == [rv |-> 0, controller |-> a, connection |-> FALSE, data |-> data[a]]

\* ConnectionSecretFor: the owner is the controller.
ConnectionSecretFor(a) == [rv |-> 0, controller |-> a, connection |-> TRUE, data |-> data[a]]

\* LocalConnectionSecretFor differs in where the namespace is from.
LocalConnectionSecretFor(a) == ConnectionSecretFor(a)

\* The usage that Track makes.
UsageOf(a) == [rv |-> 0, controller |-> a, connection |-> FALSE, data |-> data[a]]

Apply(a, o) ==
  /\ calls[a].step = "idle"
  /\ IF a \in Steady THEN UNCHANGED made ELSE made < MaxCalls /\ made' = made + 1
  /\ calls' = [calls EXCEPT ![a] = [Idle EXCEPT !.step = "get", !.o = o, !.given = data[a], !.tries = 1]]
  /\ UNCHANGED <<patching, server, revision, cached, lag, data, edits, faults>>

\* APISecretPublisher and APILocalSecretPublisher.
PublishConnection(a) == patching /\ a \notin Local /\ Apply(a, ConnectionSecretFor(a))

PublishLocalConnection(a) == patching /\ a \in Local /\ Apply(a, LocalConnectionSecretFor(a))

\* ProviderConfigUsageTracker and LegacyProviderConfigUsageTracker.
Track(a) == ~patching /\ a \in Local /\ Apply(a, UsageOf(a))

LegacyTrack(a) == ~patching /\ a \notin Local /\ Apply(a, UsageOf(a))

Call(a) == PublishConnection(a) \/ PublishLocalConnection(a) \/ Track(a) \/ LegacyTrack(a)

Return(a, result) == calls' = [calls EXCEPT ![a] = [Idle EXCEPT !.result = result]]

\* Mutant: an attempt more than there are steps.
RetryOnceMore(a, c) == IF patching /\ c.tries <= Steps
                       THEN calls' = [calls EXCEPT ![a] = [c EXCEPT !.step = "get", !.tries = @ + 1]]
                       ELSE Return(a, "error")

\* ApplicatorWithRetry: an error of the API is retried with the same object.
Retry(a, c) == IF patching /\ c.tries < Steps
               THEN calls' = [calls EXCEPT ![a] = [c EXCEPT !.step = "get", !.tries = @ + 1]]
               ELSE Return(a, "error")

\* A call to the API server fails, with an error of the API or without.
Fault(a, c) == /\ faults < MaxFaults /\ faults' = faults + 1
               /\ Retry(a, c) \/ Return(a, "error")

\* Mutant: the update keeps the resource version the server has by then.
ReadLate(c) == IF patching THEN [c EXCEPT !.o = cached, !.desired = c.o, !.read = cached]
                           ELSE [c EXCEPT !.desired = [c.o EXCEPT !.rv = server.rv], !.read = cached]

\* The patching applicator reads into the object it was passed, of which desired is a copy.
\* The updating one reads into a copy, and gives the object the resource version it read.
Read(c) == IF patching THEN [c EXCEPT !.o = cached, !.desired = c.o, !.read = cached]
                       ELSE [c EXCEPT !.desired = [c.o EXCEPT !.rv = cached.rv], !.read = cached]

Controllable(a) == IF patching THEN ConnectionSecretMustBeControllableBy(cached, a)
                               ELSE MustBeControllableBy(cached, a)

\* The first half of Apply.  Neither caller's options run for an object that is not there.
Get(a) ==
  LET c == calls[a]
      r == Read(c)
  IN  /\ c.step = "get"
      /\ \/ /\ UNCHANGED faults
            /\ \/ /\ ~Exists(cached)
                  /\ calls' = [calls EXCEPT ![a].step = "create", ![a].read = NoObject]
               \/ Exists(cached) /\ ~Controllable(a) /\ Return(a, "error")
               \/ Exists(cached) /\ Controllable(a) /\ ~AllowUpdateIf(cached, c.o) /\ Return(a, "unchanged")
               \/ /\ Exists(cached) /\ Controllable(a) /\ AllowUpdateIf(cached, c.o)
                  /\ calls' = [calls EXCEPT ![a] = [r EXCEPT !.step = "write"]]
         \/ Fault(a, c)
      /\ UNCHANGED <<patching, server, revision, cached, lag, data, made, edits>>

\* A write that fails may have reached the server all the same.
Write(a, c, accepted, o) ==
  /\ \/ accepted /\ Store(o) /\ Return(a, "published") /\ UNCHANGED faults
     \/ ~accepted /\ Retry(a, c) /\ UNCHANGED <<server, revision, lag, faults>>
     \/ Fault(a, c) /\ UNCHANGED <<server, revision, lag>>
     \/ accepted /\ Fault(a, c) /\ Store(o)
  /\ UNCHANGED <<patching, cached, data, made, edits>>

Create(a) == /\ calls[a].step = "create"
             /\ Write(a, calls[a], AcceptsCreate(calls[a].o), calls[a].o)

Patch(a) == /\ calls[a].step = "write" /\ patching
            /\ Write(a, calls[a], AcceptsPatch(calls[a].desired), Patched(calls[a].desired))

Update(a) == /\ calls[a].step = "write" /\ ~patching
             /\ Write(a, calls[a], AcceptsUpdate(calls[a].desired), calls[a].desired)

-----------------------------------------------------------------------------
(* The others.                                                             *)

\* The informer catches up.
Sync == /\ lag > 0
        /\ cached' = server /\ lag' = 0
        /\ UNCHANGED <<patching, server, revision, data, calls, made, edits, faults>>

Edit == edits < MaxEdits /\ edits' = edits + 1 /\ UNCHANGED <<patching, cached, calls, made, faults>>

\* A user deletes the object, or creates one of their own, perhaps in its place.
UserDeletes == Edit /\ Exists(server) /\ server' = NoObject /\ lag < MaxLag /\ lag' = lag + 1 /\ UNCHANGED <<revision, data>>

UserCreates == Edit /\ UNCHANGED data
               /\ \E d \in Data, connection \in BOOLEAN :
                    Store([rv |-> 0, controller |-> None, connection |-> connection, data |-> d])

\* A user orphans the object, or an owner has other details.
UserOrphans == Edit /\ Exists(server) /\ server.controller # None /\ UNCHANGED data
               /\ Store([server EXCEPT !.controller = None])

DetailsChange(a) == Edit /\ \E d \in Data : d # data[a] /\ data' = [data EXCEPT ![a] = d]
                    /\ UNCHANGED <<server, revision, lag>>

\* Secrets of the time before connection secrets had a type of their own are controlled and opaque.
Init ==
  /\ patching \in BOOLEAN
  /\ revision = 1
  /\ server \in {NoObject} \cup [rv : {1}, controller : Owners \cup {None}, connection : BOOLEAN, data : Data]
  /\ cached = server /\ lag = 0
  /\ data \in [Owners -> Data]
  /\ calls = [a \in Owners |-> Idle]
  /\ made = 0 /\ edits = 0 /\ faults = 0

\* The next step of the call of an owner.
Work(a) == Call(a) \/ Get(a) \/ Create(a) \/ Patch(a) \/ Update(a)

Next == \/ Sync \/ UserDeletes \/ UserCreates \/ UserOrphans
        \/ \E a \in Owners : Work(a) \/ DetailsChange(a)

Spec == Init /\ [][Next]_vars

\* The informer delivers what it watches, and owners are reconciled at least every poll interval.
FairSpec == /\ Spec /\ WF_vars(Sync)
            /\ \A a \in Owners : WF_vars(Work(a))

-----------------------------------------------------------------------------
(* Properties.                                                             *)

\* Whose step this is, if it is a write of the API server by an owner.
Writes(a) == calls[a].step \in {"create", "write"} /\ calls'[a] # calls[a] /\ server' # server

TypeOK ==
  /\ patching \in BOOLEAN /\ revision \in Nat
  /\ {server, cached} \subseteq [rv : 0 .. revision, controller : Owners \cup {None}, connection : BOOLEAN,
                                 data : Data \cup {server.data, cached.data}]
  /\ \A a \in Owners : calls[a].step \in {"idle", "get", "create", "write"} /\ calls[a].tries <= Steps

\* An object that another owner controls is never taken over by the updating applicator, and by
\* the patching one (whose patch has no resource version) only if it changed after it was read.
NoTheft == [][\A a \in Owners : Writes(a) /\ Exists(server) /\ server.controller \notin {a, None}
                => patching /\ server.rv # calls[a].read.rv]_vars

\* A publisher never writes to a secret of a user's: one without a controller that is not a
\* connection secret, even if it took the place of another between the read and the write.
UserSecretsAreLeft == [][\A a \in Owners : Writes(a) /\ patching /\ Exists(server)
                           => server.controller # None \/ server.connection]_vars

\* Publishing is additive: it sets the keys it is given, and removes none of the others.
Additive == [][\A a \in Owners : Writes(a) /\ patching
                 => DOMAIN server.data \subseteq DOMAIN server'.data]_vars

\* An update is never made of a copy that missed a write of somebody else: what the owner replaces
\* is what its options saw.
NoLostUpdate == [][\A a \in Owners : Writes(a) /\ ~patching => server = calls[a].read]_vars

\* What others wrote is left: Apply takes no object from another controller, PublishConnection leaves
\* the secrets of users and the keys it was not given, and APIUpdatingApplicator loses no update.
OthersAreLeft == NoTheft /\ UserSecretsAreLeft /\ Additive /\ NoLostUpdate

Returns(a, result) == calls[a].step # "idle" /\ calls'[a].step = "idle" /\ calls'[a].result = result

\* What the caller is told is true: details said to be published are in the secret, retried or not,
\* and a first attempt that finds nothing to do has read exactly these details.  And Apply is tried no
\* more often than retry.DefaultRetry says.
ResultsAreTrue ==
  [][/\ TypeOK'
     /\ \A a \in Owners : /\ Returns(a, "published") => Includes(server'.data, calls[a].given)
                          /\ Returns(a, "unchanged") /\ calls[a].tries = 1 => cached.data = calls[a].given]_vars

\* The documentation of PublishConnection: it does nothing only if the secret has the details.
UnchangedMeansPublished == [][\A a \in Owners : Returns(a, "unchanged") => cached.data = calls[a].given]_vars

\* Once users, failures and the owners that are not steady stop, the object is there for good, with
\* the details of the steady owner unless another took it.  Opaque secrets are exempt: users' are
\* refused, and a controlled one would have to change its type.
Settles == \A a \in Steady : <>[](Exists(server) /\ (server.controller \in {a, None} /\ (patching => server.connection)
                                                     => Includes(server.data, data[a])))
=============================================================================
