--------------------------- MODULE ProviderConfig ---------------------------
(***************************************************************************)
(* The ProviderConfig reconciler (pkg/reconciler/providerconfig), the      *)
(* usages that managed resources track (pkg/resource/providerconfig.go)    *)
(* and the event handler that maps usages to requests                      *)
(* (pkg/resource/enqueue_handlers.go).  The reconciler keeps a finalizer   *)
(* on a ProviderConfig until no usage of it is left.                       *)
(*                                                                         *)
(* A config is <<namespace, name>>; a cluster has one namespace for kinds  *)
(* that have none.  The usage of a managed resource has its UID as name,   *)
(* so there is at most one, and lives in its namespace.                    *)
(***************************************************************************)
EXTENDS Integers, FiniteSets

CONSTANTS
  Namespaces, ConfigNames,  \* where ProviderConfigs are, and their names
  NoConfig,                 \* the reference of a usage that does not exist
  Managed,                  \* the managed resources
  Home,                     \* the namespace of each managed resource
  MaxEdits, MaxFaults       \* bounds on users and on failures

ASSUME ConfigAssumption == /\ NoConfig \notin ConfigNames
                           /\ IsFiniteSet(Managed)
                           /\ Home \in [Managed -> Namespaces]
                           /\ MaxEdits \in Nat /\ MaxFaults \in Nat

Configs == Namespaces \X ConfigNames

VARIABLES
  configs,        \* the ProviderConfigs in the API server
  cached,         \* the informer's copies of them
  cachedCurrent,  \* whether each has the server's resource version
  usages,         \* the usage of each managed resource, in the API server
  cachedUsages,   \* the informer's copies of them
  usageCurrent,   \* whether each has the server's resource version
  managed,        \* the managed resources: there, and the config they refer to
  queue,          \* configs with a request in the work queue
  timers,         \* configs with a delayed request
  rec,            \* the reconcile in progress
  edits, faults

server == <<configs, cached, cachedCurrent>>
usage  == <<usages, cachedUsages, usageCurrent, managed>>
vars   == <<server, usage, queue, timers, rec, edits, faults>>

Config == [exists : BOOLEAN, deleted : BOOLEAN, finalizer : BOOLEAN, users : 0 .. Cardinality(Managed),
           terminating : BOOLEAN]

NoObject == [exists |-> FALSE, deleted |-> FALSE, finalizer |-> FALSE, users |-> 0, terminating |-> FALSE]

Usage == [ref : ConfigNames \cup {NoConfig}, controlled : BOOLEAN]

NoUsage == [ref |-> NoConfig, controlled |-> FALSE]

\* step: the call made next; config and pc: the request and the copy read for it;
\* stale: the usages without a controller that are left to delete.
Idle == [step |-> "idle", config |-> <<>>, pc |-> NoObject, current |-> FALSE, stale |-> {}, users |-> 0]

-----------------------------------------------------------------------------
(* The usages.                                                             *)

\* The labels the reconciler lists by: the name alone.
Matching(all, c) == {m \in Managed : all[m].ref = c[2]}

\* The requests addProviderConfig adds for a usage of m.
addProviderConfig(m, u) == IF u.ref = NoConfig THEN {} ELSE {<<Home[m], u.ref>>}

\* Connect calls Track, which applies the usage: it is created if the cache has none,
\* updated if it refers to another config, and otherwise left as it is.
Track(m) ==
  /\ managed[m].exists
  /\ \/ /\ cachedUsages[m].ref = NoConfig /\ usages[m].ref = NoConfig
     \/ /\ cachedUsages[m].ref \notin {NoConfig, managed[m].ref} /\ usageCurrent[m]
  /\ usages' = [usages EXCEPT ![m] = [ref |-> managed[m].ref, controlled |-> TRUE]]
  /\ usageCurrent' = [usageCurrent EXCEPT ![m] = FALSE]
  /\ UNCHANGED <<server, cachedUsages, managed, queue, timers, rec, edits, faults>>

\* Mutant: an update of a usage only queues the config it refers to now.
UsageSyncNewOnly(m) ==
  /\ ~usageCurrent[m]
  /\ cachedUsages' = [cachedUsages EXCEPT ![m] = usages[m]]
  /\ usageCurrent' = [usageCurrent EXCEPT ![m] = TRUE]
  /\ queue' = queue \cup IF usages[m].ref = NoConfig THEN addProviderConfig(m, cachedUsages[m])
                                                     ELSE addProviderConfig(m, usages[m])
  /\ UNCHANGED <<server, usages, managed, timers, rec, edits, faults>>

\* The usage informer catches up; the event handler queues the configs the usage
\* referred to before and after.
UsageSync(m) ==
  /\ ~usageCurrent[m]
  /\ cachedUsages' = [cachedUsages EXCEPT ![m] = usages[m]]
  /\ usageCurrent' = [usageCurrent EXCEPT ![m] = TRUE]
  /\ queue' = queue \cup addProviderConfig(m, cachedUsages[m]) \cup addProviderConfig(m, usages[m])
  /\ UNCHANGED <<server, usages, managed, timers, rec, edits, faults>>

\* The garbage collector removes the usage of a managed resource that is gone.
CollectUsage(m) ==
  /\ ~managed[m].exists /\ usages[m].controlled
  /\ usages' = [usages EXCEPT ![m] = NoUsage]
  /\ usageCurrent' = [usageCurrent EXCEPT ![m] = FALSE]
  /\ UNCHANGED <<server, cachedUsages, managed, queue, timers, rec, edits, faults>>

-----------------------------------------------------------------------------
(* The reconciler.                                                         *)

Fault == faults < MaxFaults /\ faults' = faults + 1

\* The API server's answer to an update of config c with object o.
Store(c, o) == /\ configs' = [configs EXCEPT ![c] = IF o.deleted /\ ~o.finalizer THEN NoObject ELSE o]
               /\ cachedCurrent' = [cachedCurrent EXCEPT ![c] = @ /\ o = configs[c]]
               /\ UNCHANGED cached

Accepts == configs[rec.config].exists /\ rec.current

Return(again, after) == /\ rec' = Idle
                        /\ queue' = queue \cup again /\ timers' = timers \cup after

\* Get reads the cache; a config that is not there needs nothing.
Get(c) ==
  /\ rec.step = "idle" /\ c \in queue /\ queue' = queue \ {c}
  /\ rec' = IF cached[c].exists
            THEN [Idle EXCEPT !.step = "list", !.config = c, !.pc = cached[c], !.current = cachedCurrent[c]]
            ELSE Idle
  /\ UNCHANGED <<server, usage, timers, edits, faults>>

\* Mutant: the usages of other configs are subtracted as well.
ListSubtractsAll ==
  /\ rec.step = "list"
  /\ LET all   == Matching(cachedUsages, rec.config)
         stale == {m \in Managed : ~cachedUsages[m].controlled}
     IN  rec' = [rec EXCEPT !.step = "account", !.users = Cardinality(all) - Cardinality(stale), !.stale = stale]
  /\ UNCHANGED <<server, usage, queue, timers, edits, faults>>

\* List reads the cache too; the usages that have lost their controller are not counted.
List ==
  /\ rec.step = "list"
  /\ \/ /\ LET all   == Matching(cachedUsages, rec.config)
               stale == {m \in all : ~cachedUsages[m].controlled}
           IN  rec' = [rec EXCEPT !.step = "account", !.users = Cardinality(all \ stale), !.stale = stale]
        /\ UNCHANGED <<queue, timers, faults>>
     \/ Fault /\ Return({}, {rec.config})
  /\ UNCHANGED <<server, usage, edits>>

\* Delete names the usage, whatever has become of it since it was listed.
DeleteStale ==
  /\ rec.step = "account"
  /\ \E m \in rec.stale :
       \/ /\ usages' = [usages EXCEPT ![m] = NoUsage]
          /\ usageCurrent' = [usageCurrent EXCEPT ![m] = @ /\ usages[m] = NoUsage]
          /\ rec' = [rec EXCEPT !.stale = @ \ {m}]
          /\ UNCHANGED <<cachedUsages, managed, queue, timers, faults>>
       \/ Fault /\ Return({}, {rec.config}) /\ UNCHANGED usage
  /\ UNCHANGED <<server, edits>>

\* Mutant: an update that removes the finalizer is tried once.
FinalizeOnce ==
  /\ rec.step = "account" /\ rec.stale = {} /\ rec.pc.deleted
  /\ \/ rec.users > 0 /\ rec' = [rec EXCEPT !.step = "status"]
        /\ UNCHANGED <<server, queue, timers, faults>>
     \/ /\ rec.users = 0 /\ Accepts /\ Return({}, {}) /\ UNCHANGED faults
        /\ Store(rec.config, [rec.pc EXCEPT !.finalizer = FALSE])
     \/ rec.users = 0 /\ ~Accepts /\ Return({}, {}) /\ UNCHANGED <<server, faults>>
     \/ rec.users = 0 /\ Fault /\ Return({}, {}) /\ UNCHANGED server
  /\ UNCHANGED <<usage, edits>>

\* A config in use is blocked: only its status is updated.  Else the finalizer goes,
\* and an update that fails, by a conflict or otherwise, is tried again later.
Finalize ==
  /\ rec.step = "account" /\ rec.stale = {} /\ rec.pc.deleted
  /\ \/ rec.users > 0 /\ rec' = [rec EXCEPT !.step = "status"]
        /\ UNCHANGED <<server, queue, timers, faults>>
     \/ /\ rec.users = 0 /\ Accepts /\ Return({}, {}) /\ UNCHANGED faults
        /\ Store(rec.config, [rec.pc EXCEPT !.finalizer = FALSE])
     \/ rec.users = 0 /\ ~Accepts /\ Return({}, {rec.config}) /\ UNCHANGED <<server, faults>>
     \/ rec.users = 0 /\ Fault /\ Return({}, {rec.config}) /\ UNCHANGED server
  /\ UNCHANGED <<usage, edits>>

\* Mutant: the status is updated although the finalizer was not.
AddFinalizerUnchecked ==
  /\ rec.step = "account" /\ rec.stale = {} /\ ~rec.pc.deleted
  /\ \/ /\ Accepts /\ Store(rec.config, [rec.pc EXCEPT !.finalizer = TRUE])
        /\ rec' = [rec EXCEPT !.step = "status", !.current = TRUE, !.pc.finalizer = TRUE]
        /\ UNCHANGED <<queue, timers, faults>>
     \/ Fault /\ rec' = [rec EXCEPT !.step = "status"] /\ UNCHANGED <<server, queue, timers>>
  /\ UNCHANGED <<usage, edits>>

\* The finalizer is added, or found there, before the users are written down.
AddFinalizer ==
  /\ rec.step = "account" /\ rec.stale = {} /\ ~rec.pc.deleted
  /\ \/ /\ Accepts /\ Store(rec.config, [rec.pc EXCEPT !.finalizer = TRUE])
        /\ rec' = [rec EXCEPT !.step = "status", !.current = TRUE, !.pc.finalizer = TRUE]
        /\ UNCHANGED <<queue, timers, faults>>
     \/ ~Accepts /\ Return({}, {rec.config}) /\ UNCHANGED <<server, faults>>
     \/ Fault /\ Return({}, {rec.config}) /\ UNCHANGED server
  /\ UNCHANGED <<usage, edits>>

\* An error of the status update is returned, which queues the request again.
UpdateStatus ==
  /\ rec.step = "status"
  /\ \/ /\ Accepts /\ Return({}, {}) /\ UNCHANGED faults
        /\ Store(rec.config, [rec.pc EXCEPT !.users = rec.users,
                                          !.terminating = @ \/ rec.pc.deleted])
     \/ ~Accepts /\ Return({rec.config}, {}) /\ UNCHANGED <<server, faults>>
     \/ Fault /\ Return({rec.config}, {}) /\ UNCHANGED server
  /\ UNCHANGED <<usage, edits>>

ConfigSync(c) ==
  /\ ~cachedCurrent[c]
  /\ cached' = [cached EXCEPT ![c] = configs[c]]
  /\ cachedCurrent' = [cachedCurrent EXCEPT ![c] = TRUE]
  /\ queue' = queue \cup {c}
  /\ UNCHANGED <<configs, usage, timers, rec, edits, faults>>

ShortWait(c) == /\ c \in timers /\ timers' = timers \ {c} /\ queue' = queue \cup {c}
                /\ UNCHANGED <<server, usage, rec, edits, faults>>

\* The process stops; the new one lists every config and usage.
Crash ==
  /\ Fault /\ rec' = Idle /\ timers' = {}
  /\ queue' = queue \cup {c \in Configs : cached[c].exists}
  /\ UNCHANGED <<server, usage, edits>>

-----------------------------------------------------------------------------
(* The users.                                                              *)

UserWrites(c, o) ==
  /\ configs' = [configs EXCEPT ![c] = o] /\ o # configs[c]
  /\ cachedCurrent' = [cachedCurrent EXCEPT ![c] = FALSE]
  /\ rec' = IF rec.config = c THEN [rec EXCEPT !.current = FALSE] ELSE rec
  /\ UNCHANGED <<cached, usage, queue, timers, faults>>

DeleteConfig(c) == /\ configs[c].exists
                   /\ UserWrites(c, IF configs[c].finalizer THEN [configs[c] EXCEPT !.deleted = TRUE]
                                                            ELSE NoObject)

CreateConfig(c) == ~configs[c].exists /\ UserWrites(c, [NoObject EXCEPT !.exists = TRUE])

\* A managed resource is removed, refers to another config, or a restored backup
\* has lost the owner reference of its usage.
ManagedChanges(m) ==
  /\ managed[m].exists
  /\ \/ managed' = [managed EXCEPT ![m].exists = FALSE] /\ UNCHANGED <<usages, usageCurrent>>
     \/ /\ \E n \in ConfigNames \ {managed[m].ref} : managed' = [managed EXCEPT ![m].ref = n]
        /\ UNCHANGED <<usages, usageCurrent>>
     \/ /\ usages[m].controlled /\ UNCHANGED managed
        /\ usages' = [usages EXCEPT ![m].controlled = FALSE]
        /\ usageCurrent' = [usageCurrent EXCEPT ![m] = FALSE]
  /\ UNCHANGED <<server, cachedUsages, queue, timers, rec, faults>>

Edit == /\ edits < MaxEdits /\ edits' = edits + 1
        /\ (\E c \in Configs : DeleteConfig(c) \/ CreateConfig(c)) \/ (\E m \in Managed : ManagedChanges(m))

-----------------------------------------------------------------------------

Init ==
  /\ configs = [c \in Configs |-> [NoObject EXCEPT !.exists = TRUE]]
  /\ cached = [c \in Configs |-> NoObject] /\ cachedCurrent = [c \in Configs |-> FALSE]
  /\ usages = [m \in Managed |-> NoUsage]
  /\ cachedUsages = usages /\ usageCurrent = [m \in Managed |-> TRUE]
  /\ managed \in [Managed -> [exists : {TRUE}, ref : ConfigNames]]
  /\ queue = {} /\ timers = {} /\ rec = Idle /\ edits = 0 /\ faults = 0

Reconcile == (\E c \in Configs : Get(c)) \/ List \/ DeleteStale \/ Finalize \/ AddFinalizer \/ UpdateStatus

Next == \/ Reconcile \/ Edit \/ Crash
        \/ \E c \in Configs : ConfigSync(c) \/ ShortWait(c)
        \/ \E m \in Managed : Track(m) \/ UsageSync(m) \/ CollectUsage(m)

Spec == Init /\ [][Next]_vars

\* Workers, informers, timers and the garbage collector keep working.
FairSpec == /\ Spec /\ WF_vars(Reconcile)
            /\ WF_vars(\E c \in Configs : ConfigSync(c))
            /\ WF_vars(\E c \in Configs : ShortWait(c))
            /\ WF_vars(\E m \in Managed : UsageSync(m))
            /\ WF_vars(\E m \in Managed : CollectUsage(m))

-----------------------------------------------------------------------------

\* Every variable holds a value of the kind the code gives it.
TypeOK ==
  /\ configs \in [Configs -> Config] /\ cached \in [Configs -> Config]
  /\ cachedCurrent \in [Configs -> BOOLEAN]
  /\ usages \in [Managed -> Usage] /\ cachedUsages \in [Managed -> Usage]
  /\ usageCurrent \in [Managed -> BOOLEAN]
  /\ managed \in [Managed -> [exists : BOOLEAN, ref : ConfigNames]]
  /\ queue \subseteq Configs /\ timers \subseteq Configs
  /\ rec \in [step : {"idle", "list", "account", "status"}, config : Configs \cup {<<>>},
              pc : Config, current : BOOLEAN, stale : SUBSET Managed, users : 0 .. Cardinality(Managed)]
  /\ edits \in 0 .. MaxEdits /\ faults \in 0 .. MaxFaults

Using(c) == {m \in Managed : Home[m] = c[1] /\ usages[m].ref = c[2]}

AtRest == /\ queue = {} /\ timers = {} /\ rec.step = "idle"
          /\ \A c \in Configs : cachedCurrent[c]
          /\ \A m \in Managed : usageCurrent[m]

\* At rest the status of every config says how many managed resources use it, and
\* the usages without a controller have been deleted, although a usage may change
\* its config, come and go between any two reads of the reconciler.
UsersCounted ==
  AtRest => /\ \A c \in Configs : configs[c].exists => configs[c].users = Cardinality(Using(c))
            /\ \A m \in Managed : usages[m].ref # NoConfig /\ ~usages[m].controlled =>
                 ~configs[<<Home[m], usages[m].ref>>].exists

\* A deleted config stays only while a usage names it: at rest there is one, and
\* the config says that it is terminating.
BlockedOnlyByUsages ==
  AtRest => \A c \in Configs : configs[c].deleted =>
    configs[c].terminating /\ \E m \in Managed : usages[m].ref = c[2]

\* A config whose status counts users has the finalizer: it is never in use by its
\* own account and free to go, whichever of the two updates failed.
CountedIsProtected ==
  \A c \in Configs : configs[c].users > 0 => configs[c].finalizer

\* A deleted config whose usages have gone for good goes too.
DeletedConfigGoes ==
  \A c \in Configs : (configs[c].deleted /\ [](Using(c) = {})) ~> ~configs[c].exists

\* "ensuring it cannot be deleted until it is no longer in use".
NeverRemovedInUse ==
  [][\A c \in Configs : configs[c].finalizer /\ ~configs'[c].exists => Using(c) = {}]_vars
=============================================================================
