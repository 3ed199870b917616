------------------------ MODULE ProviderConfigProofs ------------------------
(***************************************************************************)
(* A config that counts users has the finalizer, for any configs, managed  *)
(* resources, namespaces, edits and failures.  The reconciler writes a     *)
(* copy it has read some time ago, so the copies in the cache and in the   *)
(* reconcile have to be as sound as the config itself.  In one namespace,  *)
(* the status of every config is right at rest.                            *)
(***************************************************************************)
EXTENDS ProviderConfig, FiniteSetTheorems, TLAPS

\* Neither counting users nor being deleted without the finalizer.
Sound(o) == (o.users > 0 \/ o.deleted) => o.finalizer

Request == [step : {"idle", "list", "account", "status"}, config : Configs \cup {<<>>},
            pc : Config, current : BOOLEAN, stale : SUBSET Managed, users : 0 .. Cardinality(Managed)]

ConfigsSound == \A c \in Configs : Sound(configs[c]) /\ Sound(cached[c])

\* The status is written from a copy that has the finalizer.
RequestSound == /\ rec.step # "idle" => rec.config \in Configs
                /\ Sound(rec.pc)
                /\ rec.step = "status" => rec.pc.finalizer

IInv == TypeOK /\ ConfigsSound /\ RequestSound

\* The number of managed resources is a number.
LEMMA ManagedCount == Cardinality(Managed) \in Nat
  BY ConfigAssumption, FS_CardinalityType

\* The usages of a config that List counts are at most the managed resources.
LEMMA CountsManaged ==
  ASSUME NEW S \in SUBSET Managed PROVE Cardinality(S) \in 0 .. Cardinality(Managed)
<1>1. IsFiniteSet(S) /\ Cardinality(S) <= Cardinality(Managed)
  BY ConfigAssumption, FS_Subset
<1>2. QED BY <1>1, ManagedCount, FS_CardinalityType

\* No config is a sound config.
LEMMA NoObjectSound == NoObject \in Config /\ Sound(NoObject)
  BY ManagedCount DEF NoObject, Config, Sound

\* Neither does a config that has just been created count users.
LEMMA NewSound == [NoObject EXCEPT !.exists = TRUE] \in Config /\ Sound([NoObject EXCEPT !.exists = TRUE])
<1>1. NoObject.users = 0 /\ NoObject.deleted = FALSE
  BY DEF NoObject
<1>2. [NoObject EXCEPT !.exists = TRUE] \in Config
  BY NoObjectSound, Zenon DEF Config
<1>3. Sound([NoObject EXCEPT !.exists = TRUE])
  BY <1>1, NoObjectSound DEF Config, Sound
<1>4. QED BY <1>2, <1>3

\* A worker without a request has a sound one.
LEMMA IdleSound == Idle \in Request /\ Idle.step = "idle" /\ Sound(Idle.pc)
<1>1. Idle.step = "idle" /\ Idle.pc = NoObject
  BY DEF Idle
<1>2. Idle \in Request
  BY NoObjectSound, ManagedCount DEF Idle, Request
<1>3. QED BY <1>1, <1>2, NoObjectSound

\* What an update stores: the API server removes a deleted config that has no finalizer left.
LEMMA StoreKeeps ==
  ASSUME IInv, NEW c \in Configs, NEW o \in Config, o.users > 0 => o.finalizer \/ o.deleted, Store(c, o)
  PROVE  /\ configs' \in [Configs -> Config] /\ cached' \in [Configs -> Config]
         /\ cachedCurrent' \in [Configs -> BOOLEAN] /\ ConfigsSound'
<1> DEFINE p == IF o.deleted /\ ~o.finalizer THEN NoObject ELSE o
<1>1. p \in Config /\ Sound(p)
  BY NoObjectSound DEF Sound
<1>2. configs' = [configs EXCEPT ![c] = p] /\ cached' = cached
  BY DEF Store
<1>3. cachedCurrent' \in [Configs -> BOOLEAN]
  BY DEF Store, IInv, TypeOK
<1>4. configs \in [Configs -> Config] /\ cached \in [Configs -> Config]
  BY DEF IInv, TypeOK
<1> HIDE DEF p
<1>5. configs' \in [Configs -> Config] /\ \A d \in Configs : Sound(configs'[d])
  BY <1>1, <1>2, <1>4 DEF IInv, ConfigsSound
<1>6. QED BY <1>2, <1>3, <1>4, <1>5 DEF IInv, ConfigsSound

ServerSound == /\ configs \in [Configs -> Config] /\ cached \in [Configs -> Config]
               /\ cachedCurrent \in [Configs -> BOOLEAN] /\ ConfigsSound

UsagesTyped == /\ usages \in [Managed -> Usage] /\ cachedUsages \in [Managed -> Usage]
               /\ usageCurrent \in [Managed -> BOOLEAN]
               /\ managed \in [Managed -> [exists : BOOLEAN, ref : ConfigNames]]

QueuesTyped == queue \subseteq Configs /\ timers \subseteq Configs

Counted == edits \in 0 .. MaxEdits /\ faults \in 0 .. MaxFaults

\* The invariant, as its parts that the actions change.
LEMMA Parts == IInv <=> (ServerSound /\ UsagesTyped /\ QueuesTyped /\ rec \in Request /\ RequestSound /\ Counted)
  BY DEF IInv, TypeOK, ServerSound, UsagesTyped, QueuesTyped, Request, Counted

\* The same of the state after a step.
LEMMA NextParts == IInv' <=> (ServerSound /\ UsagesTyped /\ QueuesTyped /\ rec \in Request /\ RequestSound /\ Counted)'
  BY DEF IInv, TypeOK, ServerSound, UsagesTyped, QueuesTyped, Request, Counted

\* Return leaves the worker idle and queues configs.
LEMMA ReturnKeeps ==
  ASSUME QueuesTyped, NEW again \in SUBSET Configs, NEW after \in SUBSET Configs, Return(again, after)
  PROVE  QueuesTyped' /\ rec' \in Request /\ RequestSound'
<1>1. rec' = Idle /\ QueuesTyped'
  BY DEF Return, QueuesTyped
<1>2. QED BY <1>1, IdleSound DEF RequestSound

\* A failure is counted.
LEMMA FaultKeeps == ASSUME Counted, Fault, UNCHANGED edits PROVE Counted'
  BY ConfigAssumption DEF Counted, Fault

\* What is left alone stays as it is.
LEMMA Unchanged ==
  /\ ServerSound /\ UNCHANGED server => ServerSound'
  /\ UsagesTyped /\ UNCHANGED usage => UsagesTyped'
  /\ QueuesTyped /\ UNCHANGED <<queue, timers>> => QueuesTyped'
  /\ rec \in Request /\ RequestSound /\ UNCHANGED rec => rec' \in Request /\ RequestSound'
  /\ Counted /\ UNCHANGED <<edits, faults>> => Counted'
  BY DEF ServerSound, ConfigsSound, server, UsagesTyped, usage, QueuesTyped, RequestSound, Counted

\* Get starts with the copy in the cache.
LEMMA GetKeeps == ASSUME IInv, NEW c \in Configs, Get(c) PROVE IInv'
<1>1. QueuesTyped' /\ ServerSound' /\ UsagesTyped' /\ Counted'
  BY Parts, Unchanged DEF Get, QueuesTyped
<1>2. cached[c] \in Config /\ cachedCurrent[c] \in BOOLEAN /\ Sound(cached[c])
  BY DEF IInv, TypeOK, ConfigsSound
<1> DEFINE r == [Idle EXCEPT !.step = "list", !.config = c, !.pc = cached[c], !.current = cachedCurrent[c]]
<1>3. r \in Request /\ r.step = "list" /\ r.config = c /\ r.pc = cached[c]
  BY <1>2, IdleSound, Zenon DEF Request
<1>4. rec' \in {Idle, r}
  BY DEF Get
<1> HIDE DEF r
<1>5. rec' \in Request /\ RequestSound'
  BY <1>2, <1>3, <1>4, IdleSound DEF RequestSound
<1>6. QED BY <1>1, <1>5, NextParts

\* List counts usages, or fails.
LEMMA ListKeeps == ASSUME IInv, List PROVE IInv'
<1>1. ServerSound' /\ UsagesTyped' /\ rec \in Request /\ RequestSound /\ rec.config \in Configs
  BY Parts, Unchanged DEF List, RequestSound
<1>2. CASE Fault /\ Return({}, {rec.config})
  BY <1>1, <1>2, Parts, NextParts, ReturnKeeps, FaultKeeps DEF List
<1>3. CASE ~(Fault /\ Return({}, {rec.config}))
  <2> DEFINE all == Matching(cachedUsages, rec.config)
  <2> DEFINE stale == {m \in all : ~cachedUsages[m].controlled}
  <2>1. /\ rec' = [rec EXCEPT !.step = "account", !.users = Cardinality(all \ stale), !.stale = stale]
        /\ UNCHANGED <<queue, timers, faults, edits>>
    BY <1>3 DEF List
  <2>2. stale \subseteq Managed /\ all \ stale \subseteq Managed
    BY DEF Matching
  <2>3. Cardinality(all \ stale) \in 0 .. Cardinality(Managed)
    BY <2>2, CountsManaged
  <2> HIDE DEF all, stale
  <2>4. rec' \in Request /\ rec'.step = "account" /\ rec'.config = rec.config /\ rec'.pc = rec.pc
    BY <1>1, <2>1, <2>2, <2>3, Zenon DEF Request
  <2>5. RequestSound'
    BY <1>1, <2>4 DEF RequestSound
  <2>6. QED BY <1>1, <2>1, <2>4, <2>5, Parts, NextParts, Unchanged
<1>4. QED BY <1>2, <1>3

\* DeleteStale deletes a usage, or fails.
LEMMA DeleteStaleKeeps == ASSUME IInv, DeleteStale PROVE IInv'
<1>1. ServerSound' /\ rec \in Request /\ RequestSound /\ rec.config \in Configs
  BY Parts, Unchanged DEF DeleteStale, RequestSound
<1>2. PICK m \in rec.stale :
        \/ /\ usages' = [usages EXCEPT ![m] = NoUsage]
           /\ usageCurrent' = [usageCurrent EXCEPT ![m] = @ /\ usages[m] = NoUsage]
           /\ rec' = [rec EXCEPT !.stale = @ \ {m}]
           /\ UNCHANGED <<cachedUsages, managed, queue, timers, faults>>
        \/ Fault /\ Return({}, {rec.config}) /\ UNCHANGED usage
  BY DEF DeleteStale
<1>3. CASE Fault /\ Return({}, {rec.config}) /\ UNCHANGED usage
  BY <1>1, <1>3, Parts, NextParts, ReturnKeeps, FaultKeeps, Unchanged DEF DeleteStale
<1>4. CASE ~(Fault /\ Return({}, {rec.config}) /\ UNCHANGED usage)
  <2>1. UsagesTyped'
    <3>1. UsagesTyped /\ NoUsage \in Usage
      BY Parts DEF NoUsage, Usage
    <3>2. /\ usages' = [usages EXCEPT ![m] = NoUsage] /\ UNCHANGED <<cachedUsages, managed>>
          /\ usageCurrent' = [usageCurrent EXCEPT ![m] = @ /\ usages[m] = NoUsage]
      BY <1>2, <1>4
    <3>3. QED BY <3>1, <3>2, Zenon DEF UsagesTyped
  <2>2. rec' \in Request /\ rec'.step = rec.step /\ rec'.config = rec.config /\ rec'.pc = rec.pc
    BY <1>1, <1>2, <1>4 DEF Request
  <2>3. RequestSound' /\ UNCHANGED <<queue, timers, edits, faults>>
    BY <1>1, <1>2, <1>4, <2>2 DEF RequestSound, DeleteStale
  <2>4. QED BY <1>1, <2>1, <2>2, <2>3, Parts, NextParts, Unchanged
<1>5. QED BY <1>3, <1>4

\* Finalize removes the finalizer of a deleted config, which goes with it; a config in use keeps
\* it, and its copy has it too.
LEMMA FinalizeKeeps == ASSUME IInv, Finalize PROVE IInv'
<1>1. /\ UsagesTyped' /\ rec \in Request /\ RequestSound /\ rec.config \in Configs /\ rec.pc \in Config
      /\ rec.pc.deleted /\ UNCHANGED edits
  BY Parts, Unchanged DEF Finalize, RequestSound, Request
<1>2. CASE rec' = [rec EXCEPT !.step = "status"] /\ UNCHANGED <<server, queue, timers, faults>>
  <2>1. rec' \in Request /\ rec'.step = "status" /\ rec'.config = rec.config /\ rec'.pc = rec.pc
    BY <1>1, <1>2 DEF Request
  <2>2. RequestSound'
    BY <1>1, <2>1 DEF RequestSound, Sound
  <2>3. QED BY <1>1, <1>2, <2>1, <2>2, Parts, NextParts, Unchanged
<1>3. CASE Return({}, {}) /\ UNCHANGED faults /\ Store(rec.config, [rec.pc EXCEPT !.finalizer = FALSE])
  <2> DEFINE o == [rec.pc EXCEPT !.finalizer = FALSE]
  <2>1. o \in Config /\ o.deleted
    BY <1>1, Zenon DEF Config
  <2> HIDE DEF o
  <2>2. ServerSound'
    BY <1>1, <1>3, <2>1, StoreKeeps, Zenon DEF ServerSound, o
  <2>3. QED BY <1>1, <1>3, <2>2, Parts, NextParts, ReturnKeeps, Unchanged
<1>4. CASE Return({}, {rec.config}) /\ UNCHANGED <<server, faults>>
  BY <1>1, <1>4, Parts, NextParts, ReturnKeeps, Unchanged
<1>5. CASE Fault /\ Return({}, {rec.config}) /\ UNCHANGED server
  BY <1>1, <1>5, Parts, NextParts, ReturnKeeps, FaultKeeps, Unchanged
<1>6. QED BY <1>2, <1>3, <1>4, <1>5 DEF Finalize

\* AddFinalizer adds the finalizer to the config and to the copy, before the users are written.
LEMMA AddFinalizerKeeps == ASSUME IInv, AddFinalizer PROVE IInv'
<1>1. /\ UsagesTyped' /\ rec \in Request /\ RequestSound /\ rec.config \in Configs /\ rec.pc \in Config
      /\ UNCHANGED edits
  BY Parts, Unchanged DEF AddFinalizer, RequestSound, Request
<1>2. CASE /\ Store(rec.config, [rec.pc EXCEPT !.finalizer = TRUE])
           /\ rec' = [rec EXCEPT !.step = "status", !.current = TRUE, !.pc.finalizer = TRUE]
           /\ UNCHANGED <<queue, timers, faults>>
  <2> DEFINE o == [rec.pc EXCEPT !.finalizer = TRUE]
  <2>1. o \in Config /\ o.finalizer
    BY <1>1, Zenon DEF Config
  <2>2. rec' = [rec EXCEPT !.step = "status", !.current = TRUE, !.pc = o]
    BY <1>1, <1>2 DEF Request
  <2> HIDE DEF o
  <2>3. ServerSound'
    BY <1>1, <1>2, <2>1, StoreKeeps, Zenon DEF ServerSound, o
  <2>4. rec' \in Request /\ rec'.config = rec.config /\ rec'.pc = o
    BY <1>1, <2>1, <2>2, Zenon DEF Request
  <2>5. RequestSound'
    BY <1>1, <2>1, <2>4 DEF RequestSound, Sound
  <2>6. QED BY <1>1, <1>2, <2>3, <2>4, <2>5, Parts, NextParts, Unchanged
<1>3. CASE Return({}, {rec.config}) /\ UNCHANGED <<server, faults>>
  BY <1>1, <1>3, Parts, NextParts, ReturnKeeps, Unchanged
<1>4. CASE Fault /\ Return({}, {rec.config}) /\ UNCHANGED server
  BY <1>1, <1>4, Parts, NextParts, ReturnKeeps, FaultKeeps, Unchanged
<1>5. QED BY <1>2, <1>3, <1>4 DEF AddFinalizer

\* UpdateStatus writes the users with the finalizer of the copy.
LEMMA UpdateStatusKeeps == ASSUME IInv, UpdateStatus PROVE IInv'
<1>1. /\ UsagesTyped' /\ rec \in Request /\ RequestSound /\ rec.config \in Configs /\ rec.pc \in Config
      /\ rec.pc.finalizer /\ UNCHANGED edits
  BY Parts, Unchanged DEF UpdateStatus, RequestSound, Request
<1>2. CASE /\ Return({}, {}) /\ UNCHANGED faults
           /\ Store(rec.config, [rec.pc EXCEPT !.users = rec.users, !.terminating = @ \/ rec.pc.deleted])
  <2> DEFINE o == [rec.pc EXCEPT !.users = rec.users, !.terminating = @ \/ rec.pc.deleted]
  <2>1. rec.users \in 0 .. Cardinality(Managed) /\ (rec.pc.terminating \/ rec.pc.deleted) \in BOOLEAN
    BY <1>1 DEF Request, Config
  <2>2. o \in Config /\ o.finalizer
    BY <1>1, <2>1, Zenon DEF Config
  <2> HIDE DEF o
  <2>3. ServerSound'
    BY <1>1, <1>2, <2>2, StoreKeeps, Zenon DEF ServerSound, o
  <2>4. QED BY <1>1, <1>2, <2>3, Parts, NextParts, ReturnKeeps, Unchanged
<1>3. CASE Return({rec.config}, {}) /\ UNCHANGED <<server, faults>>
  BY <1>1, <1>3, Parts, NextParts, ReturnKeeps, Unchanged
<1>4. CASE Fault /\ Return({rec.config}, {}) /\ UNCHANGED server
  BY <1>1, <1>4, Parts, NextParts, ReturnKeeps, FaultKeeps, Unchanged
<1>5. QED BY <1>2, <1>3, <1>4 DEF UpdateStatus

\* The informer of configs and the timers only queue configs and copy them.
LEMMA EventsKeep ==
  ASSUME IInv, NEW c \in Configs, ConfigSync(c) \/ ShortWait(c) PROVE IInv'
<1>1. ServerSound /\ QueuesTyped /\ rec \in Request /\ RequestSound /\ UsagesTyped' /\ Counted
  BY Parts, Unchanged DEF ConfigSync, ShortWait
<1>2. CASE ConfigSync(c)
  <2>1. ServerSound' /\ QueuesTyped'
    BY <1>1, <1>2 DEF ConfigSync, ServerSound, ConfigsSound, QueuesTyped
  <2>2. QED BY <1>1, <1>2, <2>1, NextParts, Unchanged DEF ConfigSync
<1>3. CASE ShortWait(c)
  <2>1. QueuesTyped'
    BY <1>1, <1>3 DEF ShortWait, QueuesTyped
  <2>2. QED BY <1>1, <1>3, <2>1, NextParts, Unchanged DEF ShortWait
<1>4. QED BY <1>2, <1>3

\* A user marks a config as deleted if it has the finalizer, removes it if not, or creates one.
LEMMA UserWritesKeep ==
  ASSUME IInv, NEW c \in Configs, NEW o \in Config, Sound(o), UserWrites(c, o)
  PROVE  ServerSound' /\ UsagesTyped' /\ QueuesTyped' /\ rec' \in Request /\ RequestSound'
<1>1. ServerSound /\ rec \in Request /\ RequestSound /\ UsagesTyped' /\ QueuesTyped'
  BY Parts, Unchanged DEF UserWrites
<1>2. ServerSound'
  BY <1>1 DEF UserWrites, ServerSound, ConfigsSound
<1>3. rec' \in Request /\ rec'.step = rec.step /\ rec'.config = rec.config /\ rec'.pc = rec.pc
  BY <1>1, Zenon DEF UserWrites, Request
<1>4. QED BY <1>1, <1>2, <1>3 DEF RequestSound

\* Every edit of a user is bounded, and leaves configs sound.
LEMMA EditKeeps == ASSUME IInv, Edit PROVE IInv'
<1>1. ServerSound /\ UsagesTyped /\ QueuesTyped /\ rec \in Request /\ RequestSound /\ Counted
  BY Parts
<1>2. UNCHANGED faults => Counted'
  BY <1>1, ConfigAssumption DEF Edit, Counted
<1>3. ASSUME NEW c \in Configs, DeleteConfig(c) PROVE IInv'
  <2> DEFINE o == IF configs[c].finalizer THEN [configs[c] EXCEPT !.deleted = TRUE] ELSE NoObject
  <2>1. o \in Config /\ Sound(o)
    BY <1>1, NoObjectSound, Zenon DEF ServerSound, Config, Sound
  <2>2. UserWrites(c, o)
    BY <1>3 DEF DeleteConfig
  <2> HIDE DEF o
  <2>3. QED BY <1>2, <2>1, <2>2, UserWritesKeep, NextParts, Zenon DEF UserWrites
<1>4. ASSUME NEW c \in Configs, CreateConfig(c) PROVE IInv'
  <2> DEFINE o == [NoObject EXCEPT !.exists = TRUE]
  <2>1. o \in Config /\ Sound(o)
    BY NewSound
  <2>2. UserWrites(c, o)
    BY <1>4 DEF CreateConfig
  <2> HIDE DEF o
  <2>3. QED BY <1>2, <2>1, <2>2, UserWritesKeep, NextParts, Zenon DEF UserWrites
<1>5. ASSUME NEW m \in Managed, ManagedChanges(m) PROVE IInv'
  <2>1. UsagesTyped'
    <3>1. CASE managed' = [managed EXCEPT ![m].exists = FALSE] /\ UNCHANGED <<usages, usageCurrent>>
      BY <1>1, <1>5, <3>1, Zenon DEF ManagedChanges, UsagesTyped
    <3>2. CASE /\ \E n \in ConfigNames \ {managed[m].ref} : managed' = [managed EXCEPT ![m].ref = n]
               /\ UNCHANGED <<usages, usageCurrent>>
      BY <1>1, <1>5, <3>2 DEF ManagedChanges, UsagesTyped
    <3>3. CASE /\ UNCHANGED managed /\ usages' = [usages EXCEPT ![m].controlled = FALSE]
               /\ usageCurrent' = [usageCurrent EXCEPT ![m] = FALSE]
      <4>1. UNCHANGED cachedUsages
        BY <1>5 DEF ManagedChanges
      <4>2. usages[m] \in Usage
        BY <1>1 DEF UsagesTyped
      <4>3. [usages[m] EXCEPT !.controlled = FALSE] \in Usage
        BY <4>2, Zenon DEF Usage
      <4>4. usages' \in [Managed -> Usage]
        BY <1>1, <3>3, <4>3 DEF UsagesTyped
      <4>5. usageCurrent' \in [Managed -> BOOLEAN]
        BY <1>1, <3>3 DEF UsagesTyped
      <4>6. QED BY <1>1, <3>3, <4>1, <4>4, <4>5 DEF UsagesTyped
    <3>4. QED BY <1>5, <3>1, <3>2, <3>3 DEF ManagedChanges
  <2>2. QED BY <1>1, <1>2, <1>5, <2>1, NextParts, Unchanged DEF ManagedChanges
<1>6. QED BY <1>3, <1>4, <1>5 DEF Edit

\* Usages come, change and go, and are copied to the cache of the reconciler.
LEMMA UsagesKeep ==
  ASSUME IInv, NEW m \in Managed, Track(m) \/ UsageSync(m) \/ CollectUsage(m) PROVE IInv'
<1>1. /\ ServerSound' /\ UsagesTyped /\ QueuesTyped /\ rec' \in Request /\ RequestSound' /\ Counted'
      /\ NoUsage \in Usage
  BY Parts, Unchanged DEF Track, UsageSync, CollectUsage, NoUsage, Usage
<1>2. CASE Track(m)
  <2>1. [ref |-> managed[m].ref, controlled |-> TRUE] \in Usage
    BY <1>1 DEF UsagesTyped, Usage
  <2>2. UsagesTyped' /\ QueuesTyped'
    BY <1>1, <1>2, <2>1 DEF Track, UsagesTyped, QueuesTyped
  <2>3. QED BY <1>1, <2>2, NextParts
<1>3. CASE UsageSync(m)
  <2>1. \A u \in Usage : addProviderConfig(m, u) \subseteq Configs
    BY ConfigAssumption DEF addProviderConfig, Usage, Configs
  <2>2. UsagesTyped' /\ QueuesTyped'
    BY <1>1, <1>3, <2>1 DEF UsageSync, UsagesTyped, QueuesTyped
  <2>3. QED BY <1>1, <2>2, NextParts
<1>4. CASE CollectUsage(m)
  <2>1. UsagesTyped' /\ QueuesTyped'
    BY <1>1, <1>4 DEF CollectUsage, UsagesTyped, QueuesTyped
  <2>2. QED BY <1>1, <2>1, NextParts
<1>5. QED BY <1>2, <1>3, <1>4

\* Every config exists at first, and nothing is cached.
LEMMA InitSound == Init => IInv
<1> SUFFICES ASSUME Init PROVE IInv
  OBVIOUS
<1>1. ServerSound
  BY NewSound, NoObjectSound, Zenon DEF Init, ServerSound, ConfigsSound
<1>2. UsagesTyped
  BY Zenon DEF Init, UsagesTyped, NoUsage, Usage
<1>3. QueuesTyped /\ rec \in Request /\ RequestSound /\ Counted
  BY IdleSound, ConfigAssumption DEF Init, QueuesTyped, RequestSound, Counted
<1>4. QED BY <1>1, <1>2, <1>3, Parts

\* Every step keeps the invariant.
LEMMA NextKeeps == IInv /\ [Next]_vars => IInv'
<1> SUFFICES ASSUME IInv, [Next]_vars PROVE IInv'
  OBVIOUS
<1>1. CASE Reconcile
  BY <1>1, GetKeeps, ListKeeps, DeleteStaleKeeps, FinalizeKeeps, AddFinalizerKeeps, UpdateStatusKeeps DEF Reconcile
<1>2. CASE UNCHANGED vars
  BY <1>2, Parts, NextParts, Unchanged DEF vars
<1>3. CASE Crash
  <2>1. ServerSound' /\ UsagesTyped' /\ Counted'
    BY <1>3, Parts, FaultKeeps, Unchanged DEF Crash
  <2>2. QueuesTyped' /\ rec' = Idle
    BY <1>3, Parts DEF Crash, QueuesTyped
  <2>3. QED BY <2>1, <2>2, IdleSound, NextParts DEF RequestSound
<1>4. QED BY <1>1, <1>2, <1>3, EventsKeep, EditKeeps, UsagesKeep DEF Next

\* The variables of the ProviderConfig reconciler hold values of their kinds, for any configs,
\* managed resources and numbers of edits and failures.
THEOREM TypeCorrect == Spec => []TypeOK
<1>1. IInv => TypeOK
  BY DEF IInv
<1>2. QED BY <1>1, InitSound, NextKeeps, PTL DEF Spec

\* A config that counts users has the finalizer, whatever usages and users do meanwhile,
\* whichever update fails, and wherever the process stops.
THEOREM CountedProtected == Spec => []CountedIsProtected
<1>1. IInv => CountedIsProtected
  BY DEF IInv, ConfigsSound, Sound, CountedIsProtected
<1>2. QED BY <1>1, InitSound, NextKeeps, PTL DEF Spec
-----------------------------------------------------------------------------
(* The status at rest, for kinds that live in one namespace (or in none):  *)
(* List finds usages by the name of their config alone.                    *)

OneNamespace == \A n, k \in Namespaces : n = k

\* The usages of config c that the reconciler counts, and those it deletes, by its cache.
Live(c, known) == {m \in Managed : known[m].ref = c[2] /\ known[m].controlled}

Lost(c, known) == {m \in Managed : known[m].ref = c[2] /\ ~known[m].controlled}

\* A copy that is current is the object.
Fresh == /\ \A c \in Configs : cachedCurrent[c] => cached[c] = configs[c]
         /\ \A m \in Managed : usageCurrent[m] => cachedUsages[m] = usages[m]
         /\ rec.step # "idle" /\ rec.current => rec.pc = configs[rec.config]

\* Nothing is under way that would reconcile config c.
Rests(c, q, t, r, current) == c \notin q /\ c \notin t /\ (r.step = "idle" \/ r.config # c) /\ current[c]

\* The status of config c, given as o, says what the cache does, but for deletions of usages that
\* the cache has not seen.
RightStatus(c, o, known, current) ==
  o.exists => /\ o.users = Cardinality(Live(c, known))
              /\ \A m \in Lost(c, known) : ~current[m]
              /\ o.deleted => o.terminating /\ o.users > 0

\* The reconcile has counted what the cache has, unless its config is queued again.
RightCount(r, q, known, current) ==
  /\ r.config \notin q => /\ r.users = Cardinality(Live(r.config, known))
                          /\ \A m \in Lost(r.config, known) : m \in r.stale \/ ~current[m]
  /\ r.step = "status" => r.stale = {} /\ (r.pc.deleted => r.users > 0)

Settled == \A c \in Configs : Rests(c, queue, timers, rec, cachedCurrent) =>
                                RightStatus(c, configs[c], cachedUsages, usageCurrent)

Accounts == rec.step \in {"account", "status"} => RightCount(rec, queue, cachedUsages, usageCurrent)

DeletedExist == \A c \in Configs : configs[c].deleted => configs[c].exists

AInv == Fresh /\ Settled /\ Accounts /\ DeletedExist

\* Get begins to work on the config, or leaves one that does not exist.
LEMMA GetAccounts == ASSUME IInv, AInv, NEW c \in Configs, Get(c) PROVE AInv'
<1> DEFINE r == [Idle EXCEPT !.step = "list", !.config = c, !.pc = cached[c], !.current = cachedCurrent[c]]
<1>1. r.step = "list" /\ r.config = c /\ r.pc = cached[c] /\ r.current = cachedCurrent[c]
  BY DEF Idle
<1>2. /\ rec' = IF cached[c].exists THEN r ELSE Idle
      /\ rec.step = "idle" /\ queue' = queue \ {c}
      /\ UNCHANGED <<configs, cached, cachedCurrent, usages, cachedUsages, usageCurrent, timers>>
  BY DEF Get, server, usage
<1> HIDE DEF r
<1>3. Fresh'
  BY <1>1, <1>2, IdleSound DEF AInv, Fresh
<1>4. Accounts'
  BY <1>1, <1>2, IdleSound DEF Accounts
<1>5. ASSUME NEW d \in Configs, Rests(d, queue', timers, rec', cachedCurrent)
      PROVE  RightStatus(d, configs[d], cachedUsages, usageCurrent)
  <2>1. CASE d = c
    <3>1. ~cached[c].exists /\ cachedCurrent[c]
      BY <1>1, <1>2, <1>5, <2>1 DEF Rests
    <3>2. QED BY <2>1, <3>1 DEF AInv, Fresh, RightStatus
  <2>2. CASE d # c
    BY <1>2, <1>5, <2>2 DEF AInv, Settled, Rests
  <2>3. QED BY <2>1, <2>2
<1>6. QED BY <1>2, <1>3, <1>4, <1>5 DEF AInv, Settled, DeletedExist

\* A reconcile that ends keeps everything, if its config is queued again, waits for a timer, has
\* been changed or has the right status.
LEMMA ReturnAccounts ==
  ASSUME IInv, AInv, NEW again \in SUBSET Configs, NEW after \in SUBSET Configs, Return(again, after),
         UNCHANGED <<server, usage>>, rec.step # "idle", rec.config \in again \cup after
  PROVE  AInv'
<1>1. /\ rec'.step = "idle" /\ queue' = queue \cup again /\ timers' = timers \cup after
      /\ UNCHANGED <<configs, cached, cachedCurrent, usages, cachedUsages, usageCurrent>>
  BY IdleSound DEF Return, server, usage
<1>2. \A c \in Configs : Rests(c, queue', timers', rec', cachedCurrent) => Rests(c, queue, timers, rec, cachedCurrent)
  BY <1>1 DEF Rests
<1>3. QED BY <1>1, <1>2, Zenon DEF AInv, Fresh, Settled, Accounts, DeletedExist

\* List counts the usages in the cache that have a controller.
LEMMA ListAccounts == ASSUME IInv, AInv, List PROVE AInv'
<1>1. rec \in Request /\ RequestSound /\ rec.config \in Configs /\ rec.step = "list" /\ UNCHANGED <<server, usage>>
  BY Parts DEF List, RequestSound
<1>2. CASE Fault /\ Return({}, {rec.config})
  BY <1>1, <1>2, ReturnAccounts
<1>3. CASE ~(Fault /\ Return({}, {rec.config}))
  <2> DEFINE all == Matching(cachedUsages, rec.config)
  <2> DEFINE stale == {m \in all : ~cachedUsages[m].controlled}
  <2>1. /\ rec' = [rec EXCEPT !.step = "account", !.users = Cardinality(all \ stale), !.stale = stale]
        /\ UNCHANGED <<queue, timers>>
    BY <1>3 DEF List
  <2>2. all \ stale = Live(rec.config, cachedUsages) /\ stale = Lost(rec.config, cachedUsages)
    BY DEF Matching, Live, Lost
  <2> HIDE DEF all, stale
  <2>3. /\ rec'.step = "account" /\ rec'.config = rec.config /\ rec'.pc = rec.pc /\ rec'.current = rec.current
        /\ rec'.users = Cardinality(Live(rec.config, cachedUsages)) /\ rec'.stale = Lost(rec.config, cachedUsages)
    BY <1>1, <2>1, <2>2, Zenon DEF Request
  <2>4. Accounts'
    BY <1>1, <2>3 DEF Accounts, RightCount, usage
  <2>5. QED BY <1>1, <2>1, <2>3, <2>4 DEF AInv, Fresh, Settled, Rests, DeletedExist, server, usage
<1>4. QED BY <1>2, <1>3

\* A usage that changes in the API server is not current in the cache.
LEMMA UsageChanges ==
  ASSUME AInv, UNCHANGED <<server, cachedUsages, queue, timers, rec>>,
         \A m \in Managed : usageCurrent'[m] => usageCurrent[m] /\ usages'[m] = usages[m]
  PROVE  AInv'
<1>1. Fresh' /\ DeletedExist'
  BY DEF AInv, Fresh, DeletedExist, server
<1>2. ASSUME NEW c \in Configs, Rests(c, queue, timers, rec, cachedCurrent)
      PROVE  RightStatus(c, configs[c], cachedUsages, usageCurrent')
  <2>1. RightStatus(c, configs[c], cachedUsages, usageCurrent)
    BY <1>2 DEF AInv, Settled
  <2>2. QED BY <2>1 DEF RightStatus, Lost
<1>3. Accounts'
  BY DEF AInv, Accounts, RightCount, Lost
<1>4. QED BY <1>1, <1>2, <1>3 DEF AInv, Settled, server

\* DeleteStale deletes the usage in the API server; the cache has yet to see it.
LEMMA DeleteStaleAccounts == ASSUME IInv, AInv, DeleteStale PROVE AInv'
<1>1. rec \in Request /\ RequestSound /\ rec.config \in Configs /\ rec.step = "account" /\ UNCHANGED server
  BY Parts DEF DeleteStale, RequestSound
<1>2. PICK m \in rec.stale :
        \/ /\ usages' = [usages EXCEPT ![m] = NoUsage]
           /\ usageCurrent' = [usageCurrent EXCEPT ![m] = @ /\ usages[m] = NoUsage]
           /\ rec' = [rec EXCEPT !.stale = @ \ {m}]
           /\ UNCHANGED <<cachedUsages, managed, queue, timers, faults>>
        \/ Fault /\ Return({}, {rec.config}) /\ UNCHANGED usage
  BY DEF DeleteStale
<1>3. CASE Fault /\ Return({}, {rec.config}) /\ UNCHANGED usage
  BY <1>1, <1>3, ReturnAccounts
<1>4. CASE ~(Fault /\ Return({}, {rec.config}) /\ UNCHANGED usage)
  <2>1. /\ usages' = [usages EXCEPT ![m] = NoUsage] /\ UNCHANGED <<cachedUsages, queue, timers>>
        /\ usageCurrent' = [usageCurrent EXCEPT ![m] = @ /\ usages[m] = NoUsage]
    BY <1>2, <1>4
  <2>2. /\ rec'.step = "account" /\ rec'.config = rec.config /\ rec'.pc = rec.pc /\ rec'.current = rec.current
        /\ rec'.users = rec.users /\ rec'.stale = rec.stale \ {m} /\ m \in Managed
    BY <1>1, <1>2, <1>4 DEF Request
  <2>3. usages \in [Managed -> Usage] /\ usageCurrent \in [Managed -> BOOLEAN]
    BY DEF IInv, TypeOK
  <2>4. \A k \in Managed : usageCurrent'[k] => usageCurrent[k] /\ usages'[k] = usages[k]
    BY <2>1, <2>2, <2>3, Zenon
  <2>5. Fresh'
    BY <1>1, <2>1, <2>2, <2>4 DEF AInv, Fresh, server
  <2>6. ASSUME NEW c \in Configs, Rests(c, queue, timers, rec', cachedCurrent)
        PROVE  RightStatus(c, configs[c], cachedUsages, usageCurrent')
    <3>1. RightStatus(c, configs[c], cachedUsages, usageCurrent)
      BY <1>1, <2>2, <2>6 DEF AInv, Settled, Rests
    <3>2. QED BY <2>4, <3>1 DEF RightStatus, Lost
  <2>7. ASSUME rec.config \notin queue, NEW k \in Lost(rec.config, cachedUsages), usageCurrent'[k]
        PROVE  k \in rec'.stale
    <3>1. k \in Managed /\ cachedUsages[k].ref = rec.config[2]
      BY DEF Lost
    <3>2. k \in rec.stale
      BY <1>1, <2>4, <2>7, <3>1 DEF AInv, Accounts, RightCount
    <3>3. rec.config[2] # NoConfig
      BY <1>1, ConfigAssumption DEF Configs
    <3>4. usages[k] # NoUsage
      BY <2>4, <2>7, <3>1, <3>3 DEF AInv, Fresh, NoUsage
    <3>5. k # m
      BY <2>1, <2>3, <2>7, <3>1, <3>4, Zenon
    <3>6. QED BY <2>2, <3>2, <3>5
  <2>8. Accounts'
    BY <1>1, <2>1, <2>2, <2>7 DEF AInv, Accounts, RightCount
  <2>9. QED BY <1>1, <2>1, <2>5, <2>6, <2>8, Zenon DEF AInv, Settled, DeletedExist, server
<1>5. QED BY <1>3, <1>4

\* An update changes one config; if the cached copy stays current, it changes nothing.
LEMMA StoreAccounts ==
  ASSUME IInv, AInv, NEW c \in Configs, NEW o \in Config, o.exists, Store(c, o)
  PROVE  /\ DeletedExist'
         /\ \A d \in Configs : cachedCurrent'[d] => cached'[d] = configs'[d]
         /\ \A d \in Configs : d # c => configs'[d] = configs[d] /\ cachedCurrent'[d] = cachedCurrent[d]
         /\ cachedCurrent'[c] => cachedCurrent[c] /\ o = configs[c] /\ configs'[c] = o
         /\ configs'[c] = IF o.deleted /\ ~o.finalizer THEN NoObject ELSE o
<1> DEFINE p == IF o.deleted /\ ~o.finalizer THEN NoObject ELSE o
<1>1. /\ configs' = [configs EXCEPT ![c] = p] /\ cached' = cached
      /\ cachedCurrent' = [cachedCurrent EXCEPT ![c] = @ /\ o = configs[c]]
  BY DEF Store
<1>2. configs \in [Configs -> Config] /\ cachedCurrent \in [Configs -> BOOLEAN]
  BY DEF IInv, TypeOK
<1>3. p.deleted => p.exists
  BY DEF NoObject
<1>4. o = configs[c] => p = o
  BY DEF IInv, ConfigsSound, Sound
<1>5. p = IF o.deleted /\ ~o.finalizer THEN NoObject ELSE o
  OBVIOUS
<1> HIDE DEF p
<1>6. DeletedExist'
  BY <1>1, <1>2, <1>3 DEF AInv, DeletedExist
<1>7. /\ \A d \in Configs : d # c => configs'[d] = configs[d] /\ cachedCurrent'[d] = cachedCurrent[d]
      /\ cachedCurrent'[c] => cachedCurrent[c] /\ o = configs[c] /\ configs'[c] = o
      /\ configs'[c] = p
  BY <1>1, <1>2, <1>4, Zenon
<1>8. \A d \in Configs : cachedCurrent'[d] => cached'[d] = configs'[d]
  BY <1>1, <1>7 DEF AInv, Fresh
<1>9. QED BY <1>5, <1>6, <1>7, <1>8

\* Finalize removes the config, waits if it cannot, or goes on to a status that says why not.
LEMMA FinalizeAccounts == ASSUME IInv, AInv, Finalize PROVE AInv'
<1>1. /\ rec \in Request /\ RequestSound /\ rec.config \in Configs /\ rec.pc \in Config
      /\ rec.pc.deleted /\ rec.step = "account" /\ rec.stale = {} /\ UNCHANGED usage
  BY Parts DEF Finalize, RequestSound, Request
<1>2. CASE rec.users > 0 /\ rec' = [rec EXCEPT !.step = "status"] /\ UNCHANGED <<server, queue, timers, faults>>
  <2>1. /\ rec'.step = "status" /\ rec'.config = rec.config /\ rec'.pc = rec.pc /\ rec'.current = rec.current
        /\ rec'.users = rec.users /\ rec'.stale = rec.stale
    BY <1>1, <1>2 DEF Request
  <2>2. Accounts'
    BY <1>1, <1>2, <2>1 DEF AInv, Accounts, RightCount, usage
  <2>3. QED BY <1>1, <1>2, <2>1, <2>2 DEF AInv, Fresh, Settled, Rests, DeletedExist, server, usage
<1>3. CASE Accepts /\ Return({}, {}) /\ Store(rec.config, [rec.pc EXCEPT !.finalizer = FALSE])
  <2> DEFINE o == [rec.pc EXCEPT !.finalizer = FALSE]
  <2>1. rec.pc = configs[rec.config] /\ configs[rec.config].exists
    BY <1>1, <1>3 DEF Accepts, AInv, Fresh
  <2>2. o \in Config /\ o.deleted /\ ~o.finalizer /\ o.exists
    BY <1>1, <2>1, Zenon DEF Config
  <2>3. Store(rec.config, o)
    BY <1>3
  <2> HIDE DEF o
  <2>4. /\ rec'.step = "idle" /\ queue' = queue /\ timers' = timers /\ ~configs'[rec.config].exists
        /\ UNCHANGED <<usages, cachedUsages, usageCurrent>>
    BY <1>1, <1>3, <2>2, <2>3, StoreAccounts, IdleSound DEF Return, NoObject, usage
  <2>5. ASSUME NEW d \in Configs, Rests(d, queue', timers', rec', cachedCurrent')
        PROVE  RightStatus(d, configs'[d], cachedUsages, usageCurrent)
    <3>1. CASE d = rec.config
      BY <2>4, <3>1 DEF RightStatus
    <3>2. CASE d # rec.config
      BY <1>1, <2>2, <2>3, <2>4, <2>5, <3>2, StoreAccounts DEF AInv, Settled, Rests
    <3>3. QED BY <3>1, <3>2
  <2>6. Fresh' /\ DeletedExist'
    BY <1>1, <2>2, <2>3, <2>4, StoreAccounts DEF AInv, Fresh
  <2>7. QED BY <2>4, <2>5, <2>6 DEF AInv, Settled, Accounts
<1>4. CASE Return({}, {rec.config}) /\ UNCHANGED server
  BY <1>1, <1>4, ReturnAccounts
<1>5. QED BY <1>2, <1>3, <1>4 DEF Finalize

\* AddFinalizer leaves a copy that is the config.
LEMMA AddFinalizerAccounts == ASSUME IInv, AInv, AddFinalizer PROVE AInv'
<1>1. /\ rec \in Request /\ RequestSound /\ rec.config \in Configs /\ rec.pc \in Config
      /\ ~rec.pc.deleted /\ rec.step = "account" /\ rec.stale = {} /\ UNCHANGED usage
  BY Parts DEF AddFinalizer, RequestSound, Request
<1>2. CASE /\ Accepts /\ Store(rec.config, [rec.pc EXCEPT !.finalizer = TRUE])
           /\ rec' = [rec EXCEPT !.step = "status", !.current = TRUE, !.pc.finalizer = TRUE]
           /\ UNCHANGED <<queue, timers, faults>>
  <2> DEFINE o == [rec.pc EXCEPT !.finalizer = TRUE]
  <2>1. rec.pc = configs[rec.config] /\ configs[rec.config].exists
    BY <1>1, <1>2 DEF Accepts, AInv, Fresh
  <2>2. o \in Config /\ ~o.deleted /\ o.finalizer /\ o.exists
    BY <1>1, <2>1, Zenon DEF Config
  <2>3. Store(rec.config, o) /\ rec' = [rec EXCEPT !.step = "status", !.current = TRUE, !.pc = o]
    BY <1>1, <1>2 DEF Request
  <2> HIDE DEF o
  <2>4. /\ rec'.step = "status" /\ rec'.config = rec.config /\ rec'.pc = o
        /\ rec'.users = rec.users /\ rec'.stale = rec.stale
        /\ UNCHANGED <<usages, cachedUsages, usageCurrent, queue, timers>>
    BY <1>1, <1>2, <2>2, <2>3, Zenon DEF Request, usage
  <2>5. configs'[rec.config] = o
    BY <1>1, <2>2, <2>3, StoreAccounts
  <2>6. Fresh' /\ DeletedExist'
    BY <1>1, <2>2, <2>3, <2>4, <2>5, StoreAccounts DEF AInv, Fresh
  <2>7. Accounts'
    <3>1. RightCount(rec, queue, cachedUsages, usageCurrent)
      BY <1>1 DEF AInv, Accounts
    <3>2. RightCount(rec', queue, cachedUsages, usageCurrent)
      BY <1>1, <2>2, <2>4, <3>1 DEF RightCount
    <3>3. QED BY <2>4, <3>2 DEF Accounts
  <2>8. ASSUME NEW d \in Configs, Rests(d, queue', timers', rec', cachedCurrent')
        PROVE  RightStatus(d, configs'[d], cachedUsages, usageCurrent)
    <3>1. d # rec.config
      BY <2>4, <2>8 DEF Rests
    <3>2. QED BY <1>1, <2>2, <2>3, <2>4, <2>8, <3>1, StoreAccounts DEF AInv, Settled, Rests
  <2>9. QED BY <2>4, <2>6, <2>7, <2>8 DEF AInv, Settled
<1>3. CASE Return({}, {rec.config}) /\ UNCHANGED server
  BY <1>1, <1>3, ReturnAccounts
<1>4. QED BY <1>2, <1>3 DEF AddFinalizer

\* UpdateStatus writes what was counted; if that is what the status said, the config is settled,
\* and else its change comes back through the cache.
LEMMA UpdateStatusAccounts == ASSUME IInv, AInv, UpdateStatus PROVE AInv'
<1>1. /\ rec \in Request /\ RequestSound /\ rec.config \in Configs /\ rec.pc \in Config
      /\ rec.step = "status" /\ rec.pc.finalizer /\ UNCHANGED usage
  BY Parts DEF UpdateStatus, RequestSound, Request
<1>2. CASE /\ Accepts /\ Return({}, {})
           /\ Store(rec.config, [rec.pc EXCEPT !.users = rec.users, !.terminating = @ \/ rec.pc.deleted])
  <2> DEFINE o == [rec.pc EXCEPT !.users = rec.users, !.terminating = @ \/ rec.pc.deleted]
  <2>1. rec.pc = configs[rec.config] /\ configs[rec.config].exists
    BY <1>1, <1>2 DEF Accepts, AInv, Fresh
  <2>2. rec.users \in 0 .. Cardinality(Managed) /\ (rec.pc.terminating \/ rec.pc.deleted) \in BOOLEAN
    BY <1>1 DEF Request, Config
  <2>3. /\ o \in Config /\ o.exists /\ o.finalizer /\ o.users = rec.users /\ o.deleted = rec.pc.deleted
        /\ o.deleted => o.terminating
    BY <1>1, <2>1, <2>2, Zenon DEF Config
  <2>4. Store(rec.config, o)
    BY <1>2
  <2> HIDE DEF o
  <2>5. /\ rec'.step = "idle" /\ queue' = queue /\ timers' = timers
        /\ UNCHANGED <<usages, cachedUsages, usageCurrent>>
    BY <1>1, <1>2, IdleSound DEF Return, usage
  <2>6. Fresh' /\ DeletedExist'
    BY <1>1, <2>3, <2>4, <2>5, StoreAccounts DEF AInv, Fresh
  <2>7. ASSUME NEW d \in Configs, Rests(d, queue', timers', rec', cachedCurrent')
        PROVE  RightStatus(d, configs'[d], cachedUsages, usageCurrent)
    <3>1. CASE d = rec.config
      <4>1. configs'[d] = o
        BY <1>1, <2>3, <2>4, <2>7, <3>1, StoreAccounts DEF Rests
      <4>2. d \notin queue
        BY <2>5, <2>7 DEF Rests
      <4>3. RightCount(rec, queue, cachedUsages, usageCurrent)
        BY <1>1 DEF AInv, Accounts
      <4>4. QED BY <1>1, <2>3, <3>1, <4>1, <4>2, <4>3 DEF RightCount, RightStatus
    <3>2. CASE d # rec.config
      BY <1>1, <2>3, <2>4, <2>5, <2>7, <3>2, StoreAccounts DEF AInv, Settled, Rests
    <3>3. QED BY <3>1, <3>2
  <2>8. QED BY <2>5, <2>6, <2>7 DEF AInv, Settled, Accounts
<1>3. CASE Return({rec.config}, {}) /\ UNCHANGED server
  BY <1>1, <1>3, ReturnAccounts
<1>4. QED BY <1>2, <1>3 DEF UpdateStatus

\* Every change of a config is seen by the cache, and queues it; a timer queues it too.
LEMMA EventsAccount ==
  ASSUME IInv, AInv, NEW c \in Configs, ConfigSync(c) \/ ShortWait(c) PROVE AInv'
<1>0. cached \in [Configs -> Config] /\ cachedCurrent \in [Configs -> BOOLEAN]
  BY DEF IInv, TypeOK
<1>1. CASE ConfigSync(c)
  <2>1. /\ \A d \in Configs : cachedCurrent'[d] => cached'[d] = configs[d]
        /\ \A d \in Configs : d # c => cachedCurrent'[d] = cachedCurrent[d]
        /\ queue' = queue \cup {c}
        /\ UNCHANGED <<configs, usages, cachedUsages, usageCurrent, timers, rec>>
    BY <1>0, <1>1 DEF ConfigSync, AInv, Fresh, usage
  <2>2. \A d \in Configs : Rests(d, queue', timers, rec, cachedCurrent') => Rests(d, queue, timers, rec, cachedCurrent)
    BY <2>1 DEF Rests
  <2>3. Accounts'
    BY <2>1 DEF AInv, Accounts, RightCount
  <2>4. QED BY <2>1, <2>2, <2>3 DEF AInv, Fresh, Settled, DeletedExist
<1>2. CASE ShortWait(c)
  <2>1. /\ queue' = queue \cup {c} /\ timers' = timers \ {c}
        /\ UNCHANGED <<configs, cached, cachedCurrent, usages, cachedUsages, usageCurrent, rec>>
    BY <1>2 DEF ShortWait, server, usage
  <2>2. \A d \in Configs : Rests(d, queue', timers', rec, cachedCurrent) => Rests(d, queue, timers, rec, cachedCurrent)
    BY <2>1 DEF Rests
  <2>3. Accounts'
    BY <2>1 DEF AInv, Accounts, RightCount
  <2>4. QED BY <2>1, <2>2, <2>3, Zenon DEF AInv, Fresh, Settled, DeletedExist
<1>3. QED BY <1>1, <1>2

\* After a crash every config in the cache is queued; one that is current and not there has gone.
LEMMA CrashAccounts == ASSUME IInv, AInv, Crash PROVE AInv'
<1>1. /\ rec'.step = "idle" /\ timers' = {} /\ queue' = queue \cup {c \in Configs : cached[c].exists}
      /\ UNCHANGED <<configs, cached, cachedCurrent, usages, cachedUsages, usageCurrent>>
  BY IdleSound DEF Crash, server, usage
<1>2. ASSUME NEW c \in Configs, Rests(c, queue', timers', rec', cachedCurrent)
      PROVE  ~configs[c].exists
  BY <1>1, <1>2 DEF Rests, AInv, Fresh
<1>3. QED BY <1>1, <1>2 DEF AInv, Fresh, Settled, RightStatus, Accounts, DeletedExist

\* What a user writes is not current in the cache, nor in the reconcile.
LEMMA UserWritesAccount ==
  ASSUME IInv, AInv, NEW c \in Configs, NEW o \in Config, o.deleted => o.exists, UserWrites(c, o)
  PROVE  AInv'
<1>1. rec \in Request /\ RequestSound /\ configs \in [Configs -> Config] /\ cachedCurrent \in [Configs -> BOOLEAN]
  BY Parts DEF ServerSound
<1>2. /\ configs' = [configs EXCEPT ![c] = o] /\ cachedCurrent' = [cachedCurrent EXCEPT ![c] = FALSE]
      /\ rec' = IF rec.config = c THEN [rec EXCEPT !.current = FALSE] ELSE rec
      /\ UNCHANGED <<cached, usages, cachedUsages, usageCurrent, queue, timers>>
  BY DEF UserWrites, usage
<1>3. /\ rec'.step = rec.step /\ rec'.config = rec.config /\ rec'.pc = rec.pc /\ rec'.stale = rec.stale
      /\ rec'.users = rec.users /\ rec'.current => rec.current /\ rec.config # c
  BY <1>1, <1>2 DEF Request
<1>4. Fresh'
  BY <1>1, <1>2, <1>3 DEF AInv, Fresh, RequestSound
<1>5. DeletedExist'
  BY <1>1, <1>2 DEF AInv, DeletedExist
<1>6. Accounts'
  BY <1>2, <1>3 DEF AInv, Accounts, RightCount
<1>7. ASSUME NEW d \in Configs, Rests(d, queue, timers, rec', cachedCurrent')
      PROVE  RightStatus(d, configs'[d], cachedUsages, usageCurrent)
  <2>1. d # c
    BY <1>1, <1>2, <1>7 DEF Rests
  <2>2. QED BY <1>1, <1>2, <1>3, <1>7, <2>1 DEF AInv, Settled, Rests
<1>8. QED BY <1>2, <1>4, <1>5, <1>6, <1>7, Zenon DEF AInv, Settled

\* Users change configs and managed resources.
LEMMA EditAccounts == ASSUME IInv, AInv, Edit PROVE AInv'
<1>1. ASSUME NEW c \in Configs, DeleteConfig(c) PROVE AInv'
  <2> DEFINE o == IF configs[c].finalizer THEN [configs[c] EXCEPT !.deleted = TRUE] ELSE NoObject
  <2>1. configs[c] \in Config /\ configs[c].exists
    BY <1>1 DEF DeleteConfig, IInv, TypeOK
  <2>2. o \in Config /\ (o.deleted => o.exists)
    BY <2>1, NoObjectSound, Zenon DEF Config, NoObject
  <2>3. UserWrites(c, o)
    BY <1>1 DEF DeleteConfig
  <2> HIDE DEF o
  <2>4. QED BY <2>2, <2>3, UserWritesAccount
<1>2. ASSUME NEW c \in Configs, CreateConfig(c) PROVE AInv'
  <2> DEFINE o == [NoObject EXCEPT !.exists = TRUE]
  <2>1. o \in Config /\ (o.deleted => o.exists)
    BY NewSound DEF NoObject
  <2>2. UserWrites(c, o)
    BY <1>2 DEF CreateConfig
  <2> HIDE DEF o
  <2>3. QED BY <2>1, <2>2, UserWritesAccount
<1>3. ASSUME NEW m \in Managed, ManagedChanges(m) PROVE AInv'
  <2>1. usages \in [Managed -> Usage] /\ usageCurrent \in [Managed -> BOOLEAN]
    BY DEF IInv, TypeOK
  <2>2. \A k \in Managed : usageCurrent'[k] => usageCurrent[k] /\ usages'[k] = usages[k]
    BY <1>3, <2>1 DEF ManagedChanges
  <2>3. QED BY <1>3, <2>2, UsageChanges DEF ManagedChanges
<1>4. QED BY <1>1, <1>2, <1>3 DEF Edit

\* Usages change; the configs that a usage referred to and refers to are queued when the cache
\* sees it, and in one namespace these are all that List finds it for.
LEMMA UsagesAccount ==
  ASSUME OneNamespace, IInv, AInv, NEW m \in Managed, Track(m) \/ UsageSync(m) \/ CollectUsage(m) PROVE AInv'
<1>0. /\ usages \in [Managed -> Usage] /\ usageCurrent \in [Managed -> BOOLEAN]
      /\ cachedUsages \in [Managed -> Usage]
  BY SMTT(30) DEF IInv, TypeOK
<1>1. CASE Track(m) \/ CollectUsage(m)
  <2>1. \A k \in Managed : usageCurrent'[k] => usageCurrent[k] /\ usages'[k] = usages[k]
    BY <1>0, <1>1 DEF Track, CollectUsage
  <2>2. QED BY <1>1, <2>1, UsageChanges DEF Track, CollectUsage
<1>2. CASE UsageSync(m)
  <2>1. /\ cachedUsages' = [cachedUsages EXCEPT ![m] = usages[m]]
        /\ usageCurrent' = [usageCurrent EXCEPT ![m] = TRUE]
        /\ queue' = queue \cup addProviderConfig(m, cachedUsages[m]) \cup addProviderConfig(m, usages[m])
        /\ UNCHANGED <<configs, cached, cachedCurrent, usages, timers, rec>>
    BY <1>2 DEF UsageSync, server
  <2>2. ASSUME NEW c \in Configs, c \notin queue'
        PROVE  /\ c \notin queue
               /\ Live(c, cachedUsages') = Live(c, cachedUsages) /\ Lost(c, cachedUsages') = Lost(c, cachedUsages)
               /\ \A k \in Lost(c, cachedUsages) : usageCurrent'[k] = usageCurrent[k]
    <3>1. c = <<c[1], c[2]>> /\ c[1] = Home[m] /\ c[2] # NoConfig
      BY ConfigAssumption DEF Configs, OneNamespace
    <3>2. cachedUsages[m].ref # c[2] /\ usages[m].ref # c[2] /\ c \notin queue
      BY <2>1, <2>2, <3>1 DEF addProviderConfig
    <3>3. cachedUsages'[m] = usages[m] /\ \A k \in Managed : k # m => cachedUsages'[k] = cachedUsages[k]
      BY <1>0, <2>1
    <3>4. Live(c, cachedUsages') = Live(c, cachedUsages)
      BY <3>2, <3>3 DEF Live
    <3>5. Lost(c, cachedUsages') = Lost(c, cachedUsages) /\ m \notin Lost(c, cachedUsages)
      BY <3>2, <3>3 DEF Lost
    <3>6. QED BY <1>0, <2>1, <3>2, <3>4, <3>5, Zenon DEF Lost
  <2>3. Fresh' /\ DeletedExist'
    BY <1>0, <2>1 DEF AInv, Fresh, DeletedExist
  <2>4. ASSUME NEW c \in Configs, Rests(c, queue', timers, rec, cachedCurrent)
        PROVE  RightStatus(c, configs[c], cachedUsages', usageCurrent')
    <3>1. c \notin queue'
      BY <2>4 DEF Rests
    <3>2. RightStatus(c, configs[c], cachedUsages, usageCurrent)
      BY <2>2, <2>4, <3>1, SMTT(30) DEF AInv, Settled, Rests
    <3>3. QED BY <2>2, <3>1, <3>2 DEF RightStatus
  <2>5. Accounts'
    <3> SUFFICES ASSUME rec.step \in {"account", "status"}
                 PROVE  RightCount(rec, queue', cachedUsages', usageCurrent')
      BY <2>1 DEF Accounts
    <3>1. RightCount(rec, queue, cachedUsages, usageCurrent)
      BY DEF AInv, Accounts
    <3>2. rec.config \in Configs
      BY DEF IInv, RequestSound
    <3>3. QED BY <2>2, <3>1, <3>2 DEF RightCount
  <2>6. QED BY <2>1, <2>3, <2>4, <2>5, Zenon DEF AInv, Settled
<1>3. QED BY <1>1, <1>2

\* Every step keeps the accounts.
LEMMA NextAccounts == OneNamespace => (IInv /\ AInv /\ [Next]_vars => AInv')
<1> SUFFICES ASSUME OneNamespace, IInv, AInv, [Next]_vars PROVE AInv'
  OBVIOUS
<1>1. CASE Reconcile
  BY <1>1, GetAccounts, ListAccounts, DeleteStaleAccounts, FinalizeAccounts, AddFinalizerAccounts,
     UpdateStatusAccounts, SMTT(30) DEF Reconcile
<1>2. CASE UNCHANGED vars
  BY <1>2 DEF vars, server, usage, AInv, Fresh, Settled, Accounts, DeletedExist
<1>3. QED BY <1>1, <1>2, CrashAccounts, EventsAccount, EditAccounts, UsagesAccount DEF Next

\* No config is current in the cache at first, and nothing is counted.
LEMMA InitAccounts == Init => AInv
<1> SUFFICES ASSUME Init PROVE AInv
  OBVIOUS
<1>1. rec.step = "idle" /\ \A c \in Configs : ~cachedCurrent[c] /\ ~configs[c].deleted
  BY IdleSound DEF Init, NoObject
<1>2. \A m \in Managed : cachedUsages[m] = usages[m]
  BY DEF Init
<1>3. QED BY <1>1, <1>2 DEF AInv, Fresh, Settled, Rests, Accounts, DeletedExist

\* At rest every config has a right status, by the usages in the API server.
LEMMA RestsSettled ==
  ASSUME IInv, AInv, AtRest, NEW c \in Configs
  PROVE  /\ RightStatus(c, configs[c], usages, usageCurrent)
         /\ configs[c].exists => Lost(c, usages) = {} /\ Live(c, usages) = {m \in Managed : usages[m].ref = c[2]}
<1>1. cachedUsages = usages
  <2>1. cachedUsages \in [Managed -> Usage] /\ usages \in [Managed -> Usage]
    BY DEF IInv, TypeOK
  <2>2. \A m \in Managed : cachedUsages[m] = usages[m]
    BY DEF AInv, Fresh, AtRest
  <2>3. QED BY <2>1, <2>2
<1>2. RightStatus(c, configs[c], usages, usageCurrent)
  BY <1>1 DEF AInv, Settled, Rests, AtRest
<1>3. configs[c].exists => Lost(c, usages) = {}
  BY <1>2 DEF RightStatus, Lost, AtRest
<1>4. QED BY <1>2, <1>3 DEF Lost, Live

\* Where configs and managed resources share one namespace, the status of every config is right at
\* rest, for any configs, managed resources, edits, failures and crashes.
THEOREM CountsUsers == ASSUME OneNamespace PROVE Spec => []UsersCounted
<1>1. IInv /\ AInv => UsersCounted
  <2> SUFFICES ASSUME IInv, AInv, AtRest
               PROVE  /\ \A c \in Configs : configs[c].exists => configs[c].users = Cardinality(Using(c))
                      /\ \A m \in Managed : usages[m].ref # NoConfig /\ ~usages[m].controlled =>
                           ~configs[<<Home[m], usages[m].ref>>].exists
    BY DEF UsersCounted
  <2>1. ASSUME NEW c \in Configs, configs[c].exists PROVE configs[c].users = Cardinality(Using(c))
    <3>1. Using(c) = Live(c, usages)
      BY <2>1, RestsSettled, ConfigAssumption DEF Using, Configs, OneNamespace
    <3>2. QED BY <2>1, <3>1, RestsSettled DEF RightStatus
  <2>2. ASSUME NEW m \in Managed, usages[m].ref # NoConfig, ~usages[m].controlled
        PROVE  ~configs[<<Home[m], usages[m].ref>>].exists
    <3>1. usages[m] \in Usage /\ Home[m] \in Namespaces
      BY ConfigAssumption DEF IInv, TypeOK
    <3>2. <<Home[m], usages[m].ref>> \in Configs
      BY <2>2, <3>1 DEF Usage, Configs
    <3>3. m \in Lost(<<Home[m], usages[m].ref>>, usages)
      BY <2>2 DEF Lost
    <3>4. QED BY <3>2, <3>3, RestsSettled
  <2>3. QED BY <2>1, <2>2
<1>2. IInv /\ AInv /\ [Next]_vars => (IInv /\ AInv)'
  BY NextKeeps, NextAccounts
<1>3. Init => IInv /\ AInv
  BY InitSound, InitAccounts
<1>4. QED BY <1>1, <1>2, <1>3, PTL DEF Spec

\* There too, a deleted config that is still there at rest is in use and says so.
THEOREM BlockedByUsages == ASSUME OneNamespace PROVE Spec => []BlockedOnlyByUsages
<1>1. IInv /\ AInv => BlockedOnlyByUsages
  <2> SUFFICES ASSUME IInv, AInv, AtRest, NEW c \in Configs, configs[c].deleted
               PROVE  configs[c].terminating /\ \E m \in Managed : usages[m].ref = c[2]
    BY DEF BlockedOnlyByUsages
  <2>1. configs[c].exists
    BY DEF AInv, DeletedExist
  <2>2. configs[c].terminating /\ Cardinality(Live(c, usages)) > 0
    BY <2>1, RestsSettled DEF RightStatus
  <2>3. Live(c, usages) # {}
    BY <2>2, FS_EmptySet
  <2>4. QED BY <2>2, <2>3 DEF Live
<1>2. IInv /\ AInv /\ [Next]_vars => (IInv /\ AInv)'
  BY NextKeeps, NextAccounts
<1>3. Init => IInv /\ AInv
  BY InitSound, InitAccounts
<1>4. QED BY <1>1, <1>2, <1>3, PTL DEF Spec
=============================================================================
