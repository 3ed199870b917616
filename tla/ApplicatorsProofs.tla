-------------------------- MODULE ApplicatorsProofs --------------------------
(***************************************************************************)
(* What Apply leaves to others, for any owners, data and lag, and for any  *)
(* number of retries, edits and failures.                                  *)
(*                                                                         *)
(* The parts of the invariant have the state as parameters: the server's   *)
(* object s, the last version r it gave, and whether owners patch, p.      *)
(***************************************************************************)
EXTENDS Applicators, TLAPS

Fields == {"rv", "controller", "connection", "data"}

IsObject(o) == /\ o = [f \in Fields |-> o[f]] /\ o.rv \in Nat
               /\ o.controller \in Owners \cup {None} /\ o.connection \in BOOLEAN

\* A copy that has the version of the server's object is that object.
Known(o, s, r) == IsObject(o) /\ o.rv <= r /\ (Exists(o) /\ o.rv = s.rv => o = s)

\* What was known stays known, and a version that the server no longer has never comes back.
Later(s, r, t, q) == /\ \A x : Known(x, s, r) => Known(x, t, q)
                     /\ \A n \in 1 .. r : n # s.rv => n # t.rv

ServerSound(s, r, c) == /\ r \in Nat /\ Known(s, s, r) /\ Known(c, s, r)
                        /\ ~Exists(s) => s = NoObject

\* What an owner gives to Apply: an object of its own with the data d.
Own(o, d) == IsObject(o) /\ ~Exists(o) /\ o.data = d

\* A secret that a failed attempt has read.
Found(a, o, s, r) == Exists(o) /\ Known(o, s, r) /\ ConnectionSecretMustBeControllableBy(o, a)

\* What a publisher applies: its own secret, or one that a failed attempt has read.  The server no
\* longer has that one, unless the cache h still has it.
Wanted(a, o, d, s, r, h) == \/ Own(o, d) /\ o.connection
                            \/ Found(a, o, s, r) /\ (o.rv = s.rv => o = h)

Applies(a, o, d, p, s, r, h) == IF p THEN Wanted(a, o, d, s, r, h) ELSE Own(o, d)

\* What a patch is made of.  A secret that an earlier attempt has read is not written: the cache had
\* other data by then, so the server has another version.
Patches(a, o, d, s, r) == \/ Own(o, d) /\ o.connection
                          \/ Found(a, o, s, r) /\ o.rv # s.rv

\* What a write is made of: the options allowed it for the object that was read.
Allowed(a, c, p, s, r) ==
  /\ Known(c.read, s, r) /\ Exists(c.read)
  /\ IF p THEN ConnectionSecretMustBeControllableBy(c.read, a) /\ Patches(a, c.desired, c.given, s, r)
          ELSE /\ MustBeControllableBy(c.read, a)
               /\ IsObject(c.desired) /\ c.desired.rv = c.read.rv /\ c.desired.data = c.given

CallFields == {"step", "o", "desired", "read", "given", "tries", "result"}

\* The attempts of a call; the first is made of an object of the owner's.
Counted(c) == /\ c.step \in {"idle", "get", "create", "write"} /\ c.tries \in 0 .. Steps
              /\ c.step # "idle" => c.tries > 0
              /\ c.step = "get" /\ c.tries = 1 => ~Exists(c.o)

CallSound(a, c, p, s, r, h) == /\ c = [f \in CallFields |-> c[f]] /\ Counted(c)
                               /\ c.step # "idle" => Applies(a, c.o, c.given, p, s, r, h)
                               /\ c.step = "create" => c.read = NoObject
                               /\ c.step = "write" => Allowed(a, c, p, s, r)

CallsSound(cs, p, s, r, h) == /\ cs = [a \in Owners |-> cs[a]]
                              /\ \A a \in Owners : CallSound(a, cs[a], p, s, r, h)

IInv == /\ patching \in BOOLEAN /\ ServerSound(server, revision, cached)
        /\ CallsSound(calls, patching, server, revision, cached)

-----------------------------------------------------------------------------
(* Objects and their versions.                                             *)

\* An object that is given a version is otherwise the same.
LEMMA Versioned ==
  ASSUME NEW o, IsObject(o), NEW n \in Nat
  PROVE  LET p == [o EXCEPT !.rv = n]
         IN  /\ IsObject(p) /\ p.rv = n /\ p.controller = o.controller
             /\ p.connection = o.connection /\ p.data = o.data
  BY DEF IsObject, Fields

\* There is an object that is none.
LEMMA NoneIsObject == IsObject(NoObject) /\ ~Exists(NoObject)
  BY DEF IsObject, NoObject, Fields, Exists

\* What an owner applies at first is an object without a version.
LEMMA FreshIsObject ==
  ASSUME NEW c \in Owners \cup {None}, NEW b \in BOOLEAN, NEW d
  PROVE  LET o == [rv |-> 0, controller |-> c, connection |-> b, data |-> d]
         IN  Own(o, d) /\ o.connection = b
  BY DEF Own, IsObject, Fields, Exists

\* A new version is newer than all that are known: what is known stays known.
LEMMA StoreKeeps ==
  ASSUME ServerSound(server, revision, cached), NEW o, IsObject(o), Store(o)
  PROVE  ServerSound(server', revision', cached) /\ Later(server, revision, server', revision')
<1>1. CASE UNCHANGED <<server, revision, lag>>
  BY <1>1 DEF Later
<1>2. CASE revision' = revision + 1 /\ server' = [o EXCEPT !.rv = revision']
  <2>1. revision' \in Nat
    BY <1>2 DEF ServerSound
  <2>2. IsObject(server') /\ server'.rv = revision'
    BY <1>2, <2>1, Versioned
  <2>3. Later(server, revision, server', revision')
    BY <1>2, <2>2 DEF ServerSound, Known, IsObject, Later
  <2>4. Exists(server')
    BY <1>2, <2>2 DEF Exists, ServerSound
  <2>5. Known(cached, server', revision')
    BY <2>3 DEF ServerSound, Later
  <2> QED BY <2>1, <2>2, <2>3, <2>4, <2>5 DEF ServerSound, Known, IsObject
<1> QED BY <1>1, <1>2 DEF Store

\* A deletion leaves no version to have.
LEMMA DeletionKeeps ==
  ASSUME ServerSound(server, revision, cached)
  PROVE  ServerSound(NoObject, revision, cached) /\ Later(server, revision, NoObject, revision)
<1>1. Later(server, revision, NoObject, revision)
  BY NoneIsObject DEF Known, Exists, IsObject, Later
<1>2. Known(NoObject, NoObject, revision)
  BY NoneIsObject DEF ServerSound, Known, Exists, IsObject
<1> QED BY <1>1, <1>2 DEF ServerSound, Later

-----------------------------------------------------------------------------
(* Calls.                                                                  *)

\* A call stays sound while others write.
LEMMA CallKeeps ==
  ASSUME NEW a, NEW c, NEW p, NEW s, NEW r, NEW h, NEW t, NEW q,
         CallSound(a, c, p, s, r, h), Later(s, r, t, q)
  PROVE  CallSound(a, c, p, t, q, h)
<1>1. ASSUME NEW o, Exists(o), Known(o, s, r), o.rv # s.rv PROVE o.rv # t.rv
  BY <1>1 DEF Known, IsObject, Exists, Later
<1>2. \A o : Found(a, o, s, r) => Found(a, o, t, q)
  BY DEF Found, Later
<1>3. \A o, d : Wanted(a, o, d, s, r, h) => Wanted(a, o, d, t, q, h)
  BY <1>1, <1>2 DEF Wanted, Found
<1>4. \A o, d : Patches(a, o, d, s, r) => Patches(a, o, d, t, q)
  BY <1>1, <1>2 DEF Patches, Found
<1>5. Applies(a, c.o, c.given, p, s, r, h) => Applies(a, c.o, c.given, p, t, q, h)
  BY <1>3 DEF Applies
<1>6. Allowed(a, c, p, s, r) => Allowed(a, c, p, t, q)
  BY <1>4 DEF Allowed, Later
<1> QED BY <1>5, <1>6 DEF CallSound

\* So are all calls after a step of one of them.
LEMMA OneCallChanges ==
  ASSUME NEW p, NEW s, NEW r, NEW h, NEW t, NEW q, CallsSound(calls, p, s, r, h), Later(s, r, t, q),
         NEW a \in Owners, NEW d, CallSound(a, d, p, t, q, h)
  PROVE  CallsSound([calls EXCEPT ![a] = d], p, t, q, h)
<1> DEFINE next == [calls EXCEPT ![a] = d]
<1>1. next = [b \in Owners |-> IF b = a THEN d ELSE calls[b]]
  BY DEF CallsSound
<1>2. \A b \in Owners : CallSound(b, next[b], p, t, q, h)
  BY <1>1, CallKeeps DEF CallsSound
<1> QED BY <1>1, <1>2 DEF CallsSound

\* And after a step of none.
LEMMA NoCallChanges ==
  ASSUME NEW p, NEW s, NEW r, NEW h, NEW t, NEW q, CallsSound(calls, p, s, r, h), Later(s, r, t, q)
  PROVE  CallsSound(calls, p, t, q, h)
  BY CallKeeps DEF CallsSound

\* A call that has returned is sound.
LEMMA ReturnSound ==
  ASSUME NEW a, NEW result, NEW p, NEW s, NEW r, NEW h
  PROVE  CallSound(a, [Idle EXCEPT !.result = result], p, s, r, h)
  BY StepsAssumption DEF CallSound, Counted, Idle, CallFields

\* A call that fails returns or reads again, with the object it has by then.
LEMMA RetrySound ==
  ASSUME NEW t, NEW q, CallsSound(calls, patching, server, revision, cached), Later(server, revision, t, q),
         NEW a \in Owners, calls[a].step # "idle", \/ Retry(a, calls[a])
                                                   \/ \E result : Return(a, result)
  PROVE  CallsSound(calls', patching, t, q, cached)
<1> DEFINE c == calls[a]
           again == [c EXCEPT !.step = "get", !.tries = @ + 1]
<1>1. CallSound(a, c, patching, t, q, cached)
  BY CallKeeps DEF CallsSound
<1>2. ASSUME c.tries < Steps PROVE CallSound(a, again, patching, t, q, cached)
  <2>1. again = [f \in CallFields |-> IF f = "step" THEN "get" ELSE IF f = "tries" THEN c.tries + 1 ELSE c[f]]
    BY <1>1, Zenon DEF CallSound, CallFields
  <2>2. again.step = "get" /\ again.o = c.o /\ again.given = c.given /\ again.tries = c.tries + 1
    BY <2>1 DEF CallFields
  <2>3. Counted(again)
    BY <1>1, <1>2, <2>2, StepsAssumption DEF CallSound, Counted
  <2> QED BY <1>1, <2>1, <2>2, <2>3, Zenon DEF CallSound
<1>3. CASE c.tries < Steps /\ calls' = [calls EXCEPT ![a] = again]
  BY <1>2, <1>3, OneCallChanges, Zenon
<1>4. CASE \E result : Return(a, result)
  <2> PICK result : Return(a, result)
    BY <1>4
  <2>1. CallSound(a, [Idle EXCEPT !.result = result], patching, t, q, cached)
    BY ReturnSound
  <2> QED BY <2>1, OneCallChanges, Zenon DEF Return
<1> QED BY <1>3, <1>4 DEF Retry, Return

\* A failure is one of them.
LEMMA FaultSound ==
  ASSUME NEW t, NEW q, CallsSound(calls, patching, server, revision, cached), Later(server, revision, t, q),
         NEW a \in Owners, calls[a].step # "idle", Fault(a, calls[a])
  PROVE  CallsSound(calls', patching, t, q, cached)
  BY RetrySound DEF Fault

\* Nothing becomes unknown while nothing happens.
LEMMA LaterSame == ASSUME NEW s, NEW r PROVE Later(s, r, s, r)
  BY DEF Later

\* A call begins with an object of its caller.
LEMMA ApplyKeeps ==
  ASSUME IInv, NEW a \in Owners, NEW o, Own(o, data[a]), patching => o.connection, Apply(a, o)
  PROVE  IInv'
<1> DEFINE d == [Idle EXCEPT !.step = "get", !.o = o, !.given = data[a], !.tries = 1]
<1>1. d = [f \in CallFields |-> d[f]] /\ d.step = "get" /\ d.o = o /\ d.given = data[a] /\ d.tries = 1
  BY Zenon DEF Idle, CallFields
<1>2. Counted(d)
  BY <1>1, StepsAssumption DEF Counted, Own
<1>3. Applies(a, o, data[a], patching, server, revision, cached)
  BY DEF Applies, Wanted
<1>4. CallSound(a, d, patching, server, revision, cached)
  BY <1>1, <1>2, <1>3, Zenon DEF CallSound
<1>5. CallsSound(calls', patching, server, revision, cached)
  BY <1>4, LaterSame, OneCallChanges, Zenon DEF IInv, Apply
<1> QED BY <1>5 DEF IInv, Apply

\* The publishers and the trackers begin with an object that has no version yet.
LEMMA CallKeepsIInv ==
  ASSUME IInv, NEW a \in Owners, Call(a) PROVE IInv'
<1>1. CASE patching /\ Apply(a, ConnectionSecretFor(a))
  <2>1. Own(ConnectionSecretFor(a), data[a]) /\ ConnectionSecretFor(a).connection
    BY FreshIsObject, Zenon DEF ConnectionSecretFor
  <2> QED BY <1>1, <2>1, ApplyKeeps, Zenon
<1>2. CASE ~patching /\ Apply(a, UsageOf(a))
  <2>1. Own(UsageOf(a), data[a])
    BY FreshIsObject, Zenon DEF UsageOf
  <2> QED BY <1>2, <2>1, ApplyKeeps
<1> QED BY <1>1, <1>2
        DEF Call, PublishConnection, PublishLocalConnection, LocalConnectionSecretFor, Track, LegacyTrack

\* After the read a write is of what the options allowed.
LEMMA ReadSound ==
  ASSUME IInv, NEW a \in Owners, calls[a].step = "get", Exists(cached), Controllable(a),
         AllowUpdateIf(cached, calls[a].o)
  PROVE  CallSound(a, [Read(calls[a]) EXCEPT !.step = "write"], patching, server, revision, cached)
<1> DEFINE c == calls[a]
           d == [Read(c) EXCEPT !.step = "write"]
<1>1. /\ c = [f \in CallFields |-> c[f]] /\ Counted(c)
      /\ Applies(a, c.o, c.given, patching, server, revision, cached) /\ Known(cached, server, revision)
  BY DEF IInv, CallsSound, CallSound, ServerSound
<1>2. CASE patching
  <2>1. d = [f \in CallFields |-> IF f = "step" THEN "write" ELSE IF f = "o" THEN cached
                                  ELSE IF f = "desired" THEN c.o ELSE IF f = "read" THEN cached ELSE c[f]]
    BY <1>1, <1>2, Zenon DEF Read, CallFields
  <2>2. /\ d.step = "write" /\ d.o = cached /\ d.desired = c.o /\ d.read = cached
        /\ d.given = c.given /\ d.tries = c.tries
    BY <2>1 DEF CallFields
  <2>3. Wanted(a, c.o, c.given, server, revision, cached) /\ ConnectionSecretMustBeControllableBy(cached, a)
    BY <1>1, <1>2 DEF Applies, Controllable
  <2>4. Wanted(a, cached, c.given, server, revision, cached)
    BY <1>1, <2>3 DEF Wanted, Found
  <2>5. c.o # cached
    BY DEF AllowUpdateIf
  <2>6. Patches(a, c.o, c.given, server, revision)
    BY <2>3, <2>5 DEF Wanted, Patches
  <2>7. Counted(d)
    BY <1>1, <2>2 DEF Counted
  <2>8. Applies(a, d.o, d.given, patching, server, revision, cached) /\ Allowed(a, d, patching, server, revision)
    BY <1>1, <1>2, <2>2, <2>3, <2>4, <2>6, Zenon DEF Applies, Allowed
  <2> QED BY <2>1, <2>2, <2>7, <2>8, Zenon DEF CallSound
<1>3. CASE ~patching
  <2> DEFINE desired == [c.o EXCEPT !.rv = cached.rv]
  <2>1. d = [f \in CallFields |-> IF f = "step" THEN "write" ELSE IF f = "desired" THEN desired
                                  ELSE IF f = "read" THEN cached ELSE c[f]]
    BY <1>1, <1>3, Zenon DEF Read, CallFields
  <2>2. /\ d.step = "write" /\ d.o = c.o /\ d.desired = desired /\ d.read = cached
        /\ d.given = c.given /\ d.tries = c.tries
    BY <2>1 DEF CallFields
  <2>3. IsObject(desired) /\ desired.rv = cached.rv /\ desired.data = c.given
    <3>1. IsObject(c.o) /\ c.o.data = c.given /\ cached.rv \in Nat
      BY <1>1, <1>3 DEF Applies, Own, Known, IsObject
    <3> QED BY <3>1, Versioned
  <2>4. MustBeControllableBy(cached, a)
    BY <1>3 DEF Controllable
  <2>5. Counted(d)
    BY <1>1, <2>2 DEF Counted
  <2>6. Applies(a, d.o, d.given, patching, server, revision, cached)
    BY <1>1, <2>2
  <2>7. Allowed(a, d, patching, server, revision)
    BY <1>1, <1>3, <2>2, <2>3, <2>4, Zenon DEF Allowed
  <2> QED BY <2>1, <2>2, <2>5, <2>6, <2>7, Zenon DEF CallSound
<1> QED BY <1>2, <1>3

\* The first half of Apply: the call returns, fails, or goes on to create or to write.
LEMMA GetKeeps ==
  ASSUME IInv, NEW a \in Owners, Get(a) PROVE IInv'
<1> DEFINE c == calls[a]
<1>1. c.step = "get" /\ c.step # "idle"
  BY DEF Get
<1>2. UNCHANGED <<patching, server, revision, cached>> /\ Later(server, revision, server, revision)
  BY LaterSame DEF Get
<1>3. CallsSound(calls, patching, server, revision, cached)
  BY DEF IInv
<1>4. CASE \/ Fault(a, c) \/ \E result : Return(a, result)
  BY <1>1, <1>2, <1>3, <1>4, FaultSound, RetrySound DEF IInv
<1>5. CASE calls' = [calls EXCEPT ![a].step = "create", ![a].read = NoObject]
  <2> DEFINE d == [c EXCEPT !.step = "create", !.read = NoObject]
  <2>1. CallSound(a, c, patching, server, revision, cached)
    BY <1>3 DEF CallsSound
  <2>2. d = [f \in CallFields |-> IF f = "step" THEN "create" ELSE IF f = "read" THEN NoObject ELSE c[f]]
    BY <2>1, Zenon DEF CallSound, CallFields
  <2>3. d.step = "create" /\ d.o = c.o /\ d.read = NoObject /\ d.given = c.given /\ d.tries = c.tries
    BY <2>2 DEF CallFields
  <2>4. CallSound(a, d, patching, server, revision, cached)
    <3>1. Counted(d)
      BY <1>1, <2>1, <2>3 DEF CallSound, Counted
    <3> QED BY <1>1, <2>1, <2>2, <2>3, <3>1, Zenon DEF CallSound
  <2>5. calls' = [calls EXCEPT ![a] = d]
    BY <1>3, <1>5, Zenon DEF CallsSound
  <2> QED BY <1>2, <1>3, <2>4, <2>5, OneCallChanges, Zenon DEF IInv
<1>6. CASE /\ Exists(cached) /\ Controllable(a) /\ AllowUpdateIf(cached, c.o)
           /\ calls' = [calls EXCEPT ![a] = [Read(c) EXCEPT !.step = "write"]]
  BY <1>1, <1>2, <1>3, <1>6, ReadSound, OneCallChanges, Zenon DEF IInv
<1> QED BY <1>4, <1>5, <1>6 DEF Get

\* A write stores an object or none, and returns, fails or is tried again.
LEMMA WriteKeeps ==
  ASSUME IInv, NEW a \in Owners, calls[a].step # "idle", NEW accepted, NEW o, accepted => IsObject(o),
         Write(a, calls[a], accepted, o)
  PROVE  IInv'
<1>1. CallsSound(calls, patching, server, revision, cached) /\ ServerSound(server, revision, cached)
  BY DEF IInv
<1>2. UNCHANGED <<patching, cached>>
  BY DEF Write
<1>3. \/ Retry(a, calls[a]) \/ Fault(a, calls[a]) \/ Return(a, "published")
  BY DEF Write
<1>4. ASSUME NEW t, NEW q, Later(server, revision, t, q) PROVE CallsSound(calls', patching, t, q, cached)
  BY <1>1, <1>3, <1>4, RetrySound, FaultSound
<1>5. CASE accepted /\ Store(o)
  BY <1>1, <1>2, <1>4, <1>5, StoreKeeps DEF IInv
<1>6. CASE UNCHANGED <<server, revision, lag>>
  BY <1>1, <1>2, <1>4, <1>6, LaterSame DEF IInv
<1> QED BY <1>5, <1>6 DEF Write

\* What is written is an object: the one that is applied, or what a patch makes of it.
LEMMA WritesObjects ==
  ASSUME IInv, NEW a \in Owners
  PROVE  /\ calls[a].step = "create" => IsObject(calls[a].o)
         /\ calls[a].step = "write" => IsObject(calls[a].desired) /\ IsObject(Patched(calls[a].desired))
<1>1. CallSound(a, calls[a], patching, server, revision, cached)
  BY DEF IInv, CallsSound
<1>2. calls[a].step = "create" => IsObject(calls[a].o)
  BY <1>1 DEF CallSound, Applies, Wanted, Own, Found, Known
<1>3. calls[a].step = "write" => IsObject(calls[a].desired)
  BY <1>1 DEF CallSound, Allowed, Patches, Own, Found, Known
<1>4. \A x : IsObject(x) => IsObject(Patched(x))
  BY DEF IsObject, Patched, Fields
<1> QED BY <1>2, <1>3, <1>4

\* The second half of Apply.
LEMMA WritingKeeps ==
  ASSUME IInv, NEW a \in Owners, Create(a) \/ Patch(a) \/ Update(a) PROVE IInv'
<1>1. CASE Create(a)
  BY <1>1, WriteKeeps, WritesObjects DEF Create
<1>2. CASE Patch(a)
  BY <1>2, WriteKeeps, WritesObjects, Zenon DEF Patch
<1>3. CASE Update(a)
  BY <1>3, WriteKeeps, WritesObjects, Zenon DEF Update
<1> QED BY <1>1, <1>2, <1>3

\* Users store objects, or delete the one there is.
LEMMA UsersKeep ==
  ASSUME IInv, UserDeletes \/ UserCreates \/ UserOrphans \/ \E a \in Owners : DetailsChange(a) PROVE IInv'
<1>1. /\ CallsSound(calls, patching, server, revision, cached) /\ ServerSound(server, revision, cached)
      /\ UNCHANGED <<patching, cached, calls>>
  BY DEF IInv, UserDeletes, UserCreates, UserOrphans, DetailsChange, Edit
<1>2. CASE UserDeletes
  BY <1>1, <1>2, DeletionKeeps, NoCallChanges DEF IInv, UserDeletes
<1>3. ASSUME NEW o, IsObject(o), Store(o) PROVE IInv'
  BY <1>1, <1>3, StoreKeeps, NoCallChanges DEF IInv
<1>4. CASE UserCreates
  BY <1>3, <1>4, FreshIsObject DEF UserCreates, Own
<1>5. CASE UserOrphans
  <2>1. IsObject([server EXCEPT !.controller = None])
    BY <1>1 DEF ServerSound, Known, IsObject, Fields
  <2> QED BY <1>3, <1>5, <2>1 DEF UserOrphans
<1>6. CASE \E a \in Owners : DetailsChange(a)
  BY <1>1, <1>6 DEF IInv, DetailsChange
<1> QED BY <1>2, <1>4, <1>5, <1>6

\* The informer's copy becomes the server's object.
LEMMA SyncKeeps == ASSUME IInv, Sync PROVE IInv'
<1>1. ServerSound(server, revision, server)
  BY DEF IInv, ServerSound
<1>2. ASSUME NEW a \in Owners PROVE CallSound(a, calls[a], patching, server, revision, server)
  <2>1. CallSound(a, calls[a], patching, server, revision, cached)
    BY DEF IInv, CallsSound
  <2>2. \A o, d : Wanted(a, o, d, server, revision, cached) => Wanted(a, o, d, server, revision, server)
    BY DEF Wanted, Found, Known
  <2> QED BY <2>1, <2>2 DEF CallSound, Applies
<1>3. CallsSound(calls, patching, server, revision, server)
  BY <1>2 DEF IInv, CallsSound
<1> QED BY <1>1, <1>3 DEF IInv, Sync

\* Every step keeps the invariant.
LEMMA NextKeeps == ASSUME IInv, [Next]_vars PROVE IInv'
<1>1. CASE UNCHANGED vars
  BY <1>1 DEF IInv, vars
<1>2. ASSUME NEW a \in Owners, Work(a) PROVE IInv'
  BY <1>2, CallKeepsIInv, GetKeeps, WritingKeeps DEF Work
<1> QED BY <1>1, <1>2, SyncKeeps, UsersKeep DEF Next

\* At first the cache has the server's object and nobody applies anything.
LEMMA InitSound == Init => IInv
<1> SUFFICES ASSUME Init PROVE IInv
  OBVIOUS
<1>1. revision \in Nat /\ IsObject(server) /\ server.rv <= revision /\ (~Exists(server) => server = NoObject)
  <2>1. CASE server = NoObject
    BY <2>1, NoneIsObject DEF Init, IsObject, Exists
  <2>2. CASE server \in [rv : {1}, controller : Owners \cup {None}, connection : BOOLEAN, data : Data]
    BY <2>2 DEF Init, IsObject, Exists, Fields
  <2> QED BY <2>1, <2>2 DEF Init
<1>2. ServerSound(server, revision, cached)
  BY <1>1 DEF Init, ServerSound, Known
<1>3. Idle = [f \in CallFields |-> Idle[f]] /\ Idle.step = "idle" /\ Counted(Idle)
  BY StepsAssumption DEF Idle, CallFields, Counted
<1>4. CallsSound(calls, patching, server, revision, cached)
  BY <1>3 DEF Init, CallsSound, CallSound
<1> QED BY <1>2, <1>4 DEF IInv, Init

\* The invariant holds of every behaviour.
LEMMA Invariance == Spec => []IInv
  BY InitSound, NextKeeps, PTL DEF Spec

-----------------------------------------------------------------------------
(* What a write finds.                                                     *)

\* A step that changes the server's object and the call of an owner is a write of that owner's, and
\* the server accepted it.
LEMMA WritesAreAccepted ==
  ASSUME IInv, Next, NEW a \in Owners, Writes(a)
  PROVE  \/ calls[a].step = "create" /\ AcceptsCreate(calls[a].o)
         \/ /\ calls[a].step = "write" /\ patching
            /\ AcceptsPatch(calls[a].desired) /\ Store(Patched(calls[a].desired))
         \/ calls[a].step = "write" /\ ~patching /\ AcceptsUpdate(calls[a].desired)
<1>1. calls'[a] # calls[a] /\ server' # server /\ calls[a].step \in {"create", "write"}
  BY DEF Writes
<1>2. PICK b \in Owners : Work(b)
  BY <1>1 DEF Next, Sync, UserDeletes, UserCreates, UserOrphans, DetailsChange, Edit
<1>3. Create(b) \/ Patch(b) \/ Update(b)
  BY <1>1, <1>2 DEF Work, Call, PublishConnection, PublishLocalConnection, Track, LegacyTrack, Apply, Get
<1>4. \E d : calls' = [calls EXCEPT ![b] = d]
  BY <1>3 DEF Create, Patch, Update, Write, Retry, Fault, Return
<1>5. b = a
  BY <1>1, <1>4 DEF IInv, CallsSound
<1> QED BY <1>1, <1>3, <1>5 DEF Create, Patch, Update, Write, Store

\* An object that another owner controls is not taken by an update, and by a patch only if it
\* changed after it was read (MustBeControllableBy and ConnectionSecretMustBeControllableBy of
\* pkg/resource/resource.go).
THEOREM TakesNothing == Spec => NoTheft
<1>1. ASSUME IInv, [Next]_vars
      PROVE  [\A a \in Owners : Writes(a) /\ Exists(server) /\ server.controller \notin {a, None}
                => patching /\ server.rv # calls[a].read.rv]_vars
  <2> SUFFICES ASSUME Next, NEW a \in Owners, Writes(a), Exists(server), server.controller \notin {a, None}
               PROVE  patching /\ server.rv # calls[a].read.rv
    BY <1>1
  <2>1. calls[a].step = "write" /\ (patching \/ AcceptsUpdate(calls[a].desired))
    BY <1>1, WritesAreAccepted DEF AcceptsCreate
  <2>2. Allowed(a, calls[a], patching, server, revision)
    BY <1>1, <2>1 DEF IInv, CallsSound, CallSound
  <2>3. server.rv = calls[a].read.rv => server = calls[a].read
    BY <2>2 DEF Allowed, Known
  <2>4. CASE patching
    BY <2>2, <2>3, <2>4 DEF Allowed, ConnectionSecretMustBeControllableBy
  <2>5. CASE ~patching
    BY <2>1, <2>2, <2>3, <2>5 DEF Allowed, MustBeControllableBy, AcceptsUpdate
  <2> QED BY <2>4, <2>5
<1> QED BY <1>1, Invariance, PTL DEF Spec, NoTheft

\* An update replaces the object that its options saw (APIUpdatingApplicator of pkg/resource/api.go).
THEOREM LosesNoUpdate == Spec => NoLostUpdate
<1>1. ASSUME IInv, [Next]_vars PROVE [\A a \in Owners : Writes(a) /\ ~patching => server = calls[a].read]_vars
  <2> SUFFICES ASSUME Next, NEW a \in Owners, Writes(a), ~patching PROVE server = calls[a].read
    BY <1>1
  <2>1. CallSound(a, calls[a], patching, server, revision, cached) /\ ServerSound(server, revision, cached)
    BY <1>1 DEF IInv, CallsSound
  <2>2. CASE calls[a].step = "create" /\ AcceptsCreate(calls[a].o)
    BY <2>1, <2>2 DEF CallSound, ServerSound, AcceptsCreate
  <2>3. CASE calls[a].step = "write" /\ AcceptsUpdate(calls[a].desired)
    BY <2>1, <2>3 DEF CallSound, Allowed, Known, AcceptsUpdate
  <2> QED BY <1>1, <2>2, <2>3, WritesAreAccepted
<1> QED BY <1>1, Invariance, PTL DEF Spec, NoLostUpdate

\* A secret of a user's is never written to, although the patch has no version: the type of a secret
\* is immutable, and an attempt that read a secret without one patches that version only
\* (ConnectionSecretFor and ConnectionSecretMustBeControllableBy of pkg/resource/resource.go).
THEOREM LeavesUserSecrets == Spec => UserSecretsAreLeft
<1>1. ASSUME IInv, [Next]_vars
      PROVE  [\A a \in Owners : Writes(a) /\ patching /\ Exists(server)
                => server.controller # None \/ server.connection]_vars
  <2> SUFFICES ASSUME Next, NEW a \in Owners, Writes(a), patching, Exists(server)
               PROVE  server.controller # None \/ server.connection
    BY <1>1
  <2>1. calls[a].step = "write" /\ AcceptsPatch(calls[a].desired)
    BY <1>1, WritesAreAccepted DEF AcceptsCreate
  <2>2. Patches(a, calls[a].desired, calls[a].given, server, revision)
    BY <1>1, <2>1, Zenon DEF IInv, CallsSound, CallSound, Allowed
  <2> QED BY <2>1, <2>2 DEF Patches, Found, AcceptsPatch, Exists, Known, IsObject
<1> QED BY <1>1, Invariance, PTL DEF Spec, UserSecretsAreLeft

\* The server has the data it stored, whether they are new or not.
LEMMA StoredData ==
  ASSUME IInv, NEW o, IsObject(o), Store(o) PROVE server'.data = o.data
<1>1. CASE [o EXCEPT !.rv = server.rv] = server /\ server' = server
  <2>1. server.rv \in Nat
    BY DEF IInv, ServerSound, Known, IsObject
  <2>2. [o EXCEPT !.rv = server.rv].data = o.data
    BY <2>1, Versioned
  <2> QED BY <1>1, <2>2
<1>2. CASE revision' = revision + 1 /\ server' = [o EXCEPT !.rv = revision']
  <2>1. revision' \in Nat
    BY <1>2 DEF IInv, ServerSound
  <2> QED BY <1>2, <2>1, Versioned
<1> QED BY <1>1, <1>2 DEF Store

\* A patch has the data that are desired, and the keys of the server's object.
LEMMA PatchedData ==
  ASSUME NEW o, IsObject(o)
  PROVE  /\ Includes(Patched(o).data, o.data)
         /\ DOMAIN server.data \subseteq DOMAIN Patched(o).data
<1>1. Patched(o).data = Merged(o.data, server.data)
  BY DEF Patched, IsObject, Fields
<1> QED BY <1>1 DEF Merged, Includes

\* A patch keeps the keys of the server's object, and a create finds none (APIPatchingApplicator of
\* pkg/resource/api.go).
THEOREM RemovesNoKeys == Spec => Additive
<1>1. ASSUME IInv, [Next]_vars
      PROVE  [\A a \in Owners : Writes(a) /\ patching => DOMAIN server.data \subseteq DOMAIN server'.data]_vars
  <2> SUFFICES ASSUME Next, NEW a \in Owners, Writes(a), patching
               PROVE  DOMAIN server.data \subseteq DOMAIN server'.data
    BY <1>1
  <2>1. CASE ~Exists(server)
    BY <1>1, <2>1 DEF IInv, ServerSound, NoObject
  <2>2. CASE Exists(server)
    <3>1. calls[a].step = "write" /\ Store(Patched(calls[a].desired))
      BY <1>1, <2>2, WritesAreAccepted DEF AcceptsCreate
    <3>2. IsObject(calls[a].desired)
      BY <1>1, <3>1, WritesObjects
    <3>3. server'.data = Patched(calls[a].desired).data
      BY <1>1, <3>1, WritesObjects, StoredData
    <3> QED BY <3>2, <3>3, PatchedData
  <2> QED BY <2>1, <2>2
<1> QED BY <1>1, Invariance, PTL DEF Spec, Additive

\* What others wrote is left, by publishers and by trackers.
THEOREM LeavesOthers == Spec => OthersAreLeft
  BY TakesNothing, LeavesUserSecrets, RemovesNoKeys, LosesNoUpdate DEF OthersAreLeft

-----------------------------------------------------------------------------
(* What a call returns.                                                    *)

\* The invariant has the types.
LEMMA IInvTypes == IInv => TypeOK
<1> SUFFICES ASSUME IInv PROVE TypeOK
  OBVIOUS
<1>1. ASSUME NEW o \in {server, cached}
      PROVE  o \in [rv : 0 .. revision, controller : Owners \cup {None}, connection : BOOLEAN,
                    data : Data \cup {server.data, cached.data}]
  <2>1. IsObject(o) /\ o.rv \in 0 .. revision
    BY DEF IInv, ServerSound, Known, IsObject
  <2>2. o.data \in Data \cup {server.data, cached.data}
    OBVIOUS
  <2> QED BY <2>1, <2>2 DEF IsObject, Fields
<1>2. \A a \in Owners : calls[a].step \in {"idle", "get", "create", "write"} /\ calls[a].tries <= Steps
  BY DEF IInv, CallsSound, CallSound, Counted
<1> QED BY <1>1, <1>2 DEF IInv, ServerSound, TypeOK

\* A call that fails, or that is tried again, does not succeed.
LEMMA FailuresAreErrors ==
  ASSUME IInv, NEW a \in Owners, Retry(a, calls[a]) \/ Fault(a, calls[a]), calls'[a].step = "idle"
  PROVE  calls'[a].result = "error"
<1> DEFINE c == calls[a]
           again == [c EXCEPT !.step = "get", !.tries = @ + 1]
<1>1. calls = [b \in Owners |-> calls[b]] /\ c = [f \in CallFields |-> c[f]]
  BY DEF IInv, CallsSound, CallSound
<1>2. again.step = "get"
  BY <1>1 DEF CallFields
<1>3. CASE calls' = [calls EXCEPT ![a] = again]
  BY <1>1, <1>2, <1>3
<1>4. CASE Return(a, "error")
  BY <1>1, <1>4 DEF Return, Idle
<1> QED BY <1>3, <1>4 DEF Retry, Fault

\* The result that a call returns is the one its caller sees.
LEMMA ReturnedResult ==
  ASSUME IInv, NEW a \in Owners, NEW result, Return(a, result) PROVE calls'[a].result = result
<1>1. calls = [b \in Owners |-> calls[b]]
  BY DEF IInv, CallsSound
<1> QED BY <1>1 DEF Return, Idle

\* A call that returns has made the step itself: it read what it applies, or it wrote it.
LEMMA ReturningSteps ==
  ASSUME IInv, Next, NEW a \in Owners, NEW result, result # "error", Returns(a, result)
  PROVE  \/ /\ result = "unchanged" /\ calls[a].step = "get" /\ ~AllowUpdateIf(cached, calls[a].o)
         \/ /\ result = "published" /\ calls[a].step = "create"
            /\ AcceptsCreate(calls[a].o) /\ Store(calls[a].o)
         \/ /\ result = "published" /\ calls[a].step = "write" /\ patching
            /\ AcceptsPatch(calls[a].desired) /\ Store(Patched(calls[a].desired))
         \/ /\ result = "published" /\ calls[a].step = "write" /\ ~patching
            /\ Store(calls[a].desired)
<1>1. calls[a].step # "idle" /\ calls'[a].step = "idle" /\ calls'[a].result = result
  BY DEF Returns
<1>2. PICK b \in Owners : Work(b)
  BY <1>1 DEF Next, Sync, UserDeletes, UserCreates, UserOrphans, DetailsChange, Edit
<1>3. \E d : calls' = [calls EXCEPT ![b] = d]
  <2>1. CASE Call(b)
    BY <2>1 DEF Call, PublishConnection, PublishLocalConnection, Track, LegacyTrack, Apply
  <2>2. CASE Get(b)
    BY <2>2, Zenon DEF Get, Retry, Fault, Return
  <2>3. CASE Create(b) \/ Patch(b) \/ Update(b)
    BY <2>3 DEF Create, Patch, Update, Write, Retry, Fault, Return
  <2> QED BY <1>2, <2>1, <2>2, <2>3 DEF Work
<1>4. b = a
  BY <1>1, <1>3 DEF IInv, CallsSound
<1>5. ~Retry(a, calls[a]) /\ ~Fault(a, calls[a])
  BY <1>1, FailuresAreErrors
<1>6. CASE Call(a)
  BY <1>1, <1>6 DEF Call, PublishConnection, PublishLocalConnection, Track, LegacyTrack, Apply
<1>7. CASE Get(a)
  <2>1. calls = [x \in Owners |-> calls[x]] /\ CallSound(a, calls[a], patching, server, revision, cached)
    BY DEF IInv, CallsSound
  <2>2. calls' # [calls EXCEPT ![a].step = "create", ![a].read = NoObject]
    BY <1>1, <2>1 DEF CallSound, CallFields
  <2>3. calls' # [calls EXCEPT ![a] = [Read(calls[a]) EXCEPT !.step = "write"]]
    <3>1. [Read(calls[a]) EXCEPT !.step = "write"].step = "write"
      BY <2>1 DEF CallSound, CallFields, Read
    <3> QED BY <1>1, <2>1, <3>1
  <2>4. calls[a].step = "get" /\ ~AllowUpdateIf(cached, calls[a].o) /\ Return(a, "unchanged")
    BY <1>1, <1>5, <1>7, <2>2, <2>3, ReturnedResult DEF Get
  <2> QED BY <1>1, <2>4, ReturnedResult
<1>8. ASSUME NEW accepted, NEW o, Write(a, calls[a], accepted, o)
      PROVE  accepted /\ Store(o) /\ result = "published"
  BY <1>1, <1>5, <1>8, ReturnedResult DEF Write
<1>9. CASE Create(a)
  BY <1>8, <1>9 DEF Create
<1>10. CASE Patch(a)
  BY <1>8, <1>10, Zenon DEF Patch
<1>11. CASE Update(a)
  BY <1>8, <1>11, Zenon DEF Update
<1> QED BY <1>2, <1>4, <1>6, <1>7, <1>9, <1>10, <1>11 DEF Work

\* Details that are said to be published are in the object: an attempt that would write what an
\* earlier one read is refused, since that version is gone.
LEMMA PublishedIsThere ==
  ASSUME IInv, Next, NEW a \in Owners, Returns(a, "published")
  PROVE  Includes(server'.data, calls[a].given)
<1> DEFINE c == calls[a]
<1>1. CallSound(a, c, patching, server, revision, cached)
  BY DEF IInv, CallsSound
<1>2. \A d : Includes(d, d)
  BY DEF Includes
<1>3. CASE c.step = "create" /\ AcceptsCreate(c.o) /\ Store(c.o)
  <2>1. Own(c.o, c.given)
    BY <1>1, <1>3 DEF CallSound, Applies, Wanted, Found, AcceptsCreate, Exists
  <2> QED BY <1>2, <1>3, <2>1, StoredData DEF Own
<1>4. CASE c.step = "write" /\ patching /\ AcceptsPatch(c.desired) /\ Store(Patched(c.desired))
  <2>1. Own(c.desired, c.given)
    BY <1>1, <1>4 DEF CallSound, Allowed, Patches, Found, AcceptsPatch, Exists
  <2>2. server'.data = Patched(c.desired).data
    BY <1>4, WritesObjects, StoredData
  <2> QED BY <2>1, <2>2, PatchedData DEF Own
<1>5. CASE c.step = "write" /\ ~patching /\ Store(c.desired)
  <2>1. IsObject(c.desired) /\ c.desired.data = c.given
    BY <1>1, <1>5 DEF CallSound, Allowed
  <2> QED BY <1>2, <1>5, <2>1, StoredData
<1> QED BY <1>3, <1>4, <1>5, ReturningSteps

\* A first attempt that finds nothing to do compared the cache with what its caller gave.
LEMMA UnchangedWasRead ==
  ASSUME IInv, Next, NEW a \in Owners, Returns(a, "unchanged"), calls[a].tries = 1
  PROVE  cached.data = calls[a].given
<1>1. calls[a].step = "get" /\ cached.data = calls[a].o.data
  BY ReturningSteps DEF AllowUpdateIf
<1>2. CallSound(a, calls[a], patching, server, revision, cached)
  BY DEF IInv, CallsSound
<1>3. Own(calls[a].o, calls[a].given)
  BY <1>1, <1>2 DEF CallSound, Counted, Applies, Wanted, Found
<1> QED BY <1>1, <1>3 DEF Own

\* What callers of Apply are told is true, and it is tried at most Steps times (PublishConnection of
\* pkg/reconciler/managed/api.go, ApplicatorWithRetry of pkg/resource/api.go).
THEOREM TellsTheTruth == Spec => ResultsAreTrue
<1>1. ASSUME IInv, [Next]_vars
      PROVE  [\A a \in Owners :
                /\ Returns(a, "published") => Includes(server'.data, calls[a].given)
                /\ Returns(a, "unchanged") /\ calls[a].tries = 1 => cached.data = calls[a].given]_vars
  BY <1>1, PublishedIsThere, UnchangedWasRead
<1>2. IInv => TypeOK
  BY IInvTypes
<1> QED BY <1>1, <1>2, Invariance, PTL DEF Spec, ResultsAreTrue
=============================================================================
