------------------------------ MODULE Metadata ------------------------------
(***************************************************************************)
(* Finalizers and owner references (pkg/meta/meta.go, APIFinalizer of      *)
(* pkg/resource/api.go, RemoveOwnerRef of composed resources): several     *)
(* controllers read one object, change its lists in memory and update it.  *)
(* Whoever wrote in between makes the update fail, and the controller then *)
(* drops its copy and reads again.  The order of the finalizers is left    *)
(* out: AddFinalizer adds one only if it is missing.                       *)
(***************************************************************************)
EXTENDS Integers, Sequences, Functions

CONSTANTS Controllers,  \* each has a finalizer of its own, and a UID
          MaxOwners     \* bound on calls that are not about finalizers

VARIABLES
  object,   \* the object in the API server; its resource version is 0 if it is gone
  copies,   \* the copy each controller holds; its resource version is 0 if it holds none
  holds,    \* the controllers that were told their finalizer is there, and did not remove it
  owners    \* the calls about owners so far

metadataVars == <<object, copies, holds, owners>>

NoObject == [rv |-> 0, finalizers |-> {}, refs |-> <<>>, deleted |-> FALSE]

-----------------------------------------------------------------------------
(* What the helpers make of an object.                                     *)

FinalizerExists(o, f) == f \in o.finalizers

AddFinalizer(o, f) == [o EXCEPT !.finalizers = @ \cup {f}]

RemoveFinalizer(o, f) == [o EXCEPT !.finalizers = @ \ {f}]

AsOwner(c) == [uid |-> c, controller |-> FALSE]

AsController(c) == [AsOwner(c) EXCEPT !.controller = TRUE]

\* The first owner with a UID is the one that is replaced or removed.
IsFirst(o, i, c) == o.refs[i].uid = c /\ \A j \in 1 .. i - 1 : o.refs[j].uid # c

\* Mutant: a reference with the same UID is left, and another is added.
AddOwnerReferenceAppends(o, r) == [o EXCEPT !.refs = Append(@, r)]

\* An owner with the same UID is replaced.
AddOwnerReference(o, r) ==
  [o EXCEPT !.refs = IF \E i \in DOMAIN @ : @[i].uid = r.uid
                     THEN [i \in DOMAIN @ |-> IF IsFirst(o, i, r.uid) THEN r ELSE @[i]]
                     ELSE Append(@, r)]

RemoveOwnerRef(o, i) == [o EXCEPT !.refs = SubSeq(@, 1, i - 1) \o SubSeq(@, i + 1, Len(@))]

ControllersOf(o) == {o.refs[i].uid : i \in {j \in DOMAIN o.refs : o.refs[j].controller}}

\* Whether AddControllerReference returns no error.
Controllable(o, c) == ControllersOf(o) \subseteq {c}

-----------------------------------------------------------------------------
(* The API server.                                                         *)

\* An update is refused if it is not of the last version, and if it adds a finalizer to an
\* object that is being deleted.
Accepts(o) == /\ object.rv > 0 /\ o.rv = object.rv
              /\ object.deleted => o.finalizers \subseteq object.finalizers

\* The last finalizer of an object that is being deleted takes it along.
Stored(o) == IF o.deleted /\ o.finalizers = {} THEN NoObject ELSE [o EXCEPT !.rv = @ + 1]

-----------------------------------------------------------------------------
(* The calls of a controller.                                              *)

Get(c) == /\ object.rv > 0 /\ copies[c] # object
          /\ copies' = [copies EXCEPT ![c] = object]
          /\ UNCHANGED <<object, holds, owners>>

\* The copy of a controller whose update succeeded is what the server stored; after an error the
\* reconcile ends.
UpdateObject(c, o) == IF Accepts(o) THEN object' = Stored(o) /\ copies' = [copies EXCEPT ![c] = object']
                                    ELSE copies' = [copies EXCEPT ![c] = NoObject] /\ UNCHANGED object

\* Mutant: after an error the copy is used again, with the finalizer it was given.
FinalizerAddKeepsCopy(c) ==
  /\ copies[c].rv > 0 /\ ~copies[c].deleted
  /\ LET o == AddFinalizer(copies[c], c)
     IN  IF FinalizerExists(copies[c], c) THEN UNCHANGED <<object, copies>> /\ holds' = holds \cup {c}
         ELSE IF Accepts(o) THEN UpdateObject(c, o) /\ holds' = holds \cup {c}
         ELSE copies' = [copies EXCEPT ![c] = o] /\ UNCHANGED <<object, holds>>
  /\ UNCHANGED owners

\* APIFinalizer.AddFinalizer, for an object that is not being deleted.
FinalizerAdd(c) ==
  /\ copies[c].rv > 0 /\ ~copies[c].deleted
  /\ IF FinalizerExists(copies[c], c) THEN UNCHANGED <<object, copies>> /\ holds' = holds \cup {c}
     ELSE LET o == AddFinalizer(copies[c], c)
          IN  UpdateObject(c, o) /\ holds' = IF Accepts(o) THEN holds \cup {c} ELSE holds
  /\ UNCHANGED owners

\* Mutant: the finalizer is removed if it is not there.
FinalizerRemoveMissing(c) ==
  /\ copies[c].rv > 0 /\ copies[c].deleted /\ ~FinalizerExists(copies[c], c)
  /\ UpdateObject(c, RemoveFinalizer(copies[c], c)) /\ UNCHANGED <<holds, owners>>

\* APIFinalizer.RemoveFinalizer, for one that is.  An object that is gone is no error.
FinalizerRemove(c) ==
  /\ copies[c].rv > 0 /\ copies[c].deleted /\ FinalizerExists(copies[c], c)
  /\ LET o == RemoveFinalizer(copies[c], c)
     IN  UpdateObject(c, o) /\ holds' = IF Accepts(o) \/ object.rv = 0 THEN holds \ {c} ELSE holds
  /\ UNCHANGED owners

Own(c, o) == /\ owners < MaxOwners /\ owners' = owners + 1
             /\ copies[c].rv > 0 /\ o # copies[c]
             /\ UpdateObject(c, o) /\ UNCHANGED holds

OwnerAdd(c) == Own(c, AddOwnerReference(copies[c], AsOwner(c)))

\* Mutant: another controller becomes an owner instead of an error.
AddControllerReferenceDemotes(c) ==
  LET o == [copies[c] EXCEPT !.refs = [i \in DOMAIN @ |-> AsOwner(@[i].uid)]]
  IN  Own(c, AddOwnerReference(o, AsController(c)))

AddControllerReference(c) == Controllable(copies[c], c) /\ Own(c, AddOwnerReference(copies[c], AsController(c)))

OwnerRemove(c) == \E i \in DOMAIN copies[c].refs : IsFirst(copies[c], i, c) /\ Own(c, RemoveOwnerRef(copies[c], i))

\* A user deletes the object.
Delete == /\ object.rv > 0 /\ ~object.deleted
          /\ object' = Stored([object EXCEPT !.deleted = TRUE])
          /\ UNCHANGED <<copies, holds, owners>>

MetadataInit == /\ object = [NoObject EXCEPT !.rv = 1]
                /\ copies = [c \in Controllers |-> NoObject]
                /\ holds = {} /\ owners = 0

MetadataNext ==
  \/ Delete
  \/ \E c \in Controllers : \/ Get(c) \/ FinalizerAdd(c) \/ FinalizerRemove(c)
                            \/ OwnerAdd(c) \/ AddControllerReference(c) \/ OwnerRemove(c)

\* Controllers are told of changes, and remove their finalizers from what is being deleted.
MetadataSpec == /\ MetadataInit /\ [][MetadataNext]_metadataVars
                /\ \A c \in Controllers : WF_metadataVars(Get(c)) /\ WF_metadataVars(FinalizerRemove(c))

-----------------------------------------------------------------------------
(* Properties.                                                             *)

\* An object is there, with the finalizer, for as long as its controller was told so and did not
\* remove it: no deletion, no stale copy and no other controller takes the protection away.
FinalizersProtect == \A c \in holds : object.rv > 0 /\ FinalizerExists(object, c)

\* There is one controller at most, and every owner is listed once.
OneController == /\ \A c, d \in ControllersOf(object) : c = d
                 /\ IsInjective([i \in DOMAIN object.refs |-> object.refs[i].uid])

\* A controller is only replaced after it stepped down itself.
ControllersStepDown ==
  [][ControllersOf(object) # {} /\ object'.rv > 0 /\ ControllersOf(object') # ControllersOf(object)
       => ControllersOf(object') = {}]_metadataVars

\* What controllers were told holds: the finalizer they added protects the object, and control over
\* it is theirs until they give it up (pkg/meta/meta.go, APIFinalizer of pkg/resource/api.go).
ObjectIsGuarded == [](FinalizersProtect /\ OneController) /\ ControllersStepDown

\* An object that is being deleted goes, however the controllers get into each other's way.
DeletedGoes == object.deleted ~> object.rv = 0
=============================================================================
