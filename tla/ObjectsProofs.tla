---------------------------- MODULE ObjectsProofs ----------------------------
(***************************************************************************)
(* What is kept of objects: their finalizers and owner references, for any *)
(* number of controllers, and the metrics of any finite set of managed     *)
(* resources.                                                              *)
(***************************************************************************)
EXTENDS Metadata, Metrics, FiniteSetTheorems, TLAPS

-----------------------------------------------------------------------------
(* Finalizers and owner references.                                        *)

Ref == [uid : Controllers, controller : BOOLEAN]

Objects == [rv : Nat, finalizers : SUBSET Controllers, refs : Seq(Ref), deleted : BOOLEAN]

MetadataTyped == /\ object \in Objects /\ copies \in [Controllers -> Objects]
          /\ holds \subseteq Controllers /\ owners \in Nat

\* A copy with the object's version is the object, and no copy is of a later version.
Current == object.rv > 0 => \A c \in Controllers : /\ copies[c].rv <= object.rv
                                                   /\ copies[c].rv = object.rv => copies[c] = object

\* A copy on which a controller finds its own finalizer, before the deletion, may be old but is
\* right about it: nobody else removes that finalizer, and its controller does so only later.
Claimed == \A c \in Controllers : copies[c].rv > 0 /\ ~copies[c].deleted /\ c \in copies[c].finalizers
             => object.rv > 0 /\ c \in object.finalizers

UniqueOwners(o) == \A i, j \in DOMAIN o.refs : o.refs[i].uid = o.refs[j].uid => i = j

OneOf(o) == \A i, j \in DOMAIN o.refs : o.refs[i].controller /\ o.refs[j].controller => i = j

MetadataInv == MetadataTyped /\ Current /\ Claimed /\ FinalizersProtect /\ UniqueOwners(object) /\ OneOf(object)

-----------------------------------------------------------------------------

\* What a controller makes of its copy is of the type and of the version of the copy.
LEMMA FinalizersType ==
  ASSUME NEW o \in Objects, NEW c \in Controllers
  PROVE  /\ AddFinalizer(o, c) \in Objects
         /\ AddFinalizer(o, c).rv = o.rv /\ AddFinalizer(o, c).deleted = o.deleted
         /\ AddFinalizer(o, c).finalizers = o.finalizers \cup {c} /\ AddFinalizer(o, c).refs = o.refs
         /\ RemoveFinalizer(o, c) \in Objects
         /\ RemoveFinalizer(o, c).rv = o.rv /\ RemoveFinalizer(o, c).deleted = o.deleted
         /\ RemoveFinalizer(o, c).finalizers = o.finalizers \ {c} /\ RemoveFinalizer(o, c).refs = o.refs
BY DEF Objects, AddFinalizer, RemoveFinalizer

\* So is what it makes of the owners, where the finalizers stay.
LEMMA OwnersType ==
  ASSUME NEW o \in Objects, NEW r \in Ref
  PROVE  /\ AddOwnerReference(o, r) \in Objects
         /\ AddOwnerReference(o, r).rv = o.rv /\ AddOwnerReference(o, r).deleted = o.deleted
         /\ AddOwnerReference(o, r).finalizers = o.finalizers
<1> DEFINE there == \E i \in DOMAIN o.refs : o.refs[i].uid = r.uid
           refs == IF there THEN [i \in DOMAIN o.refs |-> IF IsFirst(o, i, r.uid) THEN r ELSE o.refs[i]]
                            ELSE Append(o.refs, r)
<1>1. o.refs \in Seq(Ref)
  BY DEF Objects
<1>2. refs \in Seq(Ref)
  <2>1. CASE there
    <3>1. refs = [i \in 1 .. Len(o.refs) |-> IF IsFirst(o, i, r.uid) THEN r ELSE o.refs[i]]
      BY <1>1, <2>1
    <3>2. \A i \in 1 .. Len(o.refs) : (IF IsFirst(o, i, r.uid) THEN r ELSE o.refs[i]) \in Ref
      BY <1>1
    <3> QED BY <1>1, <3>1, <3>2
  <2>2. CASE ~there
    BY <1>1, <2>2
  <2> QED BY <2>1, <2>2
<1>3. AddOwnerReference(o, r) = [o EXCEPT !.refs = refs]
  BY DEF AddOwnerReference
<1> HIDE DEF refs
<1> QED BY <1>2, <1>3 DEF Objects

\* A new owner, or one that is replaced, is listed once.
LEMMA AddUnique ==
  ASSUME NEW o \in Objects, NEW r \in Ref, UniqueOwners(o)
  PROVE  UniqueOwners(AddOwnerReference(o, r))
<1> DEFINE there == \E i \in DOMAIN o.refs : o.refs[i].uid = r.uid
<1>1. o.refs \in Seq(Ref)
  BY DEF Objects
<1>2. CASE there
  <2>1. AddOwnerReference(o, r).refs = [i \in DOMAIN o.refs |-> IF IsFirst(o, i, r.uid) THEN r ELSE o.refs[i]]
    BY <1>2 DEF AddOwnerReference, Objects
  <2> QED BY <1>1, <2>1 DEF UniqueOwners, IsFirst
<1>3. CASE ~there
  <2>1. AddOwnerReference(o, r).refs = Append(o.refs, r)
    BY <1>3 DEF AddOwnerReference, Objects
  <2> QED BY <1>1, <1>3, <2>1 DEF UniqueOwners
<1> QED BY <1>2, <1>3

\* AddControllerReference checks that there is no other controller; AddOwnerReference adds none.
LEMMA AddOne ==
  ASSUME NEW o \in Objects, NEW r \in Ref, UniqueOwners(o), OneOf(o), r.controller => Controllable(o, r.uid)
  PROVE  OneOf(AddOwnerReference(o, r))
<1> DEFINE there == \E i \in DOMAIN o.refs : o.refs[i].uid = r.uid
<1>1. o.refs \in Seq(Ref)
  BY DEF Objects
<1>2. \A i \in DOMAIN o.refs : r.controller /\ o.refs[i].controller => o.refs[i].uid = r.uid
  BY DEF Controllable, ControllersOf
<1>3. CASE there
  <2>1. AddOwnerReference(o, r).refs = [i \in DOMAIN o.refs |-> IF IsFirst(o, i, r.uid) THEN r ELSE o.refs[i]]
    BY <1>3 DEF AddOwnerReference, Objects
  <2> QED BY <1>1, <1>2, <2>1 DEF UniqueOwners, OneOf, IsFirst
<1>4. CASE ~there
  <2>1. AddOwnerReference(o, r).refs = Append(o.refs, r)
    BY <1>4 DEF AddOwnerReference, Objects
  <2> QED BY <1>1, <1>2, <1>4, <2>1 DEF OneOf
<1> QED BY <1>3, <1>4

\* An owner that is removed leaves the others as they were.
LEMMA RemoveOwner ==
  ASSUME NEW o \in Objects, NEW k \in DOMAIN o.refs
  PROVE  /\ RemoveOwnerRef(o, k) \in Objects
         /\ RemoveOwnerRef(o, k).rv = o.rv /\ RemoveOwnerRef(o, k).deleted = o.deleted
         /\ RemoveOwnerRef(o, k).finalizers = o.finalizers
         /\ UniqueOwners(o) => UniqueOwners(RemoveOwnerRef(o, k))
         /\ OneOf(o) => OneOf(RemoveOwnerRef(o, k))
         /\ \A i \in DOMAIN RemoveOwnerRef(o, k).refs : \E j \in DOMAIN o.refs : RemoveOwnerRef(o, k).refs[i] = o.refs[j]
<1> DEFINE n == Len(o.refs)
           refs == SubSeq(o.refs, 1, k - 1) \o SubSeq(o.refs, k + 1, Len(o.refs))
           left == SubSeq(o.refs, 1, k - 1)
           right == SubSeq(o.refs, k + 1, n)
<1>1. o.refs \in Seq(Ref) /\ n \in Nat /\ k \in 1 .. n
  BY DEF Objects
<1>2. left \in Seq(Ref) /\ Len(left) = k - 1 /\ \A i \in 1 .. k - 1 : left[i] = o.refs[i]
  BY <1>1
<1>3. right \in Seq(Ref) /\ Len(right) = n - k /\ \A i \in 1 .. n - k : right[i] = o.refs[k + i]
  BY <1>1
<1>4. refs = left \o right
  OBVIOUS
<1> HIDE DEF left, right, refs
<1> HIDE DEF n
<1>5. /\ refs \in Seq(Ref) /\ Len(refs) = n - 1
      /\ \A i \in 1 .. n - 1 : refs[i] = IF i <= k - 1 THEN left[i] ELSE right[i - (k - 1)]
  <2>1. Len(left) + Len(right) = n - 1
    BY <1>1, <1>2, <1>3
  <2>2. /\ left \o right \in Seq(Ref) /\ Len(left \o right) = Len(left) + Len(right)
        /\ \A i \in 1 .. Len(left) + Len(right) :
             (left \o right)[i] = IF i <= Len(left) THEN left[i] ELSE right[i - Len(left)]
    BY <1>2, <1>3
  <2> QED BY <1>2, <1>4, <2>1, <2>2, Zenon
<1>6. ASSUME NEW i \in 1 .. n - 1
      PROVE  refs[i] = o.refs[IF i < k THEN i ELSE i + 1]
  <2>1. CASE i < k
    BY <1>1, <1>2, <1>5, <2>1
  <2>2. CASE ~(i < k)
    <3>1. i - (k - 1) \in 1 .. n - k /\ k + (i - (k - 1)) = i + 1 /\ ~(i <= k - 1)
      BY <1>1, <2>2
    <3>2. refs[i] = right[i - (k - 1)]
      BY <1>5, <3>1
    <3> QED BY <1>3, <2>2, <3>1, <3>2
  <2> QED BY <2>1, <2>2
<1>7. RemoveOwnerRef(o, k) = [o EXCEPT !.refs = refs]
  BY DEF RemoveOwnerRef, refs
<1>8. DOMAIN refs = 1 .. n - 1 /\ DOMAIN o.refs = 1 .. n
  BY <1>1, <1>5 DEF n
<1>9. /\ RemoveOwnerRef(o, k) \in Objects /\ RemoveOwnerRef(o, k).rv = o.rv
      /\ RemoveOwnerRef(o, k).deleted = o.deleted
      /\ RemoveOwnerRef(o, k).finalizers = o.finalizers /\ RemoveOwnerRef(o, k).refs = refs
  BY <1>5, <1>7, Zenon DEF Objects
<1> DEFINE was(i) == IF i < k THEN i ELSE i + 1
<1>10. \A i, j \in 1 .. n - 1 : was(i) \in 1 .. n /\ (was(i) = was(j) => i = j)
  BY <1>1
<1>11. \A i \in 1 .. n - 1 : refs[i] = o.refs[was(i)]
  BY <1>6
<1> HIDE DEF was
<1>12. UniqueOwners(o) => UniqueOwners(RemoveOwnerRef(o, k))
  BY <1>8, <1>9, <1>10, <1>11 DEF UniqueOwners
<1>13. OneOf(o) => OneOf(RemoveOwnerRef(o, k))
  BY <1>8, <1>9, <1>10, <1>11 DEF OneOf
<1>14. \A i \in DOMAIN refs : \E j \in DOMAIN o.refs : refs[i] = o.refs[j]
  BY <1>8, <1>10, <1>11
<1> QED BY <1>9, <1>12, <1>13, <1>14

-----------------------------------------------------------------------------

\* An update that leaves the finalizers of others, removes the controller's own only from an
\* object that is being deleted, and keeps its owners in order preserves the invariant, if the
\* controller is told the truth about its finalizer.
LEMMA UpdateKeeps ==
  ASSUME MetadataInv, NEW c \in Controllers, NEW o \in Objects,
         copies[c].rv > 0, o.rv = copies[c].rv, o.deleted = copies[c].deleted,
         o.finalizers \ {c} = copies[c].finalizers \ {c},
         c \in copies[c].finalizers /\ c \notin o.finalizers => o.deleted,
         UniqueOwners(copies[c]) => UniqueOwners(o),
         UniqueOwners(copies[c]) /\ OneOf(copies[c]) => OneOf(o),
         UpdateObject(c, o), holds' \subseteq Controllers, owners' \in Nat,
         holds' \ {c} \subseteq holds,
         c \in holds' => IF Accepts(o) THEN c \in o.finalizers ELSE c \in holds
  PROVE  MetadataInv'
<1> USE DEF MetadataInv
<1>1. CASE ~Accepts(o)
  <2>1. object' = object /\ copies' = [copies EXCEPT ![c] = NoObject]
    BY <1>1 DEF UpdateObject
  <2>2. NoObject \in Objects /\ NoObject.rv = 0
    BY DEF NoObject, Objects
  <2>3. MetadataTyped'
    BY <2>1, <2>2 DEF MetadataTyped
  <2>4. Current'
    BY <2>1, <2>2 DEF MetadataTyped, Current, Objects
  <2>5. Claimed'
    BY <2>1, <2>2 DEF MetadataTyped, Claimed
  <2>6. FinalizersProtect'
    BY <1>1, <2>1 DEF FinalizersProtect, FinalizerExists
  <2> QED BY <2>1, <2>3, <2>4, <2>5, <2>6 DEF UniqueOwners, OneOf
<1>2. CASE Accepts(o)
  <2>1. object' = Stored(o) /\ copies' = [copies EXCEPT ![c] = object']
    BY <1>2 DEF UpdateObject
  <2>2. object.rv > 0 /\ copies[c] = object /\ (object.deleted => o.finalizers \subseteq object.finalizers)
    BY <1>2, Zenon DEF Accepts, Current, MetadataTyped
  <2>3. CASE o.deleted /\ o.finalizers = {}
    <3>1. object' = NoObject /\ NoObject \in Objects /\ NoObject.rv = 0 /\ NoObject.refs = <<>> /\ NoObject.finalizers = {}
      BY <2>1, <2>3 DEF Stored, NoObject, Objects
    <3>2. MetadataTyped'
      BY <2>1, <3>1 DEF MetadataTyped
    <3>3. Current'
      BY <3>1 DEF Current
    <3>4. \A d \in Controllers : d \in object.finalizers => d = c
      BY <2>2, <2>3
    <3>5. Claimed'
      BY <2>1, <3>1, <3>4 DEF Claimed, MetadataTyped
    <3>6. FinalizersProtect'
      BY <1>2, <2>3, <3>4 DEF FinalizersProtect, FinalizerExists, MetadataTyped
    <3>7. DOMAIN object'.refs = {}
      BY <3>1
    <3> QED BY <3>2, <3>3, <3>5, <3>6, <3>7 DEF UniqueOwners, OneOf
  <2>4. CASE ~(o.deleted /\ o.finalizers = {})
    <3>1. /\ object' \in Objects /\ object'.rv = o.rv + 1 /\ object'.finalizers = o.finalizers
          /\ object'.deleted = o.deleted /\ object'.refs = o.refs
      BY <2>1, <2>4 DEF Stored, Objects
    <3>2. MetadataTyped'
      BY <2>1, <3>1 DEF MetadataTyped
    <3>3. Current'
      BY <2>1, <2>2, <3>1 DEF Current, MetadataTyped, Objects
    <3>4. Claimed'
      BY <2>1, <2>2, <3>1 DEF Claimed, MetadataTyped, Objects
    <3>5. FinalizersProtect'
      BY <1>2, <2>2, <3>1 DEF FinalizersProtect, FinalizerExists, MetadataTyped, Objects
    <3> QED BY <2>2, <3>1, <3>2, <3>3, <3>4, <3>5 DEF UniqueOwners, OneOf
  <2> QED BY <2>3, <2>4
<1> QED BY <1>1, <1>2

\* What the API server stores, but for the last finalizer of what is being deleted.
LEMMA StoredType ==
  ASSUME NEW o \in Objects, ~(o.deleted /\ o.finalizers = {})
  PROVE  /\ Stored(o) \in Objects /\ Stored(o).rv = o.rv + 1 /\ Stored(o).finalizers = o.finalizers
         /\ Stored(o).deleted = o.deleted /\ Stored(o).refs = o.refs
BY DEF Stored, Objects

\* A deletion keeps the invariant: only an object without finalizers goes at once.
LEMMA DeleteKeeps ==
  ASSUME MetadataInv, Delete
  PROVE  MetadataInv'
<1> DEFINE o == [object EXCEPT !.deleted = TRUE]
<1>0. MetadataTyped /\ Current /\ Claimed /\ FinalizersProtect /\ UniqueOwners(object) /\ OneOf(object)
  BY DEF MetadataInv
<1>1. o \in Objects /\ o.rv = object.rv /\ o.finalizers = object.finalizers /\ o.refs = object.refs /\ o.deleted
  BY <1>0, Zenon DEF MetadataTyped, Objects
<1>2. object' = Stored(o) /\ copies' = copies /\ holds' = holds /\ owners' = owners /\ object.rv > 0
  BY DEF Delete
<1> HIDE DEF o
<1>3. CASE o.finalizers = {}
  <2>1. object' = NoObject
    BY <1>1, <1>2, <1>3 DEF Stored
  <2> NoObject \in Objects /\ NoObject.rv = 0 /\ DOMAIN NoObject.refs = {}
    BY DEF NoObject, Objects
  <2>2. MetadataTyped' /\ Current' /\ UniqueOwners(object)' /\ OneOf(object)'
    BY <1>0, <1>2, <2>1 DEF MetadataTyped, Current, UniqueOwners, OneOf
  <2>3. Claimed' /\ FinalizersProtect'
    BY <1>0, <1>1, <1>2, <1>3 DEF Claimed, FinalizersProtect, FinalizerExists
  <2> QED BY <2>2, <2>3 DEF MetadataInv
<1>4. CASE o.finalizers # {}
  <2>1. /\ object' \in Objects /\ object'.rv = object.rv + 1 /\ object'.finalizers = object.finalizers
        /\ object'.refs = object.refs
    BY <1>1, <1>2, <1>4, StoredType
  <2>2. MetadataTyped' /\ Current'
    BY <1>0, <1>2, <2>1 DEF MetadataTyped, Current, Objects
  <2>3. Claimed' /\ FinalizersProtect' /\ UniqueOwners(object)' /\ OneOf(object)'
    BY <1>0, <1>2, <2>1 DEF Claimed, FinalizersProtect, FinalizerExists, MetadataTyped, Objects, UniqueOwners, OneOf
  <2> QED BY <2>2, <2>3 DEF MetadataInv
<1> QED BY <1>3, <1>4

\* Reading the object keeps the invariant.
LEMMA GetKeeps ==
  ASSUME MetadataInv, NEW c \in Controllers, Get(c)
  PROVE  MetadataInv'
BY DEF MetadataInv, Get, MetadataTyped, Current, Claimed, FinalizersProtect, FinalizerExists, UniqueOwners, OneOf, Objects

\* AddFinalizer and RemoveFinalizer keep the invariant.
LEMMA FinalizersKeep ==
  ASSUME MetadataInv, NEW c \in Controllers, FinalizerAdd(c) \/ FinalizerRemove(c)
  PROVE  MetadataInv'
<1>1. MetadataTyped /\ copies[c] \in Objects /\ copies[c].rv > 0
  BY DEF MetadataInv, MetadataTyped, FinalizerAdd, FinalizerRemove
<1>2. CASE FinalizerAdd(c) /\ c \in copies[c].finalizers
  <2>1. UNCHANGED <<object, copies, owners>> /\ holds' = holds \cup {c} /\ ~copies[c].deleted
    BY <1>2 DEF FinalizerAdd, FinalizerExists
  <2>2. object.rv > 0 /\ c \in object.finalizers
    BY <1>1, <1>2, <2>1 DEF MetadataInv, Claimed
  <2> QED BY <2>1, <2>2 DEF MetadataInv, MetadataTyped, Current, Claimed, FinalizersProtect, FinalizerExists, UniqueOwners, OneOf
<1>3. CASE FinalizerAdd(c) /\ c \notin copies[c].finalizers
  <2> DEFINE o == AddFinalizer(copies[c], c)
  <2>1. /\ o \in Objects /\ o.rv = copies[c].rv /\ o.deleted = copies[c].deleted
        /\ o.finalizers = copies[c].finalizers \cup {c} /\ o.refs = copies[c].refs
    BY <1>1, FinalizersType
  <2>2. UpdateObject(c, o) /\ holds' = (IF Accepts(o) THEN holds \cup {c} ELSE holds) /\ owners' = owners
    BY <1>3 DEF FinalizerAdd, FinalizerExists
  <2> HIDE DEF o
  <2>3. /\ UniqueOwners(copies[c]) => UniqueOwners(o)
        /\ UniqueOwners(copies[c]) /\ OneOf(copies[c]) => OneOf(o)
    BY <2>1 DEF UniqueOwners, OneOf
  <2>4. holds' \subseteq Controllers /\ owners' \in Nat /\ holds' \ {c} \subseteq holds
    BY <1>1, <2>2 DEF MetadataTyped
  <2>5. c \in holds' => IF Accepts(o) THEN c \in o.finalizers ELSE c \in holds
    BY <2>1, <2>2
  <2>6. o.finalizers \ {c} = copies[c].finalizers \ {c} /\ c \in o.finalizers
    BY <2>1
  <2> QED BY <1>1, <2>1, <2>2, <2>3, <2>4, <2>5, <2>6, UpdateKeeps
<1>4. CASE FinalizerRemove(c)
  <2> DEFINE o == RemoveFinalizer(copies[c], c)
  <2>1. /\ o \in Objects /\ o.rv = copies[c].rv /\ o.deleted = copies[c].deleted
        /\ o.finalizers = copies[c].finalizers \ {c} /\ o.refs = copies[c].refs
    BY <1>1, FinalizersType
  <2>2. /\ UpdateObject(c, o) /\ owners' = owners /\ copies[c].deleted
        /\ holds' = IF Accepts(o) \/ object.rv = 0 THEN holds \ {c} ELSE holds
    BY <1>4 DEF FinalizerRemove
  <2> HIDE DEF o
  <2>3. /\ UniqueOwners(copies[c]) => UniqueOwners(o)
        /\ UniqueOwners(copies[c]) /\ OneOf(copies[c]) => OneOf(o)
    BY <2>1 DEF UniqueOwners, OneOf
  <2>4. holds' \subseteq Controllers /\ owners' \in Nat /\ holds' \ {c} \subseteq holds
    BY <1>1, <2>2 DEF MetadataTyped
  <2>5. c \in holds' => IF Accepts(o) THEN c \in o.finalizers ELSE c \in holds
    BY <2>1, <2>2
  <2>6. o.finalizers \ {c} = copies[c].finalizers \ {c} /\ o.deleted
    BY <2>1, <2>2
  <2> QED BY <1>1, <2>1, <2>2, <2>3, <2>4, <2>5, <2>6, UpdateKeeps, Zenon
<1> QED BY <1>2, <1>3, <1>4

\* Owners come and go without touching a finalizer.
LEMMA OwnKeeps ==
  ASSUME MetadataInv, NEW c \in Controllers, NEW o \in Objects, Own(c, o),
         o.rv = copies[c].rv, o.deleted = copies[c].deleted, o.finalizers = copies[c].finalizers,
         UniqueOwners(copies[c]) => UniqueOwners(o),
         UniqueOwners(copies[c]) /\ OneOf(copies[c]) => OneOf(o)
  PROVE  MetadataInv'
<1>1. UpdateObject(c, o) /\ holds' = holds /\ owners' = owners + 1 /\ copies[c].rv > 0 /\ holds \subseteq Controllers
  BY DEF Own, MetadataInv, MetadataTyped
<1>2. owners' \in Nat
  BY <1>1 DEF MetadataInv, MetadataTyped
<1>3. c \in holds /\ Accepts(o) => c \in o.finalizers
  BY Zenon DEF Accepts, MetadataInv, Current, FinalizersProtect, FinalizerExists
<1>4. o.finalizers \ {c} = copies[c].finalizers \ {c} /\ holds' \ {c} \subseteq holds
  BY <1>1
<1>5. c \in holds' => IF Accepts(o) THEN c \in o.finalizers ELSE c \in holds
  BY <1>1, <1>3
<1>6. holds' \subseteq Controllers
  BY <1>1
<1> QED BY <1>1, <1>2, <1>4, <1>5, <1>6, UpdateKeeps

\* The invariant is inductive.
LEMMA MetadataKeeps == MetadataInv /\ [MetadataNext]_metadataVars => MetadataInv'
<1> SUFFICES ASSUME MetadataInv, [MetadataNext]_metadataVars PROVE MetadataInv'
  OBVIOUS
<1>1. CASE Delete
  BY <1>1, DeleteKeeps
<1>2. ASSUME NEW c \in Controllers, Get(c) \/ FinalizerAdd(c) \/ FinalizerRemove(c) PROVE MetadataInv'
  BY <1>2, GetKeeps, FinalizersKeep
<1>3. ASSUME NEW c \in Controllers, OwnerAdd(c) PROVE MetadataInv'
  <2>1. copies[c] \in Objects /\ AsOwner(c) \in Ref /\ ~AsOwner(c).controller
    BY DEF MetadataInv, MetadataTyped, AsOwner, Ref
  <2> DEFINE o == AddOwnerReference(copies[c], AsOwner(c))
  <2>2. /\ o \in Objects /\ o.rv = copies[c].rv /\ o.deleted = copies[c].deleted
        /\ o.finalizers = copies[c].finalizers
    BY <2>1, OwnersType
  <2>3. /\ UniqueOwners(copies[c]) => UniqueOwners(o)
        /\ UniqueOwners(copies[c]) /\ OneOf(copies[c]) => OneOf(o)
    BY <2>1, AddUnique, AddOne
  <2>4. Own(c, o)
    BY <1>3 DEF OwnerAdd
  <2> HIDE DEF o
  <2> QED BY <2>2, <2>3, <2>4, OwnKeeps
<1>4. ASSUME NEW c \in Controllers, AddControllerReference(c) PROVE MetadataInv'
  <2>1. copies[c] \in Objects /\ AsController(c) \in Ref /\ AsController(c).uid = c
    BY Zenon DEF MetadataInv, MetadataTyped, AsOwner, AsController, Ref
  <2> DEFINE o == AddOwnerReference(copies[c], AsController(c))
  <2>2. /\ o \in Objects /\ o.rv = copies[c].rv /\ o.deleted = copies[c].deleted
        /\ o.finalizers = copies[c].finalizers
    BY <2>1, OwnersType
  <2>3. Own(c, o) /\ Controllable(copies[c], c)
    BY <1>4 DEF AddControllerReference
  <2>4. /\ UniqueOwners(copies[c]) => UniqueOwners(o)
        /\ UniqueOwners(copies[c]) /\ OneOf(copies[c]) => OneOf(o)
    BY <2>1, <2>3, AddUnique, AddOne
  <2> HIDE DEF o
  <2> QED BY <2>2, <2>3, <2>4, OwnKeeps
<1>5. ASSUME NEW c \in Controllers, OwnerRemove(c) PROVE MetadataInv'
  <2>1. PICK i \in DOMAIN copies[c].refs : Own(c, RemoveOwnerRef(copies[c], i))
    BY <1>5 DEF OwnerRemove
  <2>2. copies[c] \in Objects
    BY DEF MetadataInv, MetadataTyped
  <2> DEFINE o == RemoveOwnerRef(copies[c], i)
  <2>3. /\ o \in Objects /\ o.rv = copies[c].rv /\ o.deleted = copies[c].deleted
        /\ o.finalizers = copies[c].finalizers
        /\ UniqueOwners(copies[c]) => UniqueOwners(o)
        /\ OneOf(copies[c]) => OneOf(o)
    BY <2>2, RemoveOwner
  <2>4. Own(c, o)
    BY <2>1
  <2> HIDE DEF o
  <2> QED BY <2>3, <2>4, OwnKeeps
<1>6. CASE UNCHANGED metadataVars
  BY <1>6 DEF metadataVars, MetadataInv, MetadataTyped, Current, Claimed, FinalizersProtect, UniqueOwners, OneOf
<1> QED BY <1>1, <1>2, <1>3, <1>4, <1>5, <1>6 DEF MetadataNext

\* It holds in every reachable state.
LEMMA MetadataInvariance == MetadataSpec => []MetadataInv
<1>1. MetadataInit => MetadataInv
  <2> SUFFICES ASSUME MetadataInit PROVE MetadataInv
    OBVIOUS
  <2>1. NoObject \in Objects /\ NoObject.rv = 0 /\ NoObject.refs = <<>>
    BY DEF NoObject, Objects
  <2>2. object \in Objects /\ object.rv = 1 /\ object.refs = <<>>
    <3>1. object = [NoObject EXCEPT !.rv = 1]
      BY DEF MetadataInit
    <3> QED BY <2>1, <3>1 DEF Objects
  <2>3. copies = [c \in Controllers |-> NoObject] /\ holds = {} /\ owners = 0
    BY DEF MetadataInit
  <2> QED BY <2>1, <2>2, <2>3 DEF MetadataInv, MetadataTyped, Current, Claimed, FinalizersProtect, UniqueOwners, OneOf
<1> QED BY <1>1, MetadataKeeps, PTL DEF MetadataSpec

\* For any number of controllers, an object stays for as long as a controller was told that its
\* finalizer is there and did not remove it (APIFinalizer of pkg/resource/api.go).
THEOREM FinalizersHold == MetadataSpec => []FinalizersProtect
<1>1. MetadataInv => FinalizersProtect
  BY DEF MetadataInv
<1> QED BY <1>1, MetadataInvariance, PTL

\* An object never gets a second controller, and lists no owner twice (AddControllerReference and
\* AddOwnerReference of pkg/meta/meta.go), however many controllers and owners compete for it.
THEOREM ControlIsExclusive == MetadataSpec => []OneController
<1>1. MetadataInv => OneController
  <2> SUFFICES ASSUME MetadataInv PROVE OneController
    OBVIOUS
  <2>1. \A c, d \in ControllersOf(object) : c = d
    BY DEF MetadataInv, OneOf, ControllersOf
  <2>2. IsInjective([i \in DOMAIN object.refs |-> object.refs[i].uid])
    BY DEF MetadataInv, UniqueOwners, IsInjective
  <2> QED BY <2>1, <2>2 DEF OneController
<1> QED BY <1>1, MetadataInvariance, PTL

\* An update brings in no second controller if it adds none to its copy.
LEMMA UpdateStepsDown ==
  ASSUME MetadataInv, NEW c \in Controllers, NEW o \in Objects, UpdateObject(c, o), o.rv = copies[c].rv, copies[c].rv > 0,
         ControllersOf(copies[c]) # {} => ControllersOf(o) \subseteq ControllersOf(copies[c])
  PROVE  ControllersOf(object) # {} /\ object'.rv > 0 => ControllersOf(object') \subseteq ControllersOf(object)
<1>1. CASE ~Accepts(o)
  BY <1>1 DEF UpdateObject
<1>2. CASE Accepts(o)
  <2>1. object' = Stored(o) /\ copies[c] = object
    BY <1>2, Zenon DEF UpdateObject, Accepts, MetadataInv, Current
  <2>2. CASE o.deleted /\ o.finalizers = {}
    BY <2>1, <2>2 DEF Stored, NoObject
  <2>3. CASE ~(o.deleted /\ o.finalizers = {})
    <3>1. Stored(o).refs = o.refs
      BY <2>3, StoredType
    <3>2. ControllersOf(Stored(o)) = ControllersOf(o)
      BY <3>1 DEF ControllersOf
    <3> QED BY <2>1, <3>2
  <2> QED BY <2>2, <2>3
<1> QED BY <1>1, <1>2

\* A step that changes who controls an object leaves it without a controller, or finds it so.
LEMMA NextStepsDown ==
  ASSUME MetadataInv, MetadataNext, ControllersOf(object) # {}, object'.rv > 0
  PROVE  ControllersOf(object') \subseteq ControllersOf(object)
<1>1. CASE Delete
  <2> DEFINE o == [object EXCEPT !.deleted = TRUE]
  <2>1. object' = Stored(o)
    BY <1>1 DEF Delete
  <2>2. o \in Objects /\ o.refs = object.refs
    BY Zenon DEF MetadataInv, MetadataTyped, Objects
  <2> HIDE DEF o
  <2>3. ~(o.deleted /\ o.finalizers = {})
    BY <2>1 DEF Stored, NoObject
  <2>4. object'.refs = object.refs
    BY <2>1, <2>2, <2>3, StoredType
  <2> QED BY <2>4 DEF ControllersOf
<1>2. ASSUME NEW c \in Controllers, Get(c) \/ FinalizerAdd(c) \/ FinalizerRemove(c)
      PROVE  ControllersOf(object') \subseteq ControllersOf(object)
  <2>1. CASE object' = object
    BY <2>1
  <2>2. CASE object' # object
    <3>1. PICK o \in {AddFinalizer(copies[c], c), RemoveFinalizer(copies[c], c)} : UpdateObject(c, o)
      BY <1>2, <2>2 DEF Get, FinalizerAdd, FinalizerRemove
    <3>2. copies[c] \in Objects /\ copies[c].rv > 0
      BY <1>2, <2>2 DEF MetadataInv, MetadataTyped, Get, FinalizerAdd, FinalizerRemove
    <3>3. o \in Objects /\ o.refs = copies[c].refs /\ o.rv = copies[c].rv
      BY <3>1, <3>2, FinalizersType
    <3>4. ControllersOf(o) = ControllersOf(copies[c])
      BY <3>3 DEF ControllersOf
    <3> QED BY <3>1, <3>2, <3>3, <3>4, UpdateStepsDown
  <2> QED BY <2>1, <2>2
<1>3. ASSUME NEW c \in Controllers, NEW r \in Ref, r.controller => Controllable(copies[c], c) /\ r.uid = c,
             Own(c, AddOwnerReference(copies[c], r))
      PROVE  ControllersOf(object') \subseteq ControllersOf(object)
  <2> DEFINE o == AddOwnerReference(copies[c], r)
  <2>1. UpdateObject(c, o) /\ copies[c] \in Objects /\ copies[c].rv > 0
    BY <1>3 DEF Own, MetadataInv, MetadataTyped
  <2>2. o \in Objects /\ o.rv = copies[c].rv
    BY <2>1, OwnersType
  <2>3. \A i \in DOMAIN o.refs : o.refs[i].controller =>
          \/ \E j \in DOMAIN copies[c].refs : o.refs[i] = copies[c].refs[j]
          \/ r.controller /\ o.refs[i].uid = c
    <3> DEFINE was == copies[c].refs
               there == \E i \in DOMAIN was : was[i].uid = r.uid
    <3>1. was \in Seq(Ref)
      BY <2>1 DEF Objects
    <3>2. CASE there
      <4>1. o.refs = [i \in DOMAIN was |-> IF IsFirst(copies[c], i, r.uid) THEN r ELSE was[i]]
        BY <2>1, <3>2 DEF AddOwnerReference, Objects
      <4> QED BY <1>3, <4>1
    <3>3. CASE ~there
      <4>1. o.refs = Append(was, r)
        BY <2>1, <3>3 DEF AddOwnerReference, Objects
      <4> HIDE DEF o
      <4> QED BY <1>3, <3>1, <4>1
    <3> QED BY <3>2, <3>3
  <2> HIDE DEF o
  <2>4. \A u \in ControllersOf(o) : u \in ControllersOf(copies[c]) \/ (r.controller /\ u = c)
    BY <2>3 DEF ControllersOf
  <2>5. r.controller => ControllersOf(copies[c]) \subseteq {c}
    BY <1>3 DEF Controllable
  <2>6. ControllersOf(copies[c]) # {} => ControllersOf(o) \subseteq ControllersOf(copies[c])
    BY <2>4, <2>5
  <2> QED BY <2>1, <2>2, <2>6, UpdateStepsDown
<1>4. ASSUME NEW c \in Controllers, OwnerAdd(c) \/ AddControllerReference(c)
      PROVE  ControllersOf(object') \subseteq ControllersOf(object)
  BY <1>3, <1>4, Zenon DEF OwnerAdd, AddControllerReference, AsOwner, AsController, Ref
<1>5. ASSUME NEW c \in Controllers, OwnerRemove(c)
      PROVE  ControllersOf(object') \subseteq ControllersOf(object)
  <2>1. PICK i \in DOMAIN copies[c].refs : Own(c, RemoveOwnerRef(copies[c], i))
    BY <1>5 DEF OwnerRemove
  <2> DEFINE o == RemoveOwnerRef(copies[c], i)
  <2>2. UpdateObject(c, o) /\ copies[c] \in Objects /\ copies[c].rv > 0
    BY <2>1 DEF Own, MetadataInv, MetadataTyped
  <2>3. /\ o \in Objects /\ o.rv = copies[c].rv
        /\ \A j \in DOMAIN o.refs : \E k \in DOMAIN copies[c].refs : o.refs[j] = copies[c].refs[k]
    BY <2>2, RemoveOwner
  <2> HIDE DEF o
  <2>4. ControllersOf(o) \subseteq ControllersOf(copies[c])
    BY <2>3 DEF ControllersOf
  <2> QED BY <2>2, <2>3, <2>4, UpdateStepsDown
<1> QED BY <1>1, <1>2, <1>4, <1>5 DEF MetadataNext

\* However many controllers compete, an object changes hands only after its controller removed or
\* demoted its own reference (AddControllerReference of pkg/meta/meta.go refuses another's).
THEOREM ControlIsHandedOver == MetadataSpec => ControllersStepDown
<1>1. MetadataInv /\ [MetadataNext]_metadataVars =>
        [ControllersOf(object) # {} /\ object'.rv > 0 /\ ControllersOf(object') # ControllersOf(object)
           => ControllersOf(object') = {}]_metadataVars
  <2> SUFFICES ASSUME MetadataInv, MetadataNext, ControllersOf(object) # {}, object'.rv > 0,
                      ControllersOf(object') # ControllersOf(object)
               PROVE  ControllersOf(object') = {}
    BY DEF metadataVars
  <2>1. \A c, d \in ControllersOf(object) : c = d
    BY DEF MetadataInv, OneOf, ControllersOf
  <2>2. ControllersOf(object') \subseteq ControllersOf(object)
    BY NextStepsDown
  <2> QED BY <2>1, <2>2
<1> QED BY <1>1, MetadataInvariance, PTL DEF MetadataSpec, ControllersStepDown

\* All three at once: finalizers protect their object, it has one controller at most, and that one
\* steps down before another takes over (pkg/meta/meta.go, APIFinalizer of pkg/resource/api.go).
THEOREM GuardsObjects == MetadataSpec => ObjectIsGuarded
BY FinalizersHold, ControlIsExclusive, ControlIsHandedOver, PTL DEF ObjectIsGuarded

-----------------------------------------------------------------------------
(* The recorder.                                                           *)

Records == [uid : Nat, synced : {"Unknown", "True", "False"}, ready : BOOLEAN, deleted : BOOLEAN]

Calls == [step : {"idle", "reconcile", "ready"}, copy : Records]

\* The objects that have been seen of a resource.
Copies(r) == {managed[r], cache[r], requests[r].copy}

MetricsTyped == /\ managed \in [Resources -> Records] /\ cache \in [Resources -> Records]
                /\ requests \in [Resources -> Calls] /\ births \in Nat

\* UIDs are given once.
UIDsDiffer == /\ \A r \in Resources : \A o \in Copies(r) : o.uid <= births
              /\ \A r, s \in Resources : \A o \in Copies(r), p \in Copies(s) : o.uid > 0 /\ o.uid = p.uid => r = s

\* A resource that is reconciled has been in the cache, and a status is written from there: the cache has
\* the resource then, unless it has one that came later.
Leads(r) ==
  /\ requests[r].step # "idle" => requests[r].copy.uid > 0
  /\ requests[r].step # "idle" /\ requests[r].copy.uid = managed[r].uid => cache[r].uid = managed[r].uid
  /\ managed[r].uid > 0 /\ managed[r].synced # "Unknown" => cache[r].uid = managed[r].uid
  /\ managed[r].uid = 0 => managed[r] = NoManaged

CacheLeads == \A r \in Resources : Leads(r)

\* The resources of which the recorder can know that they were recorded as ready.
Known == recorded \ misled

\* The server knows that such a resource was reconciled, and its name is not in the map.
Seen(r) ==
  /\ requests[r].step = "ready" => requests[r].copy.uid \notin Known
  /\ requests[r].step = "idle" => requests[r].copy = NoManaged
  /\ managed[r].uid > 0 /\ managed[r].uid \in Known => managed[r].synced # "Unknown"
  /\ Name[r] \in firstObservation => \A o \in Copies(r) : o.uid > 0 => o.uid \notin Known

Detected == /\ \A u \in recorded : u \in Nat /\ u <= births
            /\ \A r \in Resources : Seen(r)

RecorderInv == MetricsTyped /\ UIDsDiffer /\ CacheLeads /\ Detected

\* Of two resources no two have one name.
NamesDiffer == \A r, s \in Resources : Name[r] = Name[s] => r = s

\* A status is written to the resource it was computed for, and to no other.
LEMMA StatusWritten ==
  ASSUME MetricsTyped, NEW r \in Resources, NEW synced \in {"True", "False"}, NEW ready \in BOOLEAN,
         UpdateStatus(r, synced, ready)
  PROVE  /\ managed' \in [Resources -> Records]
         /\ \A s \in Resources : managed'[s].uid = managed[s].uid
         /\ \A s \in Resources \ {r} : managed'[s] = managed[s]
         /\ managed'[r] # managed[r] => requests[r].copy = managed[r] /\ managed'[r].synced # "Unknown"
<1> DEFINE o == [managed[r] EXCEPT !.synced = synced, !.ready = ready]
<1>1. o \in Records /\ o.uid = managed[r].uid /\ o.synced = synced
  BY Zenon DEF MetricsTyped, Records
<1>2. \/ UNCHANGED managed
      \/ requests[r].copy = managed[r] /\ managed' = [managed EXCEPT ![r] = o]
  BY Zenon DEF UpdateStatus, MetricsTyped
<1> HIDE DEF o
<1>3. CASE UNCHANGED managed
  BY <1>3 DEF MetricsTyped
<1>4. CASE requests[r].copy = managed[r] /\ managed' = [managed EXCEPT ![r] = o]
  BY <1>1, <1>4 DEF MetricsTyped
<1> QED BY <1>2, <1>3, <1>4

\* No request, and no resource.
LEMMA IdleTyped == Idle \in Calls /\ Idle.step = "idle" /\ Idle.copy = NoManaged /\ NoManaged \in Records /\ NoManaged.uid = 0
  BY DEF Idle, Calls, NoManaged, Records

\* A reconcile that returns, with a status written or not.
LEMMA ReturnKeeps ==
  ASSUME RecorderInv, NamesDiffer, NEW r \in Resources, requests[r].step # "idle", Return(r),
         UNCHANGED <<cache, births>>,
         NEW synced \in {"True", "False"}, NEW ready \in BOOLEAN, UpdateStatus(r, synced, ready),
         \/ UNCHANGED recorder
         \/ /\ recorded' = recorded \cup {requests[r].copy.uid} /\ firstObservation' = firstObservation \ {Name[r]}
            /\ misled' = IF managed'[r].synced = "Unknown" THEN misled \cup {requests[r].copy.uid} ELSE misled
  PROVE  RecorderInv'
<1>1. /\ managed' \in [Resources -> Records]
      /\ \A s \in Resources : managed'[s].uid = managed[s].uid
      /\ \A s \in Resources \ {r} : managed'[s] = managed[s]
      /\ managed'[r] # managed[r] => requests[r].copy = managed[r] /\ managed'[r].synced # "Unknown"
  BY StatusWritten DEF RecorderInv
<1>2. /\ requests' \in [Resources -> Calls] /\ requests'[r] = Idle
      /\ \A s \in Resources \ {r} : requests'[s] = requests[s]
  BY IdleTyped DEF Return, RecorderInv, MetricsTyped
<1>3. MetricsTyped'
  BY <1>1, <1>2 DEF RecorderInv, MetricsTyped
<1>4. \A s \in Resources : \A o \in Copies(s)' : o.uid = 0 \/ \E p \in Copies(s) : p.uid = o.uid
  BY <1>1, <1>2, IdleTyped DEF Copies
<1>5. \A s \in Resources : \A o \in Copies(s)' : o.uid \in Nat
  BY <1>3 DEF MetricsTyped, Records, Calls, Copies
<1>6. UIDsDiffer'
  <2>1. \A s \in Resources : \A o \in Copies(s)' : o.uid <= births
    BY <1>4, <1>5 DEF RecorderInv, UIDsDiffer, MetricsTyped
  <2>2. \A s, t \in Resources : \A o \in Copies(s)', p \in Copies(t)' : o.uid > 0 /\ o.uid = p.uid => s = t
    BY <1>4, <1>5 DEF RecorderInv, UIDsDiffer
  <2> QED BY <2>1, <2>2 DEF UIDsDiffer, Copies
<1>7. CacheLeads'
  <2> SUFFICES ASSUME NEW s \in Resources PROVE Leads(s)'
    BY DEF CacheLeads
  <2>1. CASE s # r
    BY <1>1, <1>2, <2>1 DEF RecorderInv, CacheLeads, Leads
  <2>2. CASE s = r
    BY <1>1, <1>2, <2>2, IdleTyped DEF RecorderInv, CacheLeads, Leads
  <2> QED BY <2>1, <2>2
<1>8. Detected'
  <2>1. /\ requests[r].copy.uid \in Nat /\ requests[r].copy.uid > 0 /\ requests[r].copy.uid <= births
        /\ requests[r].copy \in Copies(r)
    BY DEF RecorderInv, CacheLeads, Leads, UIDsDiffer, Copies, MetricsTyped, Records, Calls
  <2>2. \A u \in recorded' : u \in Nat /\ u <= births'
    BY <2>1 DEF RecorderInv, Detected, recorder
  <2>3. Known' \subseteq Known \cup {requests[r].copy.uid}
    BY DEF Known, recorder
  <2> SUFFICES ASSUME NEW s \in Resources PROVE Seen(s)'
    BY <2>2 DEF Detected
  <2>4. Seen(s)
    BY DEF RecorderInv, Detected
  <2>5. CASE s # r
    <3>1. \A o \in Copies(s) : o.uid > 0 => o.uid # requests[r].copy.uid
      BY <2>1, <2>5 DEF RecorderInv, UIDsDiffer
    <3>2. requests'[s] = requests[s] /\ managed'[s] = managed[s] /\ Copies(s)' = Copies(s)
      BY <1>1, <1>2, <2>5 DEF Copies
    <3>3. \A o \in Copies(s) : o.uid > 0 /\ o.uid \in Known' => o.uid \in Known
      BY <2>3, <3>1
    <3>4. Name[s] \in firstObservation' => Name[s] \in firstObservation
      BY DEF recorder
    <3>5. /\ requests[s].step # "idle" => requests[s].copy.uid > 0
          /\ requests[s].copy \in Copies(s) /\ managed[s] \in Copies(s)
      BY DEF RecorderInv, CacheLeads, Leads, Copies
    <3> QED BY <2>4, <3>2, <3>3, <3>4, <3>5 DEF Seen
  <2>6. CASE s = r
    <3>1. requests'[r].step = "idle" /\ requests'[r].copy = NoManaged /\ requests'[r].step # "ready"
      BY <1>2, IdleTyped
    <3>2. ASSUME managed'[r].uid > 0, managed'[r].uid \in Known' PROVE managed'[r].synced # "Unknown"
      <4>1. CASE managed'[r].uid \in Known
        BY <1>1, <2>4, <2>6, <3>2, <4>1 DEF Seen
      <4>2. CASE managed'[r].uid \notin Known
        BY <2>3, <3>2, <4>2 DEF Known, recorder
      <4> QED BY <4>1, <4>2
    <3>3. ASSUME Name[r] \in firstObservation', NEW o \in Copies(r)', o.uid > 0
          PROVE  o.uid \notin Known'
      <4>1. Name[r] \in firstObservation /\ Known' = Known
        BY <3>3 DEF recorder, Known
      <4>2. \E p \in Copies(r) : p.uid = o.uid
        BY <1>4, <3>3
      <4> QED BY <2>4, <2>6, <3>3, <4>1, <4>2 DEF Seen
    <3> QED BY <2>6, <3>1, <3>2, <3>3 DEF Seen
  <2> QED BY <2>5, <2>6
<1> QED BY <1>3, <1>6, <1>7, <1>8 DEF RecorderInv

\* UIDs stay apart while no resource gets one that another had.
LEMMA UIDsKeep ==
  ASSUME UIDsDiffer, births' \in Nat, births <= births', MetricsTyped, MetricsTyped',
         \A r \in Resources : \A o \in Copies(r)' : o.uid = 0 \/ \E p \in Copies(r) : p.uid = o.uid
  PROVE  UIDsDiffer'
<1>1. \A r \in Resources : \A o \in Copies(r)' : o.uid \in Nat
  BY DEF MetricsTyped, Records, Calls, Copies
<1>2. \A r \in Resources : \A o \in Copies(r)' : o.uid <= births'
  BY <1>1 DEF UIDsDiffer, MetricsTyped
<1>3. \A r, s \in Resources : \A o \in Copies(r)', p \in Copies(s)' : o.uid > 0 /\ o.uid = p.uid => r = s
  BY <1>1 DEF UIDsDiffer
<1> QED BY <1>2, <1>3 DEF UIDsDiffer, Copies

\* The beginning of a reconcile: what the recorder can know to be recorded does not come back into the map.
LEMMA ReconcileKeeps ==
  ASSUME RecorderInv, NamesDiffer, NEW r \in Resources, Reconcile(r) PROVE RecorderInv'
<1> DEFINE c == [step |-> "reconcile", copy |-> cache[r]]
<1>1. /\ requests[r].step = "idle" /\ cache[r].uid > 0 /\ UNCHANGED <<managed, cache, births>>
      /\ requests' = [requests EXCEPT ![r] = c]
  BY DEF Reconcile
<1>2. c \in Calls /\ c.step = "reconcile" /\ c.copy = cache[r]
  BY DEF RecorderInv, MetricsTyped, Calls
<1> HIDE DEF c
<1>3. /\ requests' \in [Resources -> Calls] /\ requests'[r] = c
      /\ \A s \in Resources \ {r} : requests'[s] = requests[s]
  BY <1>1, <1>2 DEF RecorderInv, MetricsTyped
<1>4. MetricsTyped'
  BY <1>1, <1>3 DEF RecorderInv, MetricsTyped
<1>5. UIDsDiffer'
  <2>1. \A s \in Resources : Copies(s)' \subseteq Copies(s)
    BY <1>1, <1>2, <1>3 DEF Copies
  <2> QED BY <1>1, <1>4, <2>1, UIDsKeep DEF RecorderInv, MetricsTyped
<1>6. CacheLeads'
  <2> SUFFICES ASSUME NEW s \in Resources PROVE Leads(s)'
    BY DEF CacheLeads
  <2> QED BY <1>1, <1>2, <1>3 DEF RecorderInv, CacheLeads, Leads
<1>7. Detected'
  <2>1. recorded' = recorded /\ Known' \subseteq Known /\ \A u \in recorded' : u \in Nat /\ u <= births'
    BY <1>1 DEF Reconcile, Known, RecorderInv, Detected
  <2> SUFFICES ASSUME NEW s \in Resources PROVE Seen(s)'
    BY <2>1 DEF Detected
  <2>2. Seen(s) /\ Leads(s)
    BY DEF RecorderInv, Detected, CacheLeads
  <2>3. CASE s # r
    <3>1. requests'[s] = requests[s] /\ Copies(s)' = Copies(s) /\ managed'[s] = managed[s]
      BY <1>1, <1>3, <2>3, SMTT(30) DEF Copies
    <3>2. Name[s] \in firstObservation' => Name[s] \in firstObservation
      BY <2>3 DEF Reconcile, recordFirstTimeReconciled, NamesDiffer
    <3> QED BY <2>1, <2>2, <3>1, <3>2 DEF Seen
  <2>4. CASE s = r
    <3>1. requests'[r].step = "reconcile" /\ requests'[r].copy = cache[r] /\ Copies(r)' = {managed[r], cache[r]}
      BY <1>1, <1>2, <1>3 DEF Copies
    <3>2. ASSUME Name[r] \in firstObservation', NEW o \in Copies(r)', o.uid > 0 PROVE o.uid \notin Known'
      <4>1. CASE Name[r] \in firstObservation
        BY <2>1, <2>2, <2>4, <3>1, <3>2, <4>1 DEF Seen, Copies
      <4>2. CASE Name[r] \notin firstObservation
        <5>1. cache[r].synced = "Unknown"
          BY <3>2, <4>2 DEF Reconcile, recordFirstTimeReconciled
        <5>2. cache[r].uid \in Known' => cache[r] = managed[r] /\ cache[r].uid \in Known
          BY <2>1, <5>1 DEF Reconcile, Outdated, Known
        <5>3. cache[r].uid \notin Known'
          BY <1>1, <2>2, <2>4, <5>1, <5>2 DEF Seen
        <5>4. managed[r].uid > 0 /\ managed[r].uid \in Known' => managed[r].uid = cache[r].uid
          BY <2>1, <2>2, <2>4 DEF Seen, Leads
        <5> QED BY <3>1, <3>2, <5>3, <5>4
      <4> QED BY <4>1, <4>2
    <3> QED BY <1>1, <2>1, <2>2, <2>4, <3>1, <3>2 DEF Seen
  <2> QED BY <2>3, <2>4
<1> QED BY <1>4, <1>5, <1>6, <1>7 DEF RecorderInv

\* A resource that is found ready while its name is in the map was not recorded, as far as the recorder can know.
LEMMA ReadyKeeps ==
  ASSUME RecorderInv, NEW r \in Resources, requests[r].step = "reconcile", Name[r] \in firstObservation,
         requests' = [requests EXCEPT ![r].step = "ready"], UNCHANGED <<managed, cache, recorder, births>>
  PROVE  RecorderInv'
<1> DEFINE c == [requests[r] EXCEPT !.step = "ready"]
<1>1. c \in Calls /\ c.step = "ready" /\ c.copy = requests[r].copy
  BY DEF RecorderInv, MetricsTyped, Calls
<1>2. requests' = [requests EXCEPT ![r] = c]
  BY DEF RecorderInv, MetricsTyped
<1> HIDE DEF c
<1>3. /\ requests' \in [Resources -> Calls] /\ requests'[r] = c
      /\ \A s \in Resources \ {r} : requests'[s] = requests[s]
  BY <1>1, <1>2 DEF RecorderInv, MetricsTyped
<1>4. MetricsTyped'
  BY <1>3 DEF RecorderInv, MetricsTyped
<1>5. \A s \in Resources : Copies(s)' = Copies(s)
  BY <1>1, <1>3 DEF Copies
<1>6. UIDsDiffer'
  BY <1>4, <1>5, UIDsKeep DEF RecorderInv, MetricsTyped
<1>7. CacheLeads'
  BY <1>1, <1>3 DEF RecorderInv, CacheLeads, Leads
<1>8. requests[r].copy.uid \notin Known
  BY DEF RecorderInv, Detected, Seen, CacheLeads, Leads, Copies
<1>9. Detected'
  <2> SUFFICES ASSUME NEW s \in Resources PROVE Seen(s)'
    BY DEF RecorderInv, Detected, recorder
  <2> QED BY <1>1, <1>3, <1>5, <1>8 DEF RecorderInv, Detected, Seen, Known, recorder
<1> QED BY <1>4, <1>6, <1>7, <1>9 DEF RecorderInv

\* What a resource may become, other than by a status.
Becomes(r, o) == \/ o = NoManaged
                 \/ births < o.uid /\ o.uid <= births' /\ o.synced = "Unknown"
                 \/ managed[r].uid > 0 /\ o.uid = managed[r].uid /\ o.synced = managed[r].synced

\* A change of a resource that nothing was read from yet, by users or by recordDeleted.
LEMMA ManagedChanges ==
  ASSUME RecorderInv, NEW r \in Resources, NEW o \in Records, managed' = [managed EXCEPT ![r] = o],
         births' \in Nat, births <= births', UNCHANGED <<cache, recorder>>,
         UNCHANGED requests \/ Return(r), Becomes(r, o)
  PROVE  RecorderInv'
<1>1. /\ managed' \in [Resources -> Records] /\ managed'[r] = o
      /\ \A s \in Resources \ {r} : managed'[s] = managed[s]
  BY DEF RecorderInv, MetricsTyped
<1>2. requests' \in [Resources -> Calls] /\ \A s \in Resources : requests'[s] \in {requests[s], Idle}
  BY IdleTyped DEF Return, RecorderInv, MetricsTyped
<1>3. MetricsTyped'
  BY <1>1, <1>2 DEF RecorderInv, MetricsTyped
<1>4. \A s \in Resources : \A x \in Copies(s) : x.uid \in Nat /\ x.uid <= births
  BY DEF RecorderInv, UIDsDiffer, MetricsTyped, Records, Calls, Copies
<1>5. \A s \in Resources : \A x \in Copies(s)' : \/ x.uid = 0
                                                 \/ \E y \in Copies(s) : y.uid = x.uid
                                                 \/ s = r /\ births < x.uid /\ x.uid <= births'
  BY <1>1, <1>2, IdleTyped DEF Copies, Becomes
<1>6. UIDsDiffer'
  <2>1. births \in Nat /\ \A s \in Resources : \A x \in Copies(s)' : x.uid \in Nat /\ x.uid <= births'
    <3>1. births \in Nat /\ \A s \in Resources : \A x \in Copies(s)' : x.uid \in Nat
      BY <1>3 DEF MetricsTyped, Records, Calls, Copies, RecorderInv
    <3> QED BY <1>4, <1>5, <3>1
  <2>2. \A s, t \in Resources : \A x \in Copies(s)', y \in Copies(t)' : x.uid > 0 /\ x.uid = y.uid => s = t
    <3> SUFFICES ASSUME NEW s \in Resources, NEW t \in Resources, NEW x \in Copies(s)', NEW y \in Copies(t)',
                        x.uid > 0, x.uid = y.uid
                 PROVE  s = t
      OBVIOUS
    <3>1. CASE \E v \in Copies(s) : v.uid = x.uid
      <4>1. \E w \in Copies(t) : w.uid = y.uid
        BY <1>4, <1>5, <2>1, <3>1
      <4> QED BY <3>1, <4>1 DEF RecorderInv, UIDsDiffer
    <3>2. CASE s = r /\ births < x.uid
      BY <1>4, <1>5, <2>1, <3>2
    <3> QED BY <1>5, <3>1, <3>2
  <2> QED BY <2>1, <2>2 DEF UIDsDiffer, Copies
<1>7. CacheLeads'
  <2> SUFFICES ASSUME NEW s \in Resources PROVE Leads(s)'
    BY DEF CacheLeads
  <2>1. Leads(s) /\ managed[s].uid \in Nat /\ requests[s].copy.uid <= births /\ requests[s].copy.uid \in Nat /\ births \in Nat
    BY <1>4 DEF RecorderInv, CacheLeads, Copies, MetricsTyped
  <2>2. o.uid \in Nat
    BY SMTT(30) DEF Records
  <2> QED BY <1>1, <1>2, <2>1, <2>2, IdleTyped DEF Leads, Becomes
<1>8. Detected'
  <2>1. Known' = Known /\ firstObservation' = firstObservation /\ births \in Nat
    BY DEF Known, recorder, RecorderInv, MetricsTyped
  <2>2. \A u \in recorded' : u \in Nat /\ u <= births'
    BY <2>1 DEF RecorderInv, Detected, recorder
  <2>3. \A u \in Known : u \in Nat /\ u <= births
    BY DEF RecorderInv, Detected, Known
  <2> SUFFICES ASSUME NEW s \in Resources PROVE Seen(s)'
    BY <2>2 DEF Detected
  <2>4. Seen(s)
    BY DEF RecorderInv, Detected
  <2>5. requests'[s].step # "idle" => requests'[s] = requests[s]
    BY <1>2, IdleTyped
  <2>6. requests'[s].step = "idle" => requests'[s].copy = NoManaged
    BY <1>2, <2>4, IdleTyped DEF Seen
  <2>7. managed'[s].uid > 0 /\ managed'[s].uid \in Known
          => managed'[s].uid = managed[s].uid /\ managed'[s].synced = managed[s].synced
    BY <1>1, <2>1, <2>3, IdleTyped DEF Becomes
  <2>8. ASSUME Name[s] \in firstObservation, NEW x \in Copies(s)', x.uid > 0 PROVE x.uid \notin Known
    <3>1. CASE x = managed'[s]
      BY <2>4, <2>7, <2>8, <3>1 DEF Seen, Copies
    <3>2. CASE x \in Copies(s)
      BY <2>4, <2>8, <3>2 DEF Seen
    <3> QED BY <1>2, <2>8, <3>1, <3>2, IdleTyped DEF Copies
  <2> QED BY <2>1, <2>4, <2>5, <2>6, <2>7, <2>8 DEF Seen
<1> QED BY <1>3, <1>6, <1>7, <1>8 DEF RecorderInv

\* The informer catches up.
LEMMA CacheKeeps == ASSUME RecorderInv, NEW r \in Resources, CacheSync(r) PROVE RecorderInv'
<1>1. cache' = [cache EXCEPT ![r] = managed[r]] /\ UNCHANGED <<managed, requests, firstObservation, recorded, misled, births>>
  BY DEF CacheSync, recorder
<1>2. MetricsTyped'
  BY <1>1 DEF RecorderInv, MetricsTyped
<1>3. cache'[r] = managed[r] /\ \A s \in Resources \ {r} : cache'[s] = cache[s]
  BY <1>1 DEF RecorderInv, MetricsTyped
<1>4. \A s \in Resources : Copies(s)' \subseteq Copies(s)
  BY <1>1, <1>3 DEF Copies
<1>5. UIDsDiffer'
  BY <1>1, <1>2, <1>4, UIDsKeep DEF RecorderInv, MetricsTyped
<1>6. CacheLeads'
  BY <1>1, <1>3 DEF RecorderInv, CacheLeads, Leads
<1>7. Detected'
  BY <1>1, <1>4 DEF RecorderInv, Detected, Seen, Known
<1> QED BY <1>2, <1>5, <1>6, <1>7 DEF RecorderInv

\* A restart loses the map and the requests.
LEMMA RestartKeeps == ASSUME RecorderInv, Restart PROVE RecorderInv'
<1>1. /\ requests' = [r \in Resources |-> Idle] /\ firstObservation' = {}
      /\ UNCHANGED <<managed, cache, recorded, misled, births>>
  BY DEF Restart
<1>2. MetricsTyped'
  BY <1>1, IdleTyped DEF RecorderInv, MetricsTyped
<1>3. \A r \in Resources : \A o \in Copies(r)' : o.uid = 0 \/ \E p \in Copies(r) : p.uid = o.uid
  BY <1>1, IdleTyped DEF Copies
<1>4. UIDsDiffer'
  BY <1>1, <1>2, <1>3, UIDsKeep DEF RecorderInv, MetricsTyped
<1>5. CacheLeads'
  BY <1>1, IdleTyped DEF RecorderInv, CacheLeads, Leads
<1>6. Detected'
  BY <1>1, IdleTyped DEF RecorderInv, Detected, Seen, Known
<1> QED BY <1>2, <1>4, <1>5, <1>6 DEF RecorderInv

\* Every step keeps what the recorder relies on.
LEMMA RecorderKeeps == ASSUME RecorderInv, NamesDiffer, [Next]_vars PROVE RecorderInv'
<1>1. CASE UNCHANGED <<managed, cache, requests, recorder, births>>
  <2>1. UNCHANGED <<managed, cache, requests, firstObservation, recorded, misled, births>>
    BY <1>1 DEF recorder
  <2>2. \A r \in Resources : Copies(r)' = Copies(r)
    BY <2>1 DEF Copies
  <2>3. MetricsTyped' /\ UIDsDiffer'
    BY <2>1, <2>2 DEF RecorderInv, MetricsTyped, UIDsDiffer
  <2>4. CacheLeads'
    BY <2>1 DEF RecorderInv, CacheLeads, Leads
  <2>5. Detected'
    BY <2>1, <2>2 DEF RecorderInv, Detected, Seen, Known
  <2> QED BY <2>3, <2>4, <2>5 DEF RecorderInv
<1>2. ASSUME NEW r \in Resources, FirstTimeReady(r) PROVE RecorderInv'
  BY <1>2, ReturnKeeps, Zenon DEF FirstTimeReady, recordFirstTimeReady
<1>3. ASSUME NEW r \in Resources, NEW ready \in BOOLEAN, UpToDate(r, ready) PROVE RecorderInv'
  <2>1. CASE ready /\ Name[r] \in firstObservation
    BY <1>3, <2>1, ReadyKeeps DEF UpToDate
  <2>2. CASE ~(ready /\ Name[r] \in firstObservation)
    BY <1>3, <2>2, ReturnKeeps DEF UpToDate
  <2> QED BY <2>1, <2>2
<1>4. ASSUME NEW r \in Resources, NEW ready \in BOOLEAN, Update(r, ready) \/ ReconcileError(r, ready) PROVE RecorderInv'
  BY <1>4, ReturnKeeps DEF Update, ReconcileError
<1>5. ASSUME NEW r \in Resources, recordDeleted(r) PROVE RecorderInv'
  <2>1. Return(r) /\ UNCHANGED <<cache, recorder>> /\ births' = births /\ births \in Nat /\ managed \in [Resources -> Records]
    BY <1>5 DEF recordDeleted, RecorderInv, MetricsTyped
  <2>2. CASE managed' = [managed EXCEPT ![r] = NoManaged]
    <3>1. births' \in Nat /\ births <= births' /\ Becomes(r, NoManaged) /\ NoManaged \in Records
      BY <2>1, IdleTyped DEF Becomes
    <3> QED BY <2>1, <2>2, <3>1, ManagedChanges, Zenon
  <2>3. CASE managed' = managed
    <3>1. managed' = [managed EXCEPT ![r] = managed[r]] /\ managed[r] \in Records /\ Becomes(r, managed[r])
      BY <2>1, <2>3 DEF RecorderInv, CacheLeads, Leads, Becomes, Records
    <3>2. births' \in Nat /\ births <= births'
      BY <2>1
    <3> QED BY <2>1, <3>1, <3>2, ManagedChanges, Zenon
  <2> QED BY <1>5, <2>2, <2>3 DEF recordDeleted
<1>6. ASSUME NEW r \in Resources, UserCreates(r) PROVE RecorderInv'
  <2> DEFINE o == [managed[r] EXCEPT !.uid = births']
  <2>1. /\ managed[r].uid = 0 /\ births' = births + 1 /\ births \in Nat /\ managed \in [Resources -> Records]
        /\ UNCHANGED <<cache, requests, recorder>>
    BY <1>6 DEF UserCreates, RecorderInv, MetricsTyped
  <2>2. managed' = [managed EXCEPT ![r] = o] /\ o \in Records /\ o.uid = births' /\ o.synced = managed[r].synced
    BY <1>6, <2>1 DEF UserCreates, Records
  <2>3. managed[r].synced = "Unknown"
    BY <2>1 DEF RecorderInv, CacheLeads, Leads, NoManaged
  <2> HIDE DEF o
  <2>4. Becomes(r, o) /\ births' \in Nat /\ births <= births'
    BY <2>1, <2>2, <2>3 DEF Becomes
  <2>5. UNCHANGED <<cache, recorder>> /\ UNCHANGED requests
    BY <2>1
  <2> QED BY <2>2, <2>4, <2>5, ManagedChanges, Zenon
<1>7. ASSUME NEW r \in Resources, UserDeletes(r) PROVE RecorderInv'
  <2> DEFINE o == [managed[r] EXCEPT !.deleted = TRUE]
  <2>1. births \in Nat /\ managed \in [Resources -> Records] /\ UNCHANGED <<cache, requests, recorder, births>>
    BY <1>7 DEF UserDeletes, RecorderInv, MetricsTyped
  <2>2. managed' = [managed EXCEPT ![r] = o] /\ o \in Records /\ Becomes(r, o)
    BY <1>7, <2>1, Zenon DEF UserDeletes, Records, Becomes
  <2> HIDE DEF o
  <2>3. UNCHANGED <<cache, recorder>> /\ UNCHANGED requests /\ births' \in Nat /\ births <= births'
    BY <2>1
  <2> QED BY <2>2, <2>3, ManagedChanges, Zenon
<1> QED BY <1>1, <1>2, <1>3, <1>4, <1>5, <1>6, <1>7, ReconcileKeeps, CacheKeeps, RestartKeeps
        DEF Next, vars, Start, Record, RecordReady, RecordSynced

-----------------------------------------------------------------------------
(* The gauges.                                                             *)

\* What was counted of one list.
Counted(c) == /\ c.exists \in Nat /\ c.ready \in Nat /\ c.synced \in Nat
              /\ c.ready <= c.exists /\ c.synced <= c.exists

Gauges == [exists : Nat, ready : Nat, synced : Nat]

GaugesInv == /\ gauges \in Gauges /\ listed \in [step : {"done", "ready", "synced"}, counts : Gauges, before : Nat]
             /\ Counted(listed.counts)
             /\ listed.step = "done" => Counted(gauges)
             /\ listed.step # "done" => gauges.exists = listed.counts.exists /\ gauges.synced <= listed.before
             /\ listed.step = "ready" => gauges.ready <= listed.before
             /\ listed.step = "synced" => gauges.ready = listed.counts.ready

\* A part of the resources is no more than all.
LEMMA CountsAreSound == ASSUME NEW all PROVE Counts(all) \in Gauges /\ Counted(Counts(all))
<1>1. IsFiniteSet(Existing(all))
  BY ResourcesAssumption, FS_Subset DEF Existing
<1>2. \A S \in SUBSET Existing(all) :
        Cardinality(S) \in Nat /\ Cardinality(Existing(all)) \in Nat /\ Cardinality(S) <= Cardinality(Existing(all))
  BY <1>1, FS_Subset, FS_CardinalityType
<1>3. Ready(all) \subseteq Existing(all) /\ Synced(all) \subseteq Existing(all)
  BY DEF Ready, Synced
<1> QED BY <1>2, <1>3 DEF Counts, Counted, Gauges

\* Every step keeps the gauges, once all are set, those of one list.
LEMMA GaugesKeep == ASSUME GaugesInv, [Next]_vars PROVE GaugesInv'
<1>1. CASE UNCHANGED states
  BY <1>1 DEF GaugesInv, states
<1>2. CASE Record
  BY <1>2, CountsAreSound DEF Record, GaugesInv, Gauges, Counted
<1>3. CASE RecordReady
  BY <1>3 DEF RecordReady, GaugesInv, Gauges, Counted
<1>4. CASE RecordSynced
  BY <1>4 DEF RecordSynced, GaugesInv, Gauges, Counted, Done, NoGauges
<1>5. CASE Restart
  BY <1>5 DEF Restart, GaugesInv, Gauges, Counted, Done, NoGauges
<1> QED BY <1>1, <1>2, <1>3, <1>4, <1>5, Zenon DEF Next, vars, Start, Reconcile, FirstTimeReady, recordDeleted, UpToDate,
          Update, ReconcileError, CacheSync, UserCreates, UserDeletes

-----------------------------------------------------------------------------

\* Nothing is recorded at first.
LEMMA MetricsInit == Init => RecorderInv /\ GaugesInv
<1> SUFFICES ASSUME Init PROVE RecorderInv /\ GaugesInv
  OBVIOUS
<1>1. MetricsTyped /\ \A r \in Resources : requests[r] = Idle /\ managed[r] = NoManaged /\ cache[r] = NoManaged
  BY IdleTyped DEF Init, MetricsTyped, Nothing
<1>2. \A r \in Resources : \A o \in Copies(r) : o = NoManaged
  BY <1>1, IdleTyped DEF Copies
<1>3. UIDsDiffer
  BY <1>2, IdleTyped DEF UIDsDiffer, Init
<1>4. CacheLeads /\ Detected
  BY <1>1, <1>2, IdleTyped DEF CacheLeads, Leads, Detected, Seen, Known, Init
<1>5. GaugesInv
  BY DEF Init, GaugesInv, Gauges, Counted, Done, NoGauges
<1> QED BY <1>1, <1>3, <1>4, <1>5 DEF RecorderInv

\* A resource is recorded as ready for the first time once, as far as the recorder can know, and the gauges
\* agree whenever they are scraped (pkg/reconciler/managed/metrics.go, pkg/statemetrics/mr_state_metrics.go),
\* if no two resources have one name.
THEOREM MetricsTellTheTruth == ASSUME NamesDiffer PROVE Spec => []MetricsAreTrue
<1>1. RecorderInv => ReadyIsFirst
  BY DEF RecorderInv, ReadyIsFirst, Detected, Seen, Known
<1>2. GaugesInv => GaugesAgree
  BY DEF GaugesInv, Gauges, Counted, GaugesAgree
<1>3. RecorderInv /\ GaugesInv /\ [Next]_vars => RecorderInv' /\ GaugesInv'
  BY RecorderKeeps, GaugesKeep
<1> QED BY <1>1, <1>2, <1>3, MetricsInit, PTL DEF Spec, MetricsAreTrue
==============================================================================
