---------------------------- MODULE Unstructured ----------------------------
(***************************************************************************)
(* pkg/resource/unstructured: composite resources, claims and composed     *)
(* resources as JSON objects, whose accessors get and set values by field  *)
(* path and ignore the errors of Paved.  A field is a name; the value of   *)
(* an accessor is opaque, and a condition is one value of an array.        *)
(***************************************************************************)
EXTENDS Paved, Conditions

CONSTANTS Kinds,      \* "legacy" and "modern" composites, "claim", "composed"
          Objects,    \* the objects there may be, as read from the API server
          Types,      \* types of conditions
          Reported,   \* the lists of conditions a controller reports
          ClaimTypes, \* the lists of types it sets as claim conditions
          MaxCalls    \* a bound on the calls

VARIABLES
  kind,        \* what the object is
  object,      \* Unstructured.Object
  first,       \* the object as it was read
  generation,  \* its metadata.generation
  calls,       \* calls so far; also the time
  dict,        \* what each accessor was last given
  marked,      \* for each type the condition that was last set
  last         \* the conditions the last call set

vars == <<kind, object, first, generation, calls, dict, marked, last>>

\* A JSON value that only its accessor looks into.
Opaque(v) == [opaque |-> v]

Path(names) == [i \in DOMAIN names |-> [field |-> names[i]]]

SpecFields == {"compositionSelector", "compositionRef", "compositionRevisionRef",
               "compositionRevisionSelector", "compositionUpdatePolicy"}

Under(k, f) == IF k = "modern" THEN <<"spec", "crossplane", f>> ELSE <<"spec", f>>

lastPublishedTime(k) ==
  (IF k = "modern" THEN <<"status", "crossplane">> ELSE <<"status">>) \o <<"connectionDetails", "lastPublishedTime">>

\* Only legacy composites have claims and connection secrets; on a modern one those
\* accessors do nothing.
CompositeAccessors(k) ==
  SpecFields \cup {"lastPublishedTime"} \cup IF k = "legacy" THEN {"claimRef", "writeConnectionSecretToRef"} ELSE {}

ClaimAccessors == SpecFields \cup {"compositeDeletePolicy", "resourceRef", "writeConnectionSecretToRef", "lastPublishedTime"}

ComposedAccessors == {"writeConnectionSecretToRef"}

Accessors(k) == CASE k = "claim" -> ClaimAccessors [] k = "composed" -> ComposedAccessors [] OTHER -> CompositeAccessors(k)

\* The path a getter reads: the machinery of a modern composite is nested under
\* spec.crossplane and status.crossplane.
getPath(k, f) == IF f = "lastPublishedTime" THEN lastPublishedTime(k) ELSE Under(k, f)

\* Mutant: the setter of the composition revision does not look at the schema.
setPathFlat(k, f) == CASE f = "lastPublishedTime" -> lastPublishedTime(k)
                       [] f = "compositionRevisionRef" -> <<"spec", f>>
                       [] OTHER -> Under(k, f)

\* The path a setter writes; the code spells it out again.
setPath(k, f) == IF f = "lastPublishedTime" THEN lastPublishedTime(k) ELSE Under(k, f)

Strings == {"compositionUpdatePolicy", "compositeDeletePolicy"}

\* The getters return nil where there is nothing or, for a policy, no string; null is
\* read into a reference or a selector as an empty one.
GetAs(o, f) ==
  LET r == getFrom(o, Path(getPath(kind, f)))
  IN  IF r.err # "none" THEN "nil"
      ELSE IF IsNull(r.value) THEN IF f \in Strings THEN "nil" ELSE "empty"
      ELSE r.value.opaque

\* The setters ignore the error.  A nil pointer is set as null.
SetAs(o, path, v) == setValue(o, Path(path), v).object

\* Any list of JSON values, or none.
ReadList(o, path) ==
  LET r == getFrom(o, Path(path))
  IN  IF r.err = "none" /\ IsArray(r.value) THEN [i \in DOMAIN r.value.array |-> r.value.array[i].opaque] ELSE <<>>

List(s) == Array([i \in DOMAIN s |-> Opaque(s[i])])

\* GetConditions, and what SetConditions starts from: they ignore the errors of GetValueInto
\* "status", where the conditions are inline.
ReadConditions(o) == ReadList(o, <<"status", "conditions">>)

\* Whether GetValueInto can read the conditions of a status: null has none, and where there
\* is no status, or anything else in the place of one of them, it returns an error.
StatusIsRead(o) ==
  LET r  == getFrom(o, Path(<<"status">>))
      cs == getFrom(o, Path(<<"status", "conditions">>))
  IN  /\ r.err = "none" /\ (IsNull(r.value) \/ IsObject(r.value))
      /\ cs.err = "none" => IsNull(cs.value) \/ IsArray(cs.value)

NoCondition == Condition("", "", "")

\* GetCondition of a resource, which is empty after an error.
GetResourceCondition(o, t) == IF StatusIsRead(o) THEN GetCondition(ReadConditions(o), t) ELSE NoCondition

\* Mutant: the status is replaced by one that has only conditions.
WriteConditionsStatus(o, cs) ==
  IF getFrom(o, Path(<<"status">>)) = Ok(Null) THEN o ELSE SetAs(o, <<"status">>, Object("conditions" :> List(cs)))

WriteConditions(o, cs) == SetAs(o, <<"status", "conditions">>, List(cs))

GetClaimConditionTypes(k, o) == IF k = "legacy" THEN ReadList(o, <<"status", "claimConditionTypes">>) ELSE <<>>

GetObservedGeneration(o) ==
  LET r == getFrom(o, Path(<<"status", "observedGeneration">>)) IN IF r.err = "none" THEN r.value.opaque ELSE 0

-----------------------------------------------------------------------------

Init == /\ kind \in Kinds /\ object \in Objects /\ first = object
        /\ generation = 1 /\ calls = 0
        /\ dict = [f \in Accessors(kind) |-> "nil"] @@ "observedGeneration" :> 0 
                  @@ "claimConditionTypes" :> {} @@ "resourceRefs" :> <<>>
        /\ marked = [t \in Types |-> NoCondition] /\ last = <<>>

Call == calls < MaxCalls /\ calls' = calls + 1 /\ UNCHANGED <<kind, first>>

\* A setter whose path goes through what is there and is not an object changes nothing.
Lost(path) == \E n \in 1 .. Len(path) - 1 : LET r == getFrom(object, Path(SubSeq(path, 1, n)))
                                             IN  r.err = "none" /\ ~IsObject(r.value)

Given(f, path, v) == dict' = IF Lost(path) THEN dict ELSE [dict EXCEPT ![f] = v]

\* The setter of an accessor, called with a value or with nil.
Set(f, v) ==
  /\ Call
  /\ object' = SetAs(object, setPath(kind, f), IF v = "nil" THEN Null ELSE Opaque(v))
  /\ Given(f, setPath(kind, f), IF v = "nil" /\ f \notin Strings THEN "empty" ELSE v)
  /\ UNCHANGED <<generation, marked>> /\ last' = <<>>

\* SetConditions with what MarkConditions makes of the conditions of a controller.
MarkConditions(new) ==
  /\ Call
  /\ LET set == Observed([i \in DOMAIN new |-> [new[i] EXCEPT !.time = calls + 1]], generation)
     IN  /\ last' = set
         /\ object' = WriteConditions(object, SetConditions(ReadConditions(object), set))
         /\ marked' = IF Lost(<<"status", "any">>) THEN marked
                      ELSE [t \in Types |-> LET is == {i \in DOMAIN set : set[i].type = t}
                                            IN  IF is = {} THEN marked[t] ELSE set[CHOOSE i \in is : \A j \in is : j <= i]]
  /\ UNCHANGED <<generation, dict>>

SetObservedGeneration ==
  /\ Call
  /\ object' = SetAs(object, <<"status", "observedGeneration">>, Opaque(generation))
  /\ Given("observedGeneration", <<"status", "observedGeneration">>, generation)
  /\ UNCHANGED <<generation, marked>> /\ last' = <<>>

\* SetResourceReferences: empty references are dropped.
SetResourceReferences(refs) ==
  /\ Call /\ kind \in {"legacy", "modern"}
  /\ LET filtered == SelectSeq(refs, LAMBDA r : r # "")
     IN  /\ object' = SetAs(object, setPath(kind, "resourceRefs"), List(filtered))
         /\ Given("resourceRefs", setPath(kind, "resourceRefs"), filtered)
  /\ UNCHANGED <<generation, marked>> /\ last' = <<>>

\* Mutant: a type that occurs twice in the call is added twice.
AddTypesTwice(ts, in) == ts \o SelectSeq(in, LAMBDA t : t \notin ToSet(ts))

AddTypes(ts, in) == FoldLeft(LAMBDA s, t : IF t \in ToSet(s) THEN s ELSE Append(s, t), ts, in)

\* SetClaimConditionTypes: a system type is an error, and then nothing is set.
SetClaimConditionTypes(in) ==
  /\ Call /\ kind = "legacy"
  /\ IF \E i \in DOMAIN in : IsSystemConditionType(in[i]) THEN UNCHANGED <<object, dict>>
     ELSE /\ object' = SetAs(object, <<"status", "claimConditionTypes">>,
                             List(AddTypes(GetClaimConditionTypes(kind, object), in)))
          /\ Given("claimConditionTypes", <<"status", "claimConditionTypes">>, dict.claimConditionTypes \cup ToSet(in))
  /\ UNCHANGED <<generation, marked>> /\ last' = <<>>

\* A user changes the spec.
NewGeneration == Call /\ generation' = generation + 1 /\ UNCHANGED <<object, dict, marked>> /\ last' = <<>>

Next == \/ \E f \in Accessors(kind), v \in {"v", "nil"} : Set(f, v)
        \/ \E new \in Reported : MarkConditions(new)
        \/ SetObservedGeneration \/ NewGeneration
        \/ \E in \in ClaimTypes : SetClaimConditionTypes(in)
        \/ \E refs \in {<<>>, <<"r">>, <<"", "r">>} : SetResourceReferences(refs)

Spec == Init /\ [][Next]_vars

-----------------------------------------------------------------------------

\* The object is a dictionary: every accessor reads what it was last given, whatever the
\* other accessors were given in between and wherever in the object they keep it, unless
\* its setter met something else than an object on the way and was lost.
AccessorsAgree ==
  /\ \A f \in Accessors(kind) : GetAs(object, f) = dict[f]
  /\ GetObservedGeneration(object) = dict.observedGeneration
  /\ kind \in {"legacy", "modern"} => ReadList(object, getPath(kind, "resourceRefs")) = dict.resourceRefs
  /\ ToSet(GetClaimConditionTypes(kind, object)) = dict.claimConditionTypes

UserFields == {<<"spec", "user">>, <<"status", "user">>, <<"spec", "crossplane", "user">>}

\* No accessor touches the fields of the user, although some read all of the status.
UserFieldsKept == \A p \in UserFields : getFrom(object, Path(p)) = getFrom(first, Path(p))

\* "At most one of each condition type may apply to a resource", and it is the one that
\* was last marked, with the generation the object had then; of a type that was never
\* marked the status is neither true nor false.
ConditionsReadBack ==
  LET cs == ReadConditions(object)
  IN  /\ \A i, j \in DOMAIN cs : cs[i].type = cs[j].type => i = j
      /\ \A t \in Types : LET c == GetResourceCondition(object, t)
                          IN  IF marked[t] = NoCondition THEN c \in {NoCondition, Condition(t, "Unknown", "")}
                              ELSE Equal(c, marked[t])

\* A condition that was never marked is unknown, as it is for ConditionedStatus.
UnmarkedIsUnknown == \A t \in Types : marked[t] = NoCondition => GetResourceCondition(object, t).status = "Unknown"

\* A claim condition is never a system condition, and is listed once.
ClaimTypesAreUsers ==
  LET ts == GetClaimConditionTypes(kind, object)
  IN  IsInjective(ts) /\ \A i \in DOMAIN ts : ~IsSystemConditionType(ts[i])

\* SetConditions "is a no-op if all supplied conditions are identical, ignoring the last
\* transition time, to those already set".
NoOpKeepsTime ==
  [][object' = object \/
     \A t \in Types : LET c == GetCondition(ReadConditions(object), t)
                          d == GetCondition(ReadConditions(object'), t)
                      IN  (\A i \in DOMAIN last' : last'[i].type = t => Equal(last'[i], c)) => c = d]_vars

\* "LastTransitionTime is the last time this condition transitioned from one status to
\* another."
TransitionTimeIsOfStatus ==
  [][\A t \in Types : LET c == GetCondition(ReadConditions(object), t)
                          d == GetCondition(ReadConditions(object'), t)
                      IN  c.status = d.status => c.time = d.time]_vars
=============================================================================
