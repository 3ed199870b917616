------------------------------ MODULE References ------------------------------
(***************************************************************************)
(* The resolvers of cross-resource references (pkg/reference): APIResolver *)
(* for references without a namespace, APINamespacedResolver for those     *)
(* with one, each for a field with one value and for a field with several. *)
(* A resource refers to targets by name or by a selector; the resolver     *)
(* gives it the values of the targets and the references it resolved, and  *)
(* the resource sets both if there was no error.                           *)
(*                                                                         *)
(* A string is 0 if it is empty, Word if it is no number, and else the     *)
(* number it spells.  A field holds halves: 3 is the number 1.5, and 0 is  *)
(* no value.  A reference or a value that is nil is an empty sequence, so  *)
(* that a field with one value is a field with at most one.                *)
(***************************************************************************)
EXTENDS Integers, Sequences

CONSTANTS
  Targets,            \* the targets: their namespaces and names
  Home,               \* the namespace of the resource that refers to them
  Labelled,           \* the targets whose labels match the selector
  Siblings,           \* the targets with the controller of the resource
  Values,             \* the strings a target may have as its external name, in 1 .. Word
  Word,               \* the one that is no number
  Resources,          \* the resources there are at first: their kind, field and references
  Surroundings,       \* the targets there are at first
  MaxChanges,         \* bound on users and on targets
  MaxFailures         \* bound on calls of the API server that fail

VARIABLES
  kind,      \* what is fixed of the resource: whether its kind has a namespace, whether the field is
             \* a list, its type (string, int or float), and its selector
  field,     \* the field that is resolved
  refs,      \* the references
  deleted,   \* whether the resource is being deleted
  targets,   \* the value of each target; a target that is not there is absent
  call,      \* the resolution in progress
  resolved,  \* the changes there had been when the last one began that succeeded
  changes, failures

resolveVars == <<kind, field, refs, deleted, targets, call, resolved, changes, failures>>

NoCall == [step |-> "idle", refs |-> <<>>, next |-> 1, map |-> <<>>, since |-> 0]

Kinds == [namespaced : BOOLEAN, multi : BOOLEAN, type : {"string", "int", "float"},
          selector : [on : BOOLEAN, namespace : STRING, always : BOOLEAN, optional : BOOLEAN, controller : BOOLEAN]]

\* The namespace may be left out.
Reference == [name : STRING, namespace : {""} \cup STRING, always : BOOLEAN, optional : BOOLEAN]

\* What a field of kind k may hold.  Only a float has halves; a number is not rounded to zero, which
\* stands for no value, and is not the one that stands for a word.
Holds(k, f) == \/ k.multi /\ f = 0
               \/ /\ f >= 2 /\ (k.type # "float" => f % 2 = 0)
                  /\ k.type # "string" => f \notin (2 * Word - 1) .. (2 * Word + 1)

\* The field and the references of a resource.
IsSpec(k, f, rs) == /\ f \in Seq(Nat) /\ rs \in Seq(Reference)
                    /\ ~k.multi => Len(f) <= 1 /\ Len(rs) <= 1
                    /\ \A i \in DOMAIN f : Holds(k, f[i])

ASSUME TargetsAssumption ==
  /\ Word \in Nat \ {0} /\ Values \subseteq 1 .. Word
  /\ \A t \in Targets : t \in STRING \X STRING /\ t[1] # ""
  /\ Surroundings \subseteq [Targets -> {-1, 0} \cup Values]

ASSUME ResourcesAssumption == \A r \in Resources : r.kind \in Kinds /\ IsSpec(r.kind, r.field, r.refs)

-----------------------------------------------------------------------------
(* The adapters.                                                           *)

\* strconv.FormatFloat with no digits after the point rounds to the nearest even number.
FromFloatPtrValue(f) == IF f % 2 = 0 THEN f \div 2 ELSE IF f % 4 = 1 THEN f \div 2 ELSE f \div 2 + 1

FromIntPtrValue(f) == f \div 2

ToPtrValue(v) == 2 * v

\* A string that is no number becomes nil.
ToIntPtrValue(v) == IF v = Word THEN 0 ELSE 2 * v

FromPtrValues(f) == [i \in DOMAIN f |-> IF kind.type = "float" THEN FromFloatPtrValue(f[i]) ELSE FromIntPtrValue(f[i])]

ToPtrValues(v) == [i \in DOMAIN v |-> IF kind.type = "string" THEN ToPtrValue(v[i]) ELSE ToIntPtrValue(v[i])]

-----------------------------------------------------------------------------
(* What the two resolvers share.                                           *)

Selector == kind.selector

\* Mutant: the policies of the references count even if there is a selector.
alwaysByAny(rs) == (Selector.on /\ Selector.always) \/ \E i \in DOMAIN rs : rs[i].always

\* Mutant: no policy is to resolve always.
alwaysNever(rs) == FALSE

\* Whether the policy is to resolve always: the selector's, or else that of any reference.
alwaysResolve(rs) == IF Selector.on THEN Selector.always ELSE \E i \in DOMAIN rs : rs[i].always

\* A value that is set stays unless the policy is to resolve always.
IsNoOp(values, rs) == (values # <<>> /\ ~alwaysResolve(rs)) \/ (rs = <<>> /\ ~Selector.on)

\* IsNoOp also forgets what a selector that resolves always selected before.
Forgotten(rs) == IF Selector.on /\ Selector.always THEN <<>> ELSE rs

\* Mutant: the policies are mistaken for each other.
getResolutionErrorSwapped(optional, err) == err /\ optional

getResolutionError(optional, err) == err /\ ~optional

\* Whether a response is refused: there is no value, or one that is empty and is required.
Validate(values, rs) == values = <<>> \/ \E i \in DOMAIN values : values[i] = 0 /\ ~rs[i].optional

ControllersMustMatch == Selector.on /\ Selector.controller

Response(values, rs, err) == [values |-> values, refs |-> rs, err |-> err]

\* The namespace of a target: the request's for APIResolver; for APINamespacedResolver the one
\* given, or else the resource's own.
Scope(ns) == IF ~kind.namespaced \/ ns = "" THEN Home ELSE ns

Target(r) == <<Scope(r.namespace), r.name>>

Present == {t \in Targets : targets[t] >= 0}

\* Mutant: the selector looks in every namespace.
SelectedAnywhere == {t \in Present \cap Labelled : ControllersMustMatch => t \in Siblings}

\* The targets a selector lists, less those with another controller.
Selected == {t \in Present \cap Labelled : t[1] = Scope(Selector.namespace) /\ (ControllersMustMatch => t \in Siblings)}

ReferenceTo(t) == [name |-> t[2], namespace |-> IF kind.namespaced THEN t[1] ELSE "", always |-> FALSE, optional |-> FALSE]

-----------------------------------------------------------------------------
(* Resolve, for a field with one value.  The list of what a selector       *)
(* selects has no order, so that any target may be the first.              *)

ResolveReference(r) ==
  LET v == targets[Target(r)]
  IN  IF Target(r) \notin Present THEN Response(<<>>, <<>>, getResolutionError(r.optional, TRUE))
      ELSE Response(<<v>>, <<r>>, getResolutionError(r.optional, v = 0))

ResolveSelector ==
  IF Selected = {} THEN {Response(<<>>, <<>>, getResolutionError(Selector.optional, TRUE))}
  ELSE {Response(<<targets[t]>>, <<ReferenceTo(t)>>, getResolutionError(Selector.optional, targets[t] = 0)) : t \in Selected}

\* The responses to a request, as they may be.
Responses(values, rs) ==
  IF deleted \/ IsNoOp(values, rs) THEN {Response(values, rs, FALSE)}
  ELSE IF Forgotten(rs) # <<>> THEN {ResolveReference(Forgotten(rs)[1])}
  ELSE ResolveSelector

\* A value that is nil is none; a list keeps its nils.
Filled(f) == IF ~kind.multi /\ f = <<0>> THEN <<>> ELSE f

\* The resource sets what it is given unless there was an error.
SetResolved(rsp, since) ==
  IF rsp.err THEN UNCHANGED <<field, refs, resolved>>
  ELSE LET f == ToPtrValues(rsp.values)
       IN  /\ field' = Filled(f)
           /\ refs' = rsp.refs /\ resolved' = since

ResolveOne == /\ call = NoCall
              /\ \E rsp \in Responses(FromPtrValues(field), refs) : SetResolved(rsp, changes)
              /\ UNCHANGED <<kind, deleted, targets, call, changes, failures>>

\* APIResolver.Resolve and APINamespacedResolver.Resolve.
Resolve == ~kind.multi /\ ~kind.namespaced /\ ResolveOne

NamespacedResolve == ~kind.multi /\ kind.namespaced /\ ResolveOne

-----------------------------------------------------------------------------
(* ResolveMultiple reads one target at a time.                             *)

Resolving == NoCall.step # call.step

BeginMultiple ==
  LET values == FromPtrValues(field)
  IN  /\ call = NoCall
      /\ IF deleted \/ IsNoOp(values, refs)
         THEN SetResolved(Response(values, refs, FALSE), changes) /\ UNCHANGED call
         ELSE /\ call' = [NoCall EXCEPT !.step = IF Forgotten(refs) = <<>> THEN "list" ELSE "get", !.refs = Forgotten(refs),
                                    !.since = changes]
              /\ UNCHANGED <<field, refs, resolved>>
      /\ UNCHANGED <<kind, deleted, targets, changes, failures>>

\* APIResolver.ResolveMultiple and APINamespacedResolver.ResolveMultiple.
ResolveMultiple == kind.multi /\ ~kind.namespaced /\ BeginMultiple

NamespacedResolveMultiple == kind.multi /\ kind.namespaced /\ BeginMultiple

Finish(rsp) == SetResolved(rsp, call.since) /\ call' = NoCall /\ UNCHANGED <<kind, deleted, targets, changes, failures>>

\* The lists of all keys of the map, which are strings: of 0 .. Word.
ListsOf(m) == {keys \in UNION {[1 .. n -> DOMAIN m] : n \in 0 .. Word + 1} :
                 \A v \in DOMAIN m : \E i \in DOMAIN keys : keys[i] = v}

\* Mutant: the keys are left in the order the map gives them.
sortMapNot(m) == {keys \in ListsOf(m) : \A i, j \in DOMAIN keys : i # j => keys[i] # keys[j]}

\* The orders the keys of the map may come in: one, whatever the map's.
sortMapByKeys(m) == {keys \in ListsOf(m) : \A i, j \in DOMAIN keys : i < j => keys[i] < keys[j]}

\* Mutant: the references are not sorted with their values.
MappedUnpaired(m) == {LET rs == [i \in DOMAIN keys |-> m[keys[Len(keys) + 1 - i]]]
                      IN  Response(keys, rs, Validate(keys, rs)) : keys \in sortMapByKeys(m)}

Mapped(m) == {LET rs == [i \in DOMAIN keys |-> m[keys[i]]]
              IN  Response(keys, rs, Validate(keys, rs)) : keys \in sortMapByKeys(m)}

\* The map has one reference for each value: the last.
Put(m, v, r) == [w \in DOMAIN m \cup {v} |-> IF w = v THEN r ELSE m[w]]

\* A reference to a target that is not there ends the resolution, whatever the others are.
GetNext ==
  /\ call.step = "get" /\ call.next <= Len(call.refs)
  /\ LET r == call.refs[call.next]
     IN  IF Target(r) \in Present
         THEN /\ call' = [call EXCEPT !.next = @ + 1, !.map = Put(@, targets[Target(r)], r)]
              /\ UNCHANGED <<kind, field, refs, resolved, deleted, targets, changes, failures>>
         ELSE Finish(Response(<<>>, <<>>, getResolutionError(r.optional, TRUE)))

AllGot == call.step = "get" /\ call.next > Len(call.refs) /\ \E rsp \in Mapped(call.map) : Finish(rsp)

\* The maps that listing the selected targets in some order gives.
ListMaps == LET vs == {targets[t] : t \in Selected}
            IN  {m \in [vs -> {ReferenceTo(t) : t \in Selected}] :
                   \A v \in vs : \E t \in Selected : targets[t] = v /\ m[v] = ReferenceTo(t)}

ListSelected ==
  /\ call.step = "list"
  /\ \E m \in ListMaps : \E rsp \in Mapped(m) : Finish([rsp EXCEPT !.err = getResolutionError(Selector.optional, @)])

\* An error that is not about a target that is missing is returned.
Fail == /\ failures < MaxFailures /\ failures' = failures + 1
        /\ Resolving /\ call' = NoCall
        /\ UNCHANGED <<kind, field, refs, resolved, deleted, targets, changes>>

-----------------------------------------------------------------------------
(* The others.                                                             *)

Change == changes < MaxChanges /\ changes' = changes + 1 /\ UNCHANGED <<kind, call, resolved, failures>>

\* A target is created (its value is empty until it is ready), gets a value, or is deleted.
TargetChanges == Change /\ \E t \in Targets, v \in {-1, 0} \cup Values :
                   /\ v # targets[t] /\ targets' = [targets EXCEPT ![t] = v]
                   /\ UNCHANGED <<field, refs, deleted>>

\* The user clears the field, or deletes the resource.
UserClears == Change /\ call = NoCall /\ field # <<>> /\ field' = <<>> /\ UNCHANGED <<refs, deleted, targets>>

UserDeletesResource == Change /\ call = NoCall /\ ~deleted /\ deleted' = TRUE /\ UNCHANGED <<field, refs, targets>>

ResolveInit ==
  /\ \E r \in Resources : kind = r.kind /\ field = r.field /\ refs = r.refs
  /\ deleted = FALSE
  /\ targets \in Surroundings
  /\ call = NoCall /\ resolved = -1
  /\ changes = 0 /\ failures = 0

Step == \/ Resolve \/ NamespacedResolve \/ ResolveMultiple \/ NamespacedResolveMultiple
        \/ GetNext \/ AllGot \/ ListSelected

ResolveNext == Step \/ Fail \/ TargetChanges \/ UserClears \/ UserDeletesResource

\* A resource is reconciled, and its references are resolved, at least every poll interval.
ResolveSpec == ResolveInit /\ [][ResolveNext]_resolveVars /\ WF_resolveVars(Step)

-----------------------------------------------------------------------------
(* Properties.                                                             *)

InRange(r, rs) == \E i \in DOMAIN rs : rs[i] = r

Always == IF Selector.on THEN Selector.always ELSE \E i \in DOMAIN refs : refs[i].always

Chosen == Selector.on /\ Selector.always

\* Whether no target changed since the resolution began.
Undisturbed == call = NoCall \/ call.since = changes

\* A resolution never loses a reference that is required and was not selected.  In a list it may:
\* if one that is optional is missing, all go, and of those with equal values one stays.
RequiredKept ==
  [][\A i \in DOMAIN refs : Undisturbed /\ ~Chosen /\ ~refs[i].optional /\ ~InRange(refs[i], refs')
       => \E j \in DOMAIN refs \ {i} : \/ refs[j].optional /\ Target(refs[j]) \notin Present
                                       \/ targets[Target(refs[j])] = targets[Target(refs[i])]]_resolveVars

\* The documentation of the policy: resolving a reference that is optional and cannot be resolved
\* does nothing.
OptionalIsNoOp ==
  [][\A i \in DOMAIN refs : refs[i].optional /\ Target(refs[i]) \notin Present => InRange(refs[i], refs')]_resolveVars

\* A selector selects in the namespace it names, or else in the resource's own, and the reference
\* made of what it selected leads to that target.
SelectedInScope ==
  [][\A i \in DOMAIN refs' : ~InRange(refs'[i], refs)
       => /\ Target(refs'[i]) \in Labelled \cap Present /\ Target(refs'[i])[1] = Scope(Selector.namespace)
          /\ Selector.controller => Target(refs'[i]) \in Siblings]_resolveVars

\* If no target changed while they were resolved, the values set are those of the references set,
\* one for one.
ValuesOfReferences ==
  [][Step /\ Undisturbed /\ refs' # refs /\ refs' # <<>>
       => field' = Filled(ToPtrValues([i \in DOMAIN refs' |-> targets[Target(refs'[i])]]))]_resolveVars

\* A value that is set and need not be resolved always stays, and so do the references, unless it
\* is a number with a fraction.
SetValuesStay == [][Step /\ field # <<>> /\ ~Always => UNCHANGED refs /\ (UNCHANGED field \/ kind.type = "float")]_resolveVars

\* Values are always safe to set: the resource is left as it is if nothing is resolved.
SetValuesAreSafe == [][Step /\ field # <<>> /\ ~Always => UNCHANGED field]_resolveVars

\* Whether a selection may turn out differently the next time.
Ambiguous == /\ Selector.on
             /\ \E t, u \in Selected : t # u /\ (~kind.multi \/ targets[t] = targets[u])

\* Resolving again what did not change changes nothing, so that a resource does not update itself
\* for ever, whatever order maps come in; except that a selector may pick another of several targets each time.
Stable ==
  [][Step /\ Undisturbed /\ resolved = changes /\ ~Ambiguous => UNCHANGED <<field, refs>>]_resolveVars

\* What Resolve sets belongs together: values are those of the references they are resolved from, a
\* selector selects in its namespace only, and no reference that is required is lost.  Resolving
\* again what did not change, or what is set and need not be resolved, changes nothing.
ResolutionIsSound == ValuesOfReferences /\ SelectedInScope /\ RequiredKept /\ Stable /\ SetValuesStay

\* Once targets and users stop, a value follows a reference that is always resolved, and a value
\* that is missing is set as soon as the target of its reference is ready; a selector that is
\* always resolved leads to the one target it selects.
Follows ==
  LET Leads(t) == targets[t] > 0 => field = <<2 * targets[t]>>
  IN  <>[](~deleted /\ ~kind.multi /\ kind.type = "string"
             => /\ ~Selector.on /\ (Always \/ field = <<>>) => \A i \in DOMAIN refs : Leads(Target(refs[i]))
                /\ Chosen /\ ~Ambiguous => \A t \in Selected : Leads(t))
=============================================================================
