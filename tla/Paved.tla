------------------------------- MODULE Paved --------------------------------
(***************************************************************************)
(* pkg/fieldpath/paved.go and merge.go: getting, setting, deleting and     *)
(* merging values of a JSON object by their field path.  setValue and      *)
(* delete change the object in place, so what they have done before an     *)
(* error stays done: every operator returns the object with the error.     *)
(***************************************************************************)
EXTENDS FieldPath, SequencesExt

CONSTANT maxFieldPathIndex   \* the largest index a path may have; 0 for no limit

Null == [null |-> TRUE]
Scalar(kind) == [scalar |-> kind]
Zero(kind) == [scalar |-> kind, zero |-> TRUE]   \* "", 0 or false
Array(s) == [array |-> s]
Object(f) == [object |-> f]

IsNull(v) == "null" \in DOMAIN v
IsArray(v) == "array" \in DOMAIN v
IsObject(v) == "object" \in DOMAIN v
IsScalar(v) == "scalar" \in DOMAIN v
IsA(kind, v) == IsScalar(v) /\ v.scalar = kind

Keys(v) == DOMAIN v.object
Elem(v, s) == v.array[s.index + 1]
InRange(v, s) == s.index < Len(v.array)

WithField(v, s, x) == Object([k \in Keys(v) \cup {s.field} |-> IF k = s.field THEN x ELSE v.object[k]])
WithElem(v, s, x) == Array([v.array EXCEPT ![s.index + 1] = x])

Ok(v) == [value |-> v, err |-> "none"]
Err(e) == [value |-> Null, err |-> e]

-----------------------------------------------------------------------------
(* Getting                                                                 *)

\* Mutant: a field of anything that is not an object is not found.
RECURSIVE getFromLoose(_, _)
getFromLoose(it, s) ==
  IF s = <<>> THEN Ok(it)
  ELSE IF IsField(Head(s))
  THEN IF ~IsObject(it) \/ Head(s).field \notin Keys(it) THEN Err("notFound")
       ELSE getFromLoose(it.object[Head(s).field], Tail(s))
  ELSE IF ~IsArray(it) THEN Err("type")
       ELSE IF ~InRange(it, Head(s)) THEN Err("notFound")
       ELSE getFromLoose(Elem(it, Head(s)), Tail(s))

\* Nothing but an object has fields, but a field of null is only not found.
RECURSIVE getFrom(_, _)
getFrom(it, s) ==
  IF s = <<>> THEN Ok(it)
  ELSE IF IsField(Head(s))
  THEN IF IsNull(it) THEN Err("notFound")
       ELSE IF ~IsObject(it) THEN Err("type")
       ELSE IF Head(s).field \notin Keys(it) THEN Err("notFound")
       ELSE getFrom(it.object[Head(s).field], Tail(s))
  ELSE IF ~IsArray(it) THEN Err("type")
       ELSE IF ~InRange(it, Head(s)) THEN Err("notFound")
       ELSE getFrom(Elem(it, Head(s)), Tail(s))

\* The empty path is the path of null.
getValueFromInterface(it, s) == IF s = <<>> THEN Ok(Null) ELSE getFrom(it, s)

\* The typed getters: GetString, GetBool and GetInteger take one kind of scalar.
GetScalar(o, s, kind) == LET r == getValueFromInterface(o, s)
                         IN  IF r.err # "none" \/ IsA(kind, r.value) THEN r ELSE Err("type")

GetStringArray(o, s) ==
  LET r == getValueFromInterface(o, s)
  IN  IF r.err # "none" THEN r
      ELSE IF IsArray(r.value) /\ \A x \in ToSet(r.value.array) : IsA("string", x) THEN r ELSE Err("type")

GetStringObject(o, s) ==
  LET r == getValueFromInterface(o, s)
  IN  IF r.err # "none" THEN r
      ELSE IF IsObject(r.value) /\ \A k \in Keys(r.value) : IsA("string", r.value.object[k])
      THEN r ELSE Err("type")

\* Mutant: the elements of an array are counted from 1.
PutAtFromOne(s, i, it) ==
  IF IsArray(it) THEN {[s EXCEPT ![i] = [index |-> n]] : n \in DOMAIN it.array}
                 ELSE {[s EXCEPT ![i] = Field(k)] : k \in Keys(it)}

\* The paths that put an element or a key of it in the place of the wildcard.
PutAt(s, i, it) ==
  IF IsArray(it) THEN {[s EXCEPT ![i] = [index |-> n - 1]] : n \in DOMAIN it.array}
                 ELSE {[s EXCEPT ![i] = Field(k)] : k \in Keys(it)}

Wildcards(s) == {i \in DOMAIN s : s[i] = [field |-> wildcard]}

\* Expands the first wildcard and calls itself for each of the paths that gives; a key
\* that is itself the wildcard gives the same path again, and the calls never end.
RECURSIVE expandWildcards(_, _)
expandWildcards(data, s) ==
  LET i == IF Wildcards(s) = {} THEN Len(s) + 1 ELSE CHOOSE n \in Wildcards(s) : \A m \in Wildcards(s) : n <= m
      r == IF i = 1 THEN Ok(data) ELSE getFrom(data, SubSeq(s, 1, i - 1))
  IN  IF r.err = "notFound" THEN [paths |-> {}, err |-> "none"]
      ELSE IF r.err # "none" THEN [paths |-> {}, err |-> r.err]
      ELSE IF i > Len(s) THEN [paths |-> {s}, err |-> "none"]
      ELSE IF IsNull(r.value) THEN [paths |-> {}, err |-> "notFound"]
      ELSE IF ~IsArray(r.value) /\ ~IsObject(r.value) THEN [paths |-> {}, err |-> "type"]
      ELSE LET next == PutAt(s, i, r.value)
               subs == {expandWildcards(data, t) : t \in next}
           IN  IF s \in next THEN [paths |-> {}, err |-> "diverges"]
               ELSE IF \E x \in subs : x.err # "none"
               THEN [paths |-> {}, err |-> (CHOOSE x \in subs : x.err # "none").err]
               ELSE [paths |-> UNION {x.paths : x \in subs}, err |-> "none"]

-----------------------------------------------------------------------------
(* Setting                                                                 *)

\* A value becomes what its JSON is read back as: a float without a fraction is read
\* as an integer, and a channel or a function has no JSON.
toValidJSON(v) == CASE v = Scalar("wholeFloat") -> Ok(Scalar("int64"))
                    [] v = Scalar("func") -> Err("json")
                    [] OTHER -> Ok(v)

\* Mutant: the largest index is refused too.
validateSegmentsStrict(s) == maxFieldPathIndex = 0 \/ \A i \in DOMAIN s : IsField(s[i]) \/ s[i].index < maxFieldPathIndex

validateSegments(s) == maxFieldPathIndex = 0 \/ \A i \in DOMAIN s : IsField(s[i]) \/ s[i].index <= maxFieldPathIndex

Nulls(n) == [i \in 1 .. n |-> Null]

Created(next) == IF IsField(next) THEN Object(<<>>) ELSE Array(Nulls(next.index + 1))

\* Mutant: the array that is long enough does not get the elements there were.
GrownAnew(v, next) == IF ~IsField(next) /\ IsArray(v) /\ ~InRange(v, next) THEN Created(next) ELSE v

Grown(v, next) == IF ~IsField(next) /\ IsArray(v) /\ ~InRange(v, next)
                  THEN Array(v.array \o Nulls(next.index - Len(v.array) + 1)) ELSE v

\* An element that is null is created, and an array is made long enough.
prepareElement(array, cur, next) ==
  WithElem(array, cur, IF IsNull(Elem(array, cur)) THEN Created(next) ELSE Grown(Elem(array, cur), next))

\* A field that is missing is created, and one that is null is left as it is.
prepareField(obj, cur, next) ==
  WithField(obj, cur, IF cur.field \notin Keys(obj) THEN Created(next) ELSE Grown(obj.object[cur.field], next))

\* Each segment finds its container prepared by the one before.
RECURSIVE setIn(_, _, _)
setIn(in, s, v) ==
  LET cur == Head(s)
      final == Len(s) = 1
  IN  IF IsField(cur)
      THEN IF ~IsObject(in) THEN [object |-> in, err |-> "type"]
           ELSE IF final THEN [object |-> WithField(in, cur, v), err |-> "none"]
           ELSE LET p == prepareField(in, cur, s[2])
                    r == setIn(p.object[cur.field], Tail(s), v)
                IN  [object |-> WithField(p, cur, r.object), err |-> r.err]
      ELSE IF ~IsArray(in) THEN [object |-> in, err |-> "type"]
           ELSE IF ~InRange(in, cur) THEN [object |-> in, err |-> "panic"]
           ELSE IF final THEN [object |-> WithElem(in, cur, v), err |-> "none"]
           ELSE LET p == prepareElement(in, cur, s[2])
                    r == setIn(Elem(p, cur), Tail(s), v)
                IN  [object |-> WithElem(p, cur, r.object), err |-> r.err]

setValue(o, s, value) ==
  LET v == toValidJSON(value)
  IN  IF v.err # "none" THEN [object |-> o, err |-> v.err]
      ELSE IF ~validateSegments(s) THEN [object |-> o, err |-> "index"]
      ELSE IF s = <<>> THEN [object |-> o, err |-> "none"]
      ELSE setIn(o, s, v.value)

-----------------------------------------------------------------------------
(* Deleting                                                                *)

\* Mutant: the elements after the deleted one stay where they are.
deleteFieldLast(v, s) ==
  IF IsField(s)
  THEN IF IsObject(v) THEN [object |-> Object([k \in Keys(v) \ {s.field} |-> v.object[k]]), err |-> "none"]
                      ELSE [object |-> v, err |-> "type"]
  ELSE IF ~IsArray(v) THEN [object |-> v, err |-> "type"]
  ELSE [object |-> IF InRange(v, s) THEN Array(Front(v.array)) ELSE v, err |-> "none"]

deleteField(v, s) ==
  IF IsField(s)
  THEN IF IsObject(v) THEN [object |-> Object([k \in Keys(v) \ {s.field} |-> v.object[k]]), err |-> "none"]
                      ELSE [object |-> v, err |-> "type"]
  ELSE IF ~IsArray(v) THEN [object |-> v, err |-> "type"]
  ELSE [object |-> IF InRange(v, s) THEN Array(RemoveAt(v.array, s.index + 1)) ELSE v, err |-> "none"]

\* What does not exist need not be deleted.
RECURSIVE delete(_, _)
delete(in, s) ==
  LET cur == Head(s)
  IN  IF s = <<>> THEN [object |-> in, err |-> "none"]
      ELSE IF Len(s) = 1 THEN deleteField(in, cur)
      ELSE IF IsField(cur)
      THEN IF ~IsObject(in) THEN [object |-> in, err |-> "type"]
           ELSE IF cur.field \notin Keys(in) THEN [object |-> in, err |-> "none"]
           ELSE LET r == delete(in.object[cur.field], Tail(s))
                IN  [object |-> WithField(in, cur, r.object), err |-> r.err]
      ELSE IF ~IsArray(in) THEN [object |-> in, err |-> "type"]
           ELSE IF ~InRange(in, cur) THEN [object |-> in, err |-> "none"]
           ELSE LET r == delete(Elem(in, cur), Tail(s))
                IN  [object |-> WithElem(in, cur, r.object), err |-> r.err]

-----------------------------------------------------------------------------
(* Merging                                                                 *)

\* Mutant: the elements the destination has already are appended again.
removeNothing(dst, src) == src

\* Only an array is looked at, not the arrays inside an object.
removeSourceDuplicates(dst, src) ==
  IF IsArray(dst) /\ IsArray(src)
  THEN Array(SelectSeq(src.array, LAMBDA x : x \notin ToSet(dst.array))) ELSE src

\* Mutant: values are replaced whatever the options say.
MergoConfigurationOverride(mo) == [override |-> TRUE, append |-> mo.appendSlice]

MergoConfiguration(mo) == [override |-> ~mo.keepMapValues, append |-> mo.appendSlice]

\* What mergo takes for no value.
isEmptyValue(v) == \/ IsNull(v)
                   \/ IsScalar(v) /\ "zero" \in DOMAIN v
                   \/ IsArray(v) /\ v.array = <<>>
                   \/ IsObject(v) /\ Keys(v) = {}

\* What mergo may do with one value.  An empty one is replaced whatever the configuration.
\* Objects are merged key by key in any order and in place, so that an error leaves the
\* keys that came before it merged; one that is still empty then is replaced.
RECURSIVE mergo(_, _, _)
mergo(d, s, c) ==
  IF IsNull(s) THEN {Ok(IF c.override THEN s ELSE d)}
  ELSE IF IsArray(s) /\ c.append /\ ~IsNull(d)
  THEN {IF IsArray(d) THEN Ok(Array(d.array \o s.array)) ELSE [value |-> d, err |-> "merge"]}
  ELSE IF ~(IsObject(d) /\ IsObject(s)) THEN {Ok(IF c.override \/ isEmptyValue(d) THEN s ELSE d)}
  ELSE LET of[k \in Keys(s)] == IF k \in Keys(d) THEN mergo(d.object[k], s.object[k], c)
                                ELSE IF IsNull(s.object[k]) /\ ~c.override THEN {} ELSE {Ok(s.object[k])}
           bad == {k \in Keys(s) : \E x \in of[k] : x.err # "none"}
           good == {k \in Keys(s) : of[k] # {}} \ bad
           with(done, new) == Object([k \in Keys(d) \cup done |->
                                        IF k \in DOMAIN new THEN new[k]
                                        ELSE IF k \in done THEN (CHOOSE x \in of[k] : TRUE).value ELSE d.object[k]])
       IN  IF bad = {} THEN {Ok(IF isEmptyValue(with(good, <<>>)) THEN s ELSE with(good, <<>>))}
           ELSE {[value |-> with(done, [k \in {b[1]} |-> b[2].value]), err |-> "merge"] :
                   done \in SUBSET good, b \in UNION {{k} \X of[k] : k \in bad}}

merge(dst, src, mo) ==
  IF IsNull(dst) \/ IsNull(src) THEN {Ok(src)}
  ELSE mergo(dst, IF mo.appendSlice THEN removeSourceDuplicates(dst, src) ELSE src, MergoConfiguration(mo))

\* Without options, or where there is nothing, the value replaces what is there.
MergeValue(o, s, value, mo) ==
  LET dst == getValueFromInterface(o, s)
      replace == mo.nil \/ dst.err = "notFound"
  IN  IF ~replace /\ dst.err # "none" THEN {[object |-> o, err |-> dst.err]}
      ELSE {IF m.err # "none" THEN [object |-> setIn(o, s, m.value).object, err |-> m.err]
            ELSE setValue(o, s, m.value) :
              m \in IF replace THEN {Ok(value)} ELSE merge(dst.value, value, mo)}
=============================================================================
