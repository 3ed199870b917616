----------------------------- MODULE PavedCalls -----------------------------
(***************************************************************************)
(* One call of a method of Paved, from the text of its path to its result, *)
(* on any of Objects; and segments printed and parsed again, as the paths  *)
(* that ExpandWildcards returns are.                                       *)
(***************************************************************************)
EXTENDS FieldPathLexer, Paved

CONSTANTS Objects,   \* the JSON objects the calls are made on
          Inputs,    \* the values they set and merge
          Segments,  \* a bound: the segments of the paths that calls are made with
          MaxDepth   \* and how many a path has

VARIABLES
  object,  \* Paved.object
  call,    \* the call that was made, and the object it was made on
  result   \* what it returned

pavedVars == <<object, call, result>>

NoCall == [op |-> "none"]

MergeOptions == [nil : {FALSE}, keepMapValues : BOOLEAN, appendSlice : BOOLEAN]
                \cup [nil : {TRUE}, keepMapValues : {FALSE}, appendSlice : {FALSE}]

Init == /\ LexInit
        /\ object = Object(<<>>) /\ call = NoCall /\ result = "none"

Lexing == Parse /\ UNCHANGED pavedVars

Called(c, r) == /\ call' = c /\ result' = r
                /\ UNCHANGED lexVars

\* GetValue, and the getters that take one type.
Get(o) == /\ \/ Called([op |-> "get", on |-> o], getValueFromInterface(o, segments))
             \/ \E kind \in {"string", "bool", "int64"} : Called([op |-> "get", on |-> o], GetScalar(o, segments, kind))
             \/ Called([op |-> "get", on |-> o], GetStringArray(o, segments))
             \/ Called([op |-> "get", on |-> o], GetStringObject(o, segments))
          /\ object' = o

ExpandWildcards(o) == /\ Called([op |-> "expand", on |-> o], expandWildcards(o, segments))
                      /\ object' = o

SetValue(o, v) == LET r == setValue(o, segments, v)
                  IN  Called([op |-> "set", on |-> o, value |-> v], r.err) /\ object' = r.object

DeleteField(o) == LET r == delete(o, segments)
                  IN  Called([op |-> "delete", on |-> o], r.err) /\ object' = r.object

Merge(o, v, mo) == \E r \in MergeValue(o, segments, v, mo) :
                     Called([op |-> "merge", on |-> o, value |-> v, mo |-> mo], r.err) /\ object' = r.object

\* The segments are printed, and the text is parsed.
PrintPath == /\ parse = "returned" /\ call = NoCall
             /\ call' = [op |-> "print", segments |-> segments]
             /\ ParseAgain(String(segments))
             /\ UNCHANGED <<object, result>>

Next == \/ Lexing \/ PrintPath
        \/ /\ parse = "returned" /\ call = NoCall /\ Len(segments) <= MaxDepth /\ ToSet(segments) \subseteq Segments
           /\ \E o \in Objects :
                \/ Get(o) \/ ExpandWildcards(o) \/ DeleteField(o)
                \/ \E v \in Inputs : SetValue(o, v) \/ \E mo \in MergeOptions : Merge(o, v, mo)

vars == <<lexVars, pavedVars>>

\* Go schedules the lexer and Parse.
Spec == Init /\ [][Next]_vars /\ WF_vars(Lexing)

-----------------------------------------------------------------------------

\* A printed path parses to the segments it was printed from, unless one of them is the
\* empty field, which has no text.
PrintsBack ==
  call.op = "print" /\ parse # "receiving" /\ (\A i \in DOMAIN call.segments : call.segments[i] # [field |-> <<>>])
    => parse = "returned" /\ segments = call.segments

\* Every path there is in a value.
RECURSIVE Paths(_)
Paths(v) ==
  IF IsObject(v) THEN {<<>>} \cup {<<[field |-> k]>> \o p : k \in Keys(v), p \in UNION {Paths(v.object[j]) : j \in Keys(v)}}
  ELSE IF IsArray(v) THEN {<<>>} \cup {<<[index |-> n - 1]>> \o p : n \in DOMAIN v.array, p \in UNION {Paths(v.array[j]) : j \in DOMAIN v.array}}
  ELSE {<<>>}

There(v) == {p \in Paths(v) : getFrom(v, p).err = "none"}

Apart(p, q) == ~IsPrefix(p, q) /\ ~IsPrefix(q, p)

\* SetValue is all or nothing and touches nothing else: after an error, which setValue
\* may meet when it has already created or grown what the path needs, the object is as
\* it was; otherwise the value is read back, in its JSON form, at the path, what was at
\* any other path is still there, and what is new elsewhere is null.
SetIsPrecise ==
  call.op = "set" =>
    IF result # "none" \/ segments = <<>> THEN object = call.on
    ELSE /\ getFrom(object, segments) = toValidJSON(call.value)
         /\ \A p \in There(call.on) : Apart(p, segments) => getFrom(object, p) = getFrom(call.on, p)
         /\ \A p \in There(object) \ There(call.on) : Apart(p, segments) => getFrom(object, p) = Ok(Null)

\* An index is refused when it exceeds the maximum, only then, and no index, however
\* far from the elements there are, makes setValue index an array out of range.
IndexesAreBounded ==
  call.op = "set" =>
    /\ result # "panic"
    /\ result = "index" <=> /\ call.value # Scalar("func")
                            /\ \E i \in DOMAIN segments : ~IsField(segments[i]) /\ segments[i].index > maxFieldPathIndex

\* What a getter reports as not found can be set, which is what MergeValue and every
\* accessor do next, except where a field on the way is null: the getters look through
\* it and setValue does not.
NotFoundCanBeSet ==
  call.op = "get" /\ result.err = "notFound" =>
    \/ setValue(call.on, segments, Scalar("string")).err \in {"none", "index"}
    \/ \E n \in 1 .. Len(segments) - 1 : IsField(segments[n]) /\ getFrom(call.on, SubSeq(segments, 1, n)) = Ok(Null)

\* The path a path had before the element or field at s was deleted.
Before(p, s) == IF ~IsField(Last(s)) /\ IsPrefix(Front(s), p) /\ Len(p) >= Len(s)
                   /\ ~IsField(p[Len(s)]) /\ p[Len(s)].index >= Last(s).index
                THEN [p EXCEPT ![Len(s)].index = @ + 1] ELSE p

\* DeleteField removes what is at the path and nothing else, and the elements of an
\* array that come after it move up by one; deleting what is not there, or failing,
\* changes nothing.
DeleteIsPrecise ==
  call.op = "delete" =>
    IF result # "none" \/ segments \notin There(call.on) \/ segments = <<>> THEN object = call.on
    ELSE LET kept == {p \in There(object) : ~IsPrefix(p, Front(segments))}
         IN  /\ {Before(p, segments) : p \in kept}
                  = {p \in There(call.on) : ~IsPrefix(p, Front(segments)) /\ ~IsPrefix(segments, p)}
             /\ \A p \in kept : Apart(p, segments) \/ ~IsField(Last(segments))
                                  => getFrom(object, p) = getFrom(call.on, Before(p, segments))

Matches(p, s) == /\ Len(p) = Len(s)
                 /\ \A i \in DOMAIN s : s[i] = p[i] \/ s[i] = [field |-> wildcard]

\* ExpandWildcards returns every path of the object that matches, each once, and none
\* that is not there.
ExpandsToMatches ==
  call.op = "expand" /\ result.err = "none" => result.paths = {p \in There(call.on) : Matches(p, segments)}

\* ExpandWildcards returns.
ExpandReturns == call.op = "expand" => result.err # "diverges"

\* The arrays that are in an object.
Nested(v) == {p \in There(v) : Len(p) > 0 /\ IsArray(getFrom(v, p).value)}

\* MergeValue keeps what its options say, at any depth, unless the merged value is null,
\* which replaces what is there: with KeepMapValues no scalar is replaced but "", 0 and
\* false, and with AppendSlice an array that an array is merged into keeps its elements.
MergeKeeps ==
  call.op = "merge" /\ ~call.mo.nil /\ call.value # Null /\ result = "none" =>
    \A p \in There(call.on) :
      LET was == getFrom(call.on, p).value
          src == getFrom(call.value, SubSeq(p, Len(segments) + 1, Len(p)))
      IN  /\ call.mo.keepMapValues /\ IsScalar(was) /\ ~isEmptyValue(was) => getFrom(object, p) = Ok(was)
          /\ call.mo.appendSlice /\ IsArray(was) /\ IsPrefix(segments, p) /\ IsArray(src.value)
               => IsPrefix(was.array, getFrom(object, p).value.array)

\* KeepMapValues: "already existing values in a merged map should be preserved", the empty
\* ones among them.
ExistingValuesStay ==
  call.op = "merge" /\ call.mo.keepMapValues /\ call.value # Null /\ result = "none" =>
    \A p \in There(call.on) : IsScalar(getFrom(call.on, p).value) => getFrom(object, p) = getFrom(call.on, p)

MergesOnce == MergeValue(object, segments, call.value, call.mo) = {[object |-> object, err |-> "none"]}

\* A value that was merged can be merged again, as a reconciler does, and changes nothing,
\* as long as it has no array inside an object.
MergeIsIdempotent ==
  call.op = "merge" /\ result = "none" /\ segments # <<>> /\ Nested(call.value) = {} => MergesOnce

\* "by default, do not append duplicate slice items if MergeOptions.AppendSlice is set":
\* a value merged again with AppendSlice appends nothing.
NoDuplicateItems ==
  call.op = "merge" /\ result = "none" /\ segments # <<>> /\ call.mo.appendSlice => MergesOnce
=============================================================================
