---------------------------- MODULE PavedInputs -----------------------------
(* What is parsed and paved in the model-checked instance.                 *)
EXTENDS FieldPath, Paved

CONSTANTS MaxText, MaxDepth

Names == {<<"a">>, <<"0">>}

Leaves == {Null, Scalar("string")}

Functions(D, R) == UNION {[S -> R] : S \in SUBSET D}

Values == Leaves \cup {Array(s) : s \in BoundedSeq(Leaves, 2)} \cup {Object(f) : f \in Functions(Names, Leaves)}

\* JSON objects with one and two levels, one with three, one whose key has a period, and
\* some with empty values.
AllObjects == {Object(f) : f \in Functions({<<"a">>}, Values \ {Object(f) : f \in [Names -> {Null}]})}
              \cup {Object(<<"a">> :> Scalar("string") @@ <<"0">> :> Array(<<v, Scalar("string")>>)) : v \in Values}
              \cup {Object(<<"a", ".", "a">> :> v) : v \in Leaves}
              \cup {Object(<<"a">> :> v) : v \in {Zero("string"), Object(<<"a">> :> Zero("bool")),
                                                Object(<<"a">> :> Object(<<>>) @@ <<"0">> :> Array(<<Zero("int64")>>))}}

AllInputs == {Scalar("string"), Scalar("wholeFloat"), Scalar("func"), Null, Zero("string"), Object(<<>>), Object(<<"a">> :> Null),
              Array(<<Scalar("string"), Scalar("bool")>>), Object(<<"a">> :> Scalar("bool") @@ <<"0">> :> Array(<<Scalar("string")>>))}

AllSegments == {[field |-> f] : f \in Names \cup {wildcard, <<"a", ".", "a">>}} \cup {[index |-> n] : n \in 0 .. 2}

\* Every text of a few characters, and the texts of every path of a few segments.
AllTexts == BoundedSeq({"a", "0", "1", "*", "'", ".", "[", "]"}, MaxText)
            \cup {String(<<[field |-> <<"a">>]>> \o s) : s \in BoundedSeq(AllSegments, MaxDepth - 1)}
=============================================================================
