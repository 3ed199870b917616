--------------------------- MODULE PackageInputs ----------------------------
(* The files of the model-checked instance.                                *)
EXTENDS Integers, Sequences

CONSTANT BufferSize

F(bytes) == [bytes |-> bytes, dir |-> FALSE, yaml |-> TRUE, matches |-> FALSE, walkable |-> TRUE, readable |-> TRUE]

\* Lines of every length up to the buffer's and one beyond, with a newline at the end or without;
\* comments, separators and what cannot be decoded.
Long == {[i \in 1 .. n |-> "o"] : n \in 1 .. BufferSize + 1}

Files == {F(b) : b \in Long} \cup {F(Append(b, "n")) : b \in Long}
         \cup {F(<<>>), F(<<"m">>), F(<<"#", "o">>), F(<<"x">>), F(<<"-", "-", "-", "n", "m", "n", "-", "-", "-">>),
               F(<<"m", "n", "-", "-", "-", "n", "x", "n">>), F(<<"o", "n", "-", "-", "-", "#", "n", "o", "o">>),
               [F(<<"m">>) EXCEPT !.readable = FALSE], [F(<<>>) EXCEPT !.dir = TRUE, !.readable = FALSE],
               [F(<<"x">>) EXCEPT !.yaml = FALSE], [F(<<"x", "x">>) EXCEPT !.matches = TRUE], [F(<<"o">>) EXCEPT !.walkable = FALSE]}

AllPackages == UNION {[1 .. n -> Files] : n \in 0 .. 2}

\* None, each, the ones of the tests, and a malformed pattern behind another filter.
AllFilters == {<<>>, <<"SkipDirs">>, <<"SkipEmpty">>, <<"SkipDirs", "SkipEmpty", "SkipNotYAML">>,
               <<"SkipDirs", "SkipNotYAML", "SkipPath">>, <<"SkipNotYAML", "SkipBadPath">>}

AllTexts == {<<F(<<"m", "n", "-", "-", "-", "n", "o">>)>>, <<F(<<"o", "n", "x">>)>>, <<F(<<>>)>>}

Short(o) == \A i \in DOMAIN o : Len(o[i]) < 3
=============================================================================
