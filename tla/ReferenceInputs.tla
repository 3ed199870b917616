-------------------------- MODULE ReferenceInputs ---------------------------
(* The resources with references, and their targets, of the model-checked  *)
(* instance.                                                               *)
EXTENDS Naturals, Sequences

NoSelector == [on |-> FALSE, namespace |-> "", always |-> FALSE, optional |-> FALSE, controller |-> FALSE]

Ref(n, ns, always, optional) == [name |-> n, namespace |-> ns, always |-> always, optional |-> optional]

Sel(ns, always, optional, controller) ==
  [on |-> TRUE, namespace |-> ns, always |-> always, optional |-> optional, controller |-> controller]

R(namespaced, multi, type, selector, f, rs) ==
  [kind |-> [namespaced |-> namespaced, multi |-> multi, type |-> type, selector |-> selector], field |-> f, refs |-> rs]

\* One reference, with every policy, in fields of every type; one of them has a fraction.
One == {R(TRUE, FALSE, "string", NoSelector, f, <<Ref("a", ns, always, optional)>>)
          : f \in {<<>>, <<2>>}, ns \in {"", "other"}, always \in BOOLEAN, optional \in BOOLEAN}

Numbers == {R(FALSE, FALSE, type, NoSelector, f, <<Ref("a", "", always, FALSE)>>)
              : type \in {"int", "float"}, f \in {<<>>, <<2>>}, always \in BOOLEAN}
           \cup {R(FALSE, FALSE, "float", NoSelector, <<3>>, <<Ref("a", "", FALSE, FALSE)>>)}

\* Two references in a list.
Two == {R(TRUE, TRUE, "string", NoSelector, f, <<Ref("a", "", always, optional), Ref("b", "other", always, FALSE)>>)
          : f \in {<<>>, <<2>>}, always \in BOOLEAN, optional \in BOOLEAN}

\* A selector, of one or of several.
Selecting == {R(namespaced, multi, "string", Sel("other", always, optional, controller), f, rs)
                : namespaced \in BOOLEAN, multi \in BOOLEAN, always \in BOOLEAN, optional \in BOOLEAN,
                  controller \in BOOLEAN, f \in {<<>>, <<2>>}, rs \in {<<>>, <<Ref("a", "", TRUE, FALSE)>>}}

AllResources == One \cup Numbers \cup Two \cup Selecting

AllTargets == {<<"home", "a">>, <<"other", "a">>, <<"other", "b">>}

\* No targets; targets that are ready; targets with equal values, or not ready.
AllSurroundings == {[t \in AllTargets |-> 0 - 1], [t \in AllTargets |-> IF t[2] = "a" THEN 3 ELSE 1],
                    [t \in AllTargets |-> IF t[2] = "a" THEN 0 ELSE 1]}

AllSiblings == {<<"home", "a">>, <<"other", "b">>}
=============================================================================
