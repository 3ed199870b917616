----------------------------- MODULE Conditions -----------------------------
(***************************************************************************)
(* apis/common/condition.go and pkg/conditions/manager.go: the list of     *)
(* conditions of a resource.  The reason stands for the reason and the     *)
(* message.                                                                *)
(***************************************************************************)
EXTENDS Naturals, SequencesExt

Condition(t, s, r) == [type |-> t, status |-> s, reason |-> r, time |-> 0, generation |-> 0]

Creating == Condition("Ready", "False", "Creating")
Deleting == Condition("Ready", "False", "Deleting")
Available == Condition("Ready", "True", "Available")
Unavailable == Condition("Ready", "False", "Unavailable")
ReconcileSuccess == Condition("Synced", "True", "ReconcileSuccess")
ReconcileError == Condition("Synced", "False", "ReconcileError")
ReconcilePaused == Condition("Synced", "False", "ReconcilePaused")

IsSystemConditionType(t) == t \in {"Ready", "Synced", "Healthy"}

\* Everything but the time.
Equal(c, d) == [c EXCEPT !.time = 0] = [d EXCEPT !.time = 0]

\* The first condition of the type, or one whose status is unknown.
GetCondition(cs, t) ==
  LET is == {i \in DOMAIN cs : cs[i].type = t}
  IN  IF is = {} THEN Condition(t, "Unknown", "")
      ELSE cs[CHOOSE i \in is : \A j \in is : i <= j]

\* Mutant: a condition that differs from the one there is is added to the list.
SetConditionAppends(cs, c) ==
  IF \E i \in DOMAIN cs : Equal(cs[i], c) THEN cs ELSE Append(cs, c)

\* Mutant: an equal condition is replaced too.
SetConditionAlways(cs, c) ==
  IF \A i \in DOMAIN cs : cs[i].type # c.type THEN Append(cs, c)
  ELSE [i \in DOMAIN cs |-> IF cs[i].type = c.type THEN c ELSE cs[i]]

\* Every condition of the type that differs is replaced; a condition that is equal keeps
\* its time.
SetCondition(cs, c) ==
  IF \A i \in DOMAIN cs : cs[i].type # c.type THEN Append(cs, c)
  ELSE [i \in DOMAIN cs |-> IF cs[i].type = c.type /\ ~Equal(cs[i], c) THEN c ELSE cs[i]]

SetConditions(cs, new) == FoldLeft(SetCondition, cs, new)

\* MarkConditions: the conditions are set with the generation of their object.
Observed(new, generation) == [i \in DOMAIN new |-> [new[i] EXCEPT !.generation = generation]]
=============================================================================
