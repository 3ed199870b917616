---------------------------- MODULE PolicyEdits -----------------------------
(***************************************************************************)
(* Every resolver there is, under edits of spec.managementPolicies: the    *)
(* decisions of policies.go compared with what its comments promise.       *)
(***************************************************************************)
EXTENDS ManagementPolicies

VARIABLE r

Init == r \in Resolvers

\* A user edits spec.managementPolicies; the next reconcile builds a new resolver.
EditPolicies == \E p \in SUBSET ManagementActions : r' = [r EXCEPT !.policies = p]

Spec == Init /\ [][EditPolicies]_r

-----------------------------------------------------------------------------

\* Reconcile asks IsPaused before it validates; the order cannot matter, since no
\* resolver is both paused and invalid.
PauseIsValid == IsPaused(r) => Validate(r)

\* The deletion decision for every policy Validate accepts, in one line: a policy
\* other than the default speaks for itself, the default leaves the decision to
\* the deletion policy of a resource that has one.
DeletionDecision ==
  r.enabled /\ Validate(r) =>
    (ShouldDelete(r) <=> IF r.policies = {"*"} THEN r.deletion # "Orphan"
                                               ELSE "Delete" \in r.policies)

Granted(x) == {a \in {"Create", "Update", "Delete", "LateInitialize"} :
                 CASE a = "Create" -> ShouldCreate(x)
                   [] a = "Update" -> ShouldUpdate(x)
                   [] a = "Delete" -> ShouldDelete(x)
                   [] a = "LateInitialize" -> ShouldLateInitialize(x)}

\* An edit that only adds actions to a policy, from one supported policy to
\* another, withdraws nothing that was granted, and one that only removes
\* actions grants nothing.
GrantsFollowPolicies ==
  [][Validate(r) /\ Validate(r') /\ r.policies \subseteq r'.policies =>
       Granted(r) \subseteq Granted(r')]_r
=============================================================================
