------------------------- MODULE ManagementPolicies -------------------------
(***************************************************************************)
(* The management policy resolvers of pkg/reconciler/managed/policies.go.  *)
(* A resolver decides which operations the managed resource reconciler may *)
(* apply to an external resource.  It is the record                        *)
(*   enabled   the beta management policies feature flag                   *)
(*   policies  spec.managementPolicies, a set of management actions        *)
(*   deletion  spec.deletionPolicy of a legacy managed resource, or        *)
(*             "Modern" for a resource that has no such field              *)
(***************************************************************************)
EXTENDS FiniteSets

ManagementActions == {"Observe", "Create", "Update", "Delete", "LateInitialize", "*"}

DeletionPolicies == {"Delete", "Orphan", "Modern"}

Resolvers == [enabled : BOOLEAN, policies : SUBSET ManagementActions, deletion : DeletionPolicies]

defaultSupportedManagementPolicies == { {"*"},
    {"Observe", "Create", "Update", "LateInitialize", "Delete"},
    {"Observe"}, {},
    {"Observe", "Create", "Update", "Delete"}, {"Observe", "Create", "Update", "LateInitialize"},
    {"Observe", "Create", "Update"}, {"Observe", "Create", "Delete", "LateInitialize"},
    {"Observe", "Create", "LateInitialize"}, {"Observe", "Create", "Delete"},
    {"Observe", "Create"}, {"Observe", "Delete"}, {"Observe", "Update"},
    {"Observe", "LateInitialize"}, {"Observe", "Update", "LateInitialize"} }

\* Mutant: an empty set is not accepted as a way to pause.
ValidateNonEmpty(r) == r.policies # {} /\ r.policies \in defaultSupportedManagementPolicies

Validate(r) == IF r.enabled THEN r.policies \in defaultSupportedManagementPolicies
                            ELSE r.policies \in {{"*"}, {}}

IsPaused(r) == r.enabled /\ r.policies = {}

HasAny(r, action) == r.policies \cap {action, "*"} # {}

ShouldCreate(r) == r.enabled => HasAny(r, "Create")

\* Mutant: an update is implied by a create.
UpdateIfOnlyCreate(r) == r.enabled => r.policies \cap {"*", "Update"} # {} \/ r.policies = {"Observe", "Create"}

ShouldUpdate(r) == r.enabled => HasAny(r, "Update")

ShouldLateInitialize(r) == r.enabled => HasAny(r, "LateInitialize")

ShouldOnlyObserve(r) == r.enabled /\ r.policies = {"Observe"}

\* Mutant: the management policies alone decide.
LegacyIgnoresOrphan(r) == r.enabled => HasAny(r, "Delete")

LegacyShouldDelete(r) ==
  IF ~r.enabled THEN r.deletion # "Orphan"
  ELSE \/ r.deletion = "Delete" /\ HasAny(r, "Delete")
       \/ r.policies # {"*"} /\ "Delete" \in r.policies

ShouldDelete(r) == IF r.deletion = "Modern" THEN r.enabled => HasAny(r, "Delete")
                                            ELSE LegacyShouldDelete(r)
=============================================================================
