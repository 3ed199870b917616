------------------------ MODULE MCManagedReconciler -------------------------
(* Finite instances of ManagedReconciler for TLC. *)
EXTENDS ManagedReconciler

DefaultPolicy == {{"*"}}

SomePolicies == {{"*"}, {"Observe"}, {"Observe", "Update"}, {}, {"Create"}}

NoLatePolicy == {{"Observe", "Create", "Update", "Delete"}}
=============================================================================
