----------------------------- MODULE MCClients ------------------------------
(***************************************************************************)
(* Applicators and references: what reconcilers do with objects that       *)
(* others may change at the same time.  A behaviour uses one of them.      *)
(***************************************************************************)
EXTENDS Applicators, References, TLC

CONSTANTS a1, a2   \* the owners that apply

VARIABLE lib       \* the library

RI == INSTANCE ReferenceInputs

AllTargets == RI!AllTargets
AllSiblings == RI!AllSiblings
AllResources == RI!AllResources
AllSurroundings == RI!AllSurroundings
Details == {"k" :> 1, "k" :> 2 @@ "l" :> 1}

AnyResource == CHOOSE r \in Resources : TRUE

\* A library that is not used stays in one of its initial states.
InitClients ==
  /\ lib \in {"applicator", "reference"}
  /\ lib # "applicator" => patching = TRUE /\ server = NoObject /\ data = [a \in Owners |-> "k" :> 1]
  /\ lib # "reference" => /\ kind = AnyResource.kind /\ field = AnyResource.field /\ refs = AnyResource.refs
                          /\ targets = [t \in Targets |-> -1]
  /\ Init /\ ResolveInit

UseApplicator == lib = "applicator" /\ Next /\ UNCHANGED <<lib, resolveVars>>
UseReference == lib = "reference" /\ ResolveNext /\ UNCHANGED <<lib, vars>>

NextClients == UseApplicator \/ UseReference

\* The fairness of each library, for the behaviours that use it.
Clients == /\ InitClients /\ [][NextClients]_<<lib, vars, resolveVars>>
           /\ WF_vars(lib = "applicator" /\ Sync)
           /\ \A a \in Owners : WF_vars(lib = "applicator" /\ Work(a))
           /\ WF_resolveVars(lib = "reference" /\ Step)

-----------------------------------------------------------------------------
(* Liveness, for the behaviours that use the library.                      *)

\* The object that is applied is there in the end, as its owner wants it.
ObjectsSettle == lib = "applicator" => Settles

\* Values follow their references in the end.
ValuesFollow == lib = "reference" => Follows
=============================================================================
