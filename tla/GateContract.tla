---------------------------- MODULE GateContract ----------------------------
(***************************************************************************)
(* What a controller.Gate promises (pkg/controller/gate.go): a registered  *)
(* callback is called once, when all its conditions are true, and then its *)
(* registration is gone.                                                   *)
(***************************************************************************)
CONSTANTS Conditions, Callbacks

VARIABLES
  true,     \* the conditions that are true
  waiting,  \* the registrations: callbacks with what they wait for
  called    \* the callbacks called so far

vars == <<true, waiting, called>>

Init == true = {} /\ waiting = {} /\ called = {}

Register(f, deps) == /\ \A w \in waiting : w.fn # f
                     /\ f \notin called
                     /\ waiting' = waiting \cup {[fn |-> f, depends |-> deps]}
                     /\ UNCHANGED <<true, called>>

Set(c, value) == /\ true' = IF value THEN true \cup {c} ELSE true \ {c}
                 /\ UNCHANGED <<waiting, called>>

Open == {w \in waiting : w.depends \subseteq true}

\* Every callback whose conditions are all true is called.
Release == /\ waiting' = waiting \ Open
           /\ called' = called \cup {w.fn : w \in Open}
           /\ UNCHANGED true

Next == \/ \E f \in Callbacks, deps \in SUBSET Conditions : Register(f, deps)
        \/ \E c \in Conditions, value \in BOOLEAN : Set(c, value)
        \/ Release

Spec == Init /\ [][Next]_vars /\ WF_vars(Release)
=============================================================================
