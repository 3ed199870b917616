------------------------- MODULE UnstructuredInputs -------------------------
(* The objects and conditions of the model-checked instance.               *)
EXTENDS Paved, Conditions

User == "user" :> [opaque |-> "x"]

\* Objects with fields of the user, with nulls, with nothing, and with a string in the place
\* of the status or of its conditions.
AllObjects == {Object(<<>>),
               Object("spec" :> Object(User @@ "crossplane" :> Object(User)) @@ "status" :> Object(User)),
               Object("spec" :> Object("crossplane" :> Null) @@ "status" :> Null),
               Object("status" :> Object("conditions" :> Null @@ User)),
               Object("status" :> [opaque |-> "wat"]),
               Object("status" :> Object("conditions" :> [opaque |-> "wat"] @@ User))}

Custom == Condition("Custom", "True", "User")

AllReported == {<<Creating>>, <<Available, ReconcileSuccess>>, <<ReconcileSuccess, Unavailable>>,
                <<Available, Creating>>, <<Custom>>, <<Custom, Custom>>}

AllClaimTypes == {<<"Custom">>, <<"Custom", "Ready">>, <<"Other", "Custom", "Other">>, <<"Other", "Healthy">>}
=============================================================================
