------------------------------ MODULE CRDGate -------------------------------
(***************************************************************************)
(* The CRD gate: the reconciler of pkg/reconciler/customresourcesgate sets *)
(* the conditions of a Gate, the kinds (GVKs) that a controller waits for, *)
(* from the CustomResourceDefinitions it watches.  One worker reconciles   *)
(* (controller-runtime's default); other threads register controllers.     *)
(***************************************************************************)
EXTENDS Gate

CONSTANTS CRDs, Versions, Worker, MaxChanges

ASSUME CRDAssumption == /\ Conditions = CRDs \X Versions
                        /\ Worker \in Threads
                        /\ MaxChanges \in Nat

VARIABLES
  crds,    \* the CRDs in the API server
  cached,  \* the informer's copies
  queue,   \* the CRDs with a request in the work queue
  todo,    \* the calls of gate.Set the running reconcile has left
  changes  \* changes of the CRDs so far

crdVars == <<crds, cached, queue, todo, changes>>
allVars == <<vars, crdVars>>

CRD == [exists : BOOLEAN, deleting : BOOLEAN, established : BOOLEAN, served : SUBSET Versions]

NoCRD == [exists |-> FALSE, deleting |-> FALSE, established |-> FALSE, served |-> {}]

isEstablished(crd) == crd.established

\* Every version the CRD lists, with whether it is served.
toGVKs(c, crd) == {<<<<c, v>>, v \in crd.served>> : v \in Versions}

InitCRDs == /\ Init
            /\ crds = [c \in CRDs |-> NoCRD] /\ cached = crds
            /\ queue = {} /\ todo = {} /\ changes = 0

-----------------------------------------------------------------------------

\* Mutant: a deletion timestamp is not looked at.
ReconcileIgnoresDeletion(c) ==
  /\ c \in queue /\ todo = {} /\ thread[Worker] = "idle"
  /\ queue' = queue \ {c}
  /\ todo' = IF ~cached[c].exists THEN {}
             ELSE IF ~isEstablished(cached[c])
             THEN {<<g[1], "false">> : g \in toGVKs(c, cached[c])}
             ELSE {<<g[1], "true">> : g \in {h \in toGVKs(c, cached[c]) : h[2]}}
  /\ UNCHANGED <<vars, crds, cached, changes>>

\* Reconcile reads the CRD from the cache and decides what to tell the gate; a CRD
\* that is not found is not reconciled.
Reconcile(c) ==
  /\ c \in queue /\ todo = {} /\ thread[Worker] = "idle"
  /\ queue' = queue \ {c}
  /\ todo' = IF ~cached[c].exists THEN {}
             ELSE IF ~isEstablished(cached[c]) \/ cached[c].deleting
             THEN {<<g[1], "false">> : g \in toGVKs(c, cached[c])}
             ELSE {<<g[1], "true">> : g \in {h \in toGVKs(c, cached[c]) : h[2]}}
  /\ UNCHANGED <<vars, crds, cached, changes>>

\* The calls of gate.Set, one at a time, in the order a Go map is ranged over: any.
SetNext == \E g \in todo : /\ Set(Worker, g[1], g[2])
                           /\ todo' = todo \ {g}
                           /\ UNCHANGED <<crds, cached, queue, changes>>

Process(t) == process(t) /\ UNCHANGED crdVars

\* A controller that needs kinds registers its start.
RegisterController ==
  /\ \E t \in Threads \ {Worker}, f \in Callbacks, kinds \in SUBSET Conditions : Register(t, f, kinds)
  /\ UNCHANGED crdVars

-----------------------------------------------------------------------------

\* CRDs come, are established, serve other versions, are deleted, and go.
ChangeCRD(c, crd) == /\ changes < MaxChanges /\ changes' = changes + 1
                     /\ crd # crds[c] /\ crds' = [crds EXCEPT ![c] = crd]
                     /\ UNCHANGED <<vars, cached, queue, todo>>

CRDChanges == \E c \in CRDs :
  \/ /\ ~crds[c].exists
     /\ \E s \in SUBSET Versions : ChangeCRD(c, [NoCRD EXCEPT !.exists = TRUE, !.served = s])
  \/ crds[c].exists /\ ChangeCRD(c, [crds[c] EXCEPT !.established = ~@])
  \/ crds[c].exists /\ \E s \in SUBSET Versions : ChangeCRD(c, [crds[c] EXCEPT !.served = s])
  \/ crds[c].exists /\ ChangeCRD(c, [crds[c] EXCEPT !.deleting = TRUE])
  \/ crds[c].deleting /\ ChangeCRD(c, NoCRD)

\* The informer catches up, perhaps with several changes at once, and the watch
\* queues a request.
CacheSync(c) == /\ cached[c] # crds[c] /\ cached' = [cached EXCEPT ![c] = crds[c]]
                /\ queue' = queue \cup {c}
                /\ UNCHANGED <<vars, crds, todo, changes>>

NextCRDs == \/ \E c \in CRDs : Reconcile(c) \/ CacheSync(c)
            \/ SetNext \/ RegisterController \/ CRDChanges
            \/ \E t \in Threads : Process(t)

SpecCRDs == InitCRDs /\ [][NextCRDs]_allVars

\* The worker and the informer keep working, and Go schedules every thread.
FairCRDs == /\ SpecCRDs
            /\ \A c \in CRDs : WF_allVars(Reconcile(c)) /\ WF_allVars(CacheSync(c))
            /\ WF_allVars(SetNext)
            /\ \A t \in Threads : WF_allVars(Process(t))

-----------------------------------------------------------------------------

\* The variables of the CRD gate hold CRDs, and the calls left are calls of gate.Set.
CRDTypeOK == /\ TypeOK
             /\ crds \in [CRDs -> CRD] /\ cached \in [CRDs -> CRD]
             /\ queue \subseteq CRDs /\ todo \subseteq Conditions \X {"true", "false"}
             /\ changes \in 0 .. MaxChanges

Ready(g) == LET crd == crds[g[1]]
            IN  crd.exists /\ crd.established /\ ~crd.deleting /\ g[2] \in crd.served

AtRest == /\ queue = {} /\ todo = {} /\ cached = crds
          /\ \A t \in Threads : thread[t] = "idle"

\* At rest the gate knows every ready kind as true, and every kind of a CRD that is
\* there but not established or being deleted as false, although the reconciler
\* tells it one kind at a time, from a copy that may be old by then.
GateFollowsCRDs ==
  AtRest => \A g \in Conditions :
              /\ Ready(g) => satisfied[g] = "true"
              /\ LET crd == crds[g[1]]
                 IN  crd.exists /\ (crd.deleting \/ ~crd.established) => satisfied[g] = "false"

\* A controller whose kinds become ready and stay so is started.
ControllersStart ==
  \A g \in Gated : (g \in fns /\ [](\A c \in g.depends : Ready(c))) ~> (started[g.fn] > 0)

\* At rest the gate knows no kind as true that is not ready: Reconcile "reports ready
\* and unready GVKs to the gate".
NoStaleKind == AtRest => \A g \in Conditions : satisfied[g] = "true" => Ready(g)
=============================================================================
