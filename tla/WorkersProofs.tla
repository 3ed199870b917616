---------------------------- MODULE WorkersProofs ----------------------------
(***************************************************************************)
(* Goroutines that work for others: the gate and the CRD reconciler that   *)
(* drives it, the rate limiter, and the lexer of Parse, for any number of  *)
(* threads, CRDs and requests and for field paths of any length.           *)
(***************************************************************************)
EXTENDS CRDGate, RateLimiter, FieldPathLexer, TLAPS

-----------------------------------------------------------------------------
(* The gate.                                                               *)

\* The initial states are typed, and every step keeps the types.
LEMMA TypeStep ==
  /\ Init => TypeOK
  /\ TypeOK /\ [Next]_vars => TypeOK'
<1>1. Init => TypeOK
  BY DEF Init, TypeOK, Values
<1>2. ASSUME TypeOK, NEW t \in Threads, NEW f \in Callbacks, NEW d \in SUBSET Conditions,
             Register(t, f, d)
      PROVE  TypeOK'
  BY <1>2 DEF TypeOK, Register, Gated
<1>3. ASSUME TypeOK, NEW t \in Threads, NEW c \in Conditions, NEW v \in {"true", "false"},
             Set(t, c, v)
      PROVE  TypeOK'
  BY <1>3 DEF TypeOK, Set, Values
<1>4. ASSUME TypeOK, NEW t \in Threads, process(t)
      PROVE  TypeOK'
  BY <1>4 DEF TypeOK, process
<1>5. ASSUME TypeOK, UNCHANGED vars PROVE TypeOK'
  BY <1>5 DEF TypeOK, vars
<1> QED BY <1>1, <1>2, <1>3, <1>4, <1>5 DEF Next

\* The gate's variables always have their types.
THEOREM TypeCorrect == Spec => []TypeOK
BY TypeStep, PTL DEF Spec

-----------------------------------------------------------------------------

\* Registering and setting send the caller to process, and process leaves nothing to release,
\* whoever changed the gate since.
LEMMA ReleaseStep ==
  /\ Init => NoLostRelease
  /\ TypeOK /\ NoLostRelease /\ [Next]_vars => NoLostRelease'
<1>1. Init => NoLostRelease
  BY DEF Init, NoLostRelease, Released
<1>2. TypeOK /\ NoLostRelease /\ [Next]_vars => NoLostRelease'
  <2> SUFFICES ASSUME TypeOK, NoLostRelease, [Next]_vars PROVE NoLostRelease'
    OBVIOUS
  <2>1. ASSUME NEW t \in Threads, NEW f \in Callbacks, NEW d \in SUBSET Conditions, Register(t, f, d)
        PROVE  NoLostRelease'
    BY <2>1 DEF NoLostRelease, Register, TypeOK
  <2>2. ASSUME NEW t \in Threads, NEW c \in Conditions, NEW v \in {"true", "false"}, Set(t, c, v)
        PROVE  NoLostRelease'
    <3>1. CASE satisfied[c] = v
      <4>1. UNCHANGED vars BY <2>2, <3>1 DEF Set, TypeOK, vars
      <4> QED BY <4>1 DEF NoLostRelease, Released, vars
    <3>2. CASE satisfied[c] # v
      BY <2>2, <3>2 DEF Set, NoLostRelease, TypeOK
    <3> QED BY <3>1, <3>2
  <2>3. ASSUME NEW t \in Threads, process(t)
        PROVE  NoLostRelease'
    BY <2>3 DEF process, NoLostRelease, Released
  <2>4. CASE UNCHANGED vars
    BY <2>4 DEF NoLostRelease, Released, vars
  <2> QED BY <2>1, <2>2, <2>3, <2>4 DEF Next
<1> QED BY <1>1, <1>2

\* No release is lost, whoever calls the gate in between.
THEOREM LosesNoRelease == Spec => []NoLostRelease
BY ReleaseStep, TypeCorrect, PTL DEF Spec

-----------------------------------------------------------------------------

\* process starts exactly the callbacks it removes from the gate, each of which had
\* one registration and had not been started.
LEMMA ProcessStartsOnce ==
  ASSUME TypeOK, StartedOnce, NEW t \in Threads, process(t)
  PROVE  StartedOnce'
<1> SUFFICES ASSUME NEW f \in Callbacks
             PROVE  /\ started'[f] <= 1
                    /\ started'[f] = 1 => \A g \in fns' : g.fn # f
                    /\ \A g, h \in fns' : g.fn = f /\ h.fn = f => g = h
  BY DEF StartedOnce
<1>0. /\ started[f] \in Nat /\ started[f] <= 1
      /\ started[f] = 1 => \A g \in fns : g.fn # f
      /\ \A g, h \in fns : g.fn = f /\ h.fn = f => g = h
  BY DEF TypeOK, StartedOnce
<1>1. fns' = fns \ Released
  BY DEF process
<1>2. CASE \E g \in Released : g.fn = f
  <2>1. PICK g \in Released : g.fn = f BY <1>2
  <2>2. g \in fns BY DEF Released
  <2>3. started[f] = 0 BY <1>0, <2>1, <2>2
  <2>4. started'[f] = 1 BY <1>2, <2>3 DEF process
  <2>5. \A h \in fns' : h.fn # f BY <1>0, <1>1, <2>1, <2>2
  <2> QED BY <2>4, <2>5
<1>3. CASE ~ \E g \in Released : g.fn = f
  <2>1. started'[f] = started[f] BY <1>3 DEF process
  <2> QED BY <1>0, <1>1, <2>1
<1> QED BY <1>2, <1>3

\* No callback is started twice, nor started and still registered.
THEOREM StartsOnce == Spec => []StartedOnce
<1>1. Init => StartedOnce
  BY DEF Init, StartedOnce
<1>2. TypeOK /\ StartedOnce /\ [Next]_vars => StartedOnce'
  <2> SUFFICES ASSUME TypeOK, StartedOnce, [Next]_vars PROVE StartedOnce'
    OBVIOUS
  <2>1. ASSUME NEW t \in Threads, NEW f \in Callbacks, NEW d \in SUBSET Conditions, Register(t, f, d)
        PROVE  StartedOnce'
    BY <2>1 DEF Register, Fresh, StartedOnce, TypeOK
  <2>2. ASSUME NEW t \in Threads, NEW c \in Conditions, NEW v \in {"true", "false"}, Set(t, c, v)
        PROVE  StartedOnce'
    BY <2>2 DEF Set, StartedOnce
  <2>3. CASE UNCHANGED vars
    BY <2>3 DEF StartedOnce, vars
  <2> QED BY <2>1, <2>2, <2>3, ProcessStartsOnce DEF Next
<1> QED BY <1>1, <1>2, TypeCorrect, PTL DEF Spec

-----------------------------------------------------------------------------

\* A step of process is a release of the contract.
LEMMA ProcessReleases ==
  ASSUME TypeOK, NEW t \in Threads, process(t)
  PROVE  Contract!Release
<1>1. Contract!Open = Released
  BY DEF Contract!Open, Released, True, TypeOK, Gated
<1>2. True' = True
  BY DEF process, True
<1>3. Called' = Called \cup {w.fn : w \in Released}
  <2>1. \A w \in Released : w.fn \in Callbacks BY DEF Released, TypeOK, Gated
  <2>2. \A f \in Callbacks : started'[f] > 0 <=> started[f] > 0 \/ \E w \in Released : w.fn = f
    BY DEF process, TypeOK
  <2> QED BY <2>1, <2>2 DEF Called
<1>4. fns' = fns \ Released
  BY DEF process
<1> QED BY <1>1, <1>2, <1>3, <1>4 DEF Contract!Release

\* The gate begins as the contract does, and every step of Register, Set or process is a step of
\* the contract, or changes nothing it speaks of.
LEMMA ContractStep ==
  /\ Init => Contract!Init
  /\ TypeOK /\ [Next]_vars => [Contract!Next]_(Contract!vars)
<1>1. Init => Contract!Init
  BY DEF Init, Contract!Init, True, Called
<1>2. TypeOK /\ [Next]_vars => [Contract!Next]_(Contract!vars)
  <2> SUFFICES ASSUME TypeOK, [Next]_vars PROVE [Contract!Next]_(Contract!vars)
    OBVIOUS
  <2>1. ASSUME NEW t \in Threads, NEW f \in Callbacks, NEW d \in SUBSET Conditions, Register(t, f, d)
        PROVE  Contract!Next
    <3>1. True' = True /\ Called' = Called BY <2>1 DEF Register, True, Called
    <3>2. f \notin Called BY <2>1 DEF Register, Fresh, Called
    <3>3. Contract!Register(f, d) BY <2>1, <3>1, <3>2 DEF Register, Fresh, Contract!Register
    <3> QED BY <3>3 DEF Contract!Next
  <2>2. ASSUME NEW t \in Threads, NEW c \in Conditions, NEW v \in {"true", "false"}, Set(t, c, v)
        PROVE  Contract!Next
    <3>1. Called' = Called /\ fns' = fns BY <2>2 DEF Set, Called
    <3>2. True' = IF v = "true" THEN True \cup {c} ELSE True \ {c}
      BY <2>2 DEF Set, True, TypeOK
    <3>3. Contract!Set(c, v = "true") BY <3>1, <3>2 DEF Contract!Set
    <3>4. (v = "true") \in BOOLEAN OBVIOUS
    <3> QED BY <3>3, <3>4, Zenon DEF Contract!Next
  <2>3. ASSUME NEW t \in Threads, process(t)
        PROVE  Contract!Next
    BY <2>3, ProcessReleases DEF Contract!Next
  <2>4. CASE UNCHANGED vars
    BY <2>4 DEF vars, Contract!vars, True, Called
  <2> QED BY <2>1, <2>2, <2>3, <2>4 DEF Next
<1> QED BY <1>1, <1>2

\* The gate implements the safety part of its contract, controller.Gate's promise.
THEOREM ImplementsContract == Spec => Contract!Init /\ [][Contract!Next]_(Contract!vars)
BY ContractStep, TypeCorrect, PTL DEF Spec

-----------------------------------------------------------------------------
(* The CRD gate, for any CRDs, versions and numbers of changes.            *)

\* What the gate is to know of version v of a CRD: "unset" when the reconciler says nothing.
Wanted(crd, v) == IF ~crd.exists THEN "unset"
                  ELSE IF ~crd.established \/ crd.deleting THEN "false"
                  ELSE IF v \in crd.served THEN "true" ELSE "unset"

\* The gate knows what it is to know, or is about to be told, and not the opposite after that.
Told(want, g, known, left) ==
  want # "unset" => /\ known[g] = want \/ <<g, want>> \in left
                    /\ \A x \in {"true", "false"} : <<g, x>> \in left => x = want

\* Of the CRDs that are not queued, the gate is told what the cache has.
CachedTold == \A c \in CRDs : c \notin queue =>
                \A v \in Versions : Told(Wanted(cached[c], v), <<c, v>>, satisfied, todo)

CRDInv == CRDTypeOK /\ CachedTold

\* A step of the CRD gate is a step of the gate, or leaves the gate alone.
LEMMA StepsOfGate == CRDTypeOK /\ [NextCRDs]_allVars => [Next]_vars
<1> SUFFICES ASSUME CRDTypeOK, [NextCRDs]_allVars PROVE [Next]_vars
  OBVIOUS
<1>1. ASSUME NEW c \in CRDs, Reconcile(c) \/ CacheSync(c) PROVE UNCHANGED vars
  BY <1>1 DEF Reconcile, CacheSync
<1>2. ASSUME SetNext PROVE Next
  <2>1. PICK g \in todo : Set(Worker, g[1], g[2])
    BY <1>2 DEF SetNext
  <2>2. g[1] \in Conditions /\ g[2] \in {"true", "false"}
    BY DEF CRDTypeOK
  <2>3. QED BY <2>1, <2>2, CRDAssumption DEF Next
<1>3. ASSUME RegisterController PROVE Next
  BY <1>3 DEF RegisterController, Next
<1>4. ASSUME CRDChanges PROVE UNCHANGED vars
  BY <1>4, Zenon DEF CRDChanges, ChangeCRD
<1>5. ASSUME NEW t \in Threads, Process(t) PROVE Next
  BY <1>5 DEF Process, Next
<1>6. QED BY <1>1, <1>2, <1>3, <1>4, <1>5 DEF NextCRDs, allVars

\* A change of a CRD gives a CRD.
LEMMA ChangesTyped == ASSUME CRDTypeOK, CRDChanges PROVE crds' \in [CRDs -> CRD] /\ changes' \in 0 .. MaxChanges
<1>1. \A c \in CRDs : crds[c] \in CRD
  BY DEF CRDTypeOK
<1>2. ASSUME NEW c \in CRDs, NEW crd \in CRD, ChangeCRD(c, crd)
      PROVE  crds' \in [CRDs -> CRD] /\ changes' \in 0 .. MaxChanges
  BY <1>2, CRDAssumption DEF ChangeCRD, CRDTypeOK
<1>3. NoCRD \in CRD /\ \A s \in SUBSET Versions : [NoCRD EXCEPT !.exists = TRUE, !.served = s] \in CRD
  BY Zenon DEF NoCRD, CRD
<1>4. \A crd \in CRD : /\ [crd EXCEPT !.established = ~@] \in CRD /\ [crd EXCEPT !.deleting = TRUE] \in CRD
                       /\ \A s \in SUBSET Versions : [crd EXCEPT !.served = s] \in CRD
  BY Zenon DEF CRD
<1>5. \E c \in CRDs : \E crd \in CRD : ChangeCRD(c, crd)
  BY <1>1, <1>3, <1>4, Zenon DEF CRDChanges
<1>6. QED BY <1>2, <1>5

\* toGVKs lists every version once, with whether it is served.
LEMMA ListedVersions ==
  ASSUME NEW c, NEW crd
  PROVE  /\ \A g \in toGVKs(c, crd) : \E v \in Versions : g[1] = <<c, v>> /\ g[2] = (v \in crd.served)
         /\ \A v \in Versions : \E g \in toGVKs(c, crd) : g[1] = <<c, v>> /\ g[2] = (v \in crd.served)
<1>1. \A v : <<<<c, v>>, v \in crd.served>>[1] = <<c, v>>
  OBVIOUS
<1>2. \A v : <<<<c, v>>, v \in crd.served>>[2] = (v \in crd.served)
  BY Zenon
<1>3. ASSUME NEW g \in toGVKs(c, crd) PROVE \E v \in Versions : g[1] = <<c, v>> /\ g[2] = (v \in crd.served)
  <2>1. PICK v \in Versions : g = <<<<c, v>>, v \in crd.served>>
    BY Zenon DEF toGVKs
  <2>2. QED BY <1>1, <1>2, <2>1, Zenon
<1>4. ASSUME NEW v \in Versions PROVE \E g \in toGVKs(c, crd) : g[1] = <<c, v>> /\ g[2] = (v \in crd.served)
  <2>1. <<<<c, v>>, v \in crd.served>> \in toGVKs(c, crd)
    BY Zenon DEF toGVKs
  <2>2. QED BY <1>1, <1>2, <2>1, Zenon
<1>5. QED BY <1>3, <1>4

\* Reconcile leaves calls of gate.Set for versions of the CRD it has read.
LEMMA ReconcileTells ==
  ASSUME CRDInv, NEW c \in CRDs, Reconcile(c)
  PROVE  /\ todo' \subseteq Conditions \X {"true", "false"}
         /\ \A v \in Versions : Told(Wanted(cached[c], v), <<c, v>>, satisfied, todo')
         /\ \A t \in todo' : t[1][1] = c
<1>1. cached[c] \in CRD
  BY DEF CRDInv, CRDTypeOK
<1>2. CASE ~cached[c].exists
  BY <1>2 DEF Reconcile, Told, Wanted
<1>3. CASE cached[c].exists /\ (~cached[c].established \/ cached[c].deleting)
  <2>1. todo' = {<<<<c, v>>, "false">> : v \in Versions}
    <3>1. todo' = {<<g[1], "false">> : g \in toGVKs(c, cached[c])}
      BY <1>3 DEF Reconcile, isEstablished
    <3>2. \A g : g \in toGVKs(c, cached[c]) => \E v \in Versions : g[1] = <<c, v>>
      BY ListedVersions
    <3>3. \A v \in Versions : \E g \in toGVKs(c, cached[c]) : g[1] = <<c, v>>
      BY ListedVersions
    <3>4. QED BY <3>1, <3>2, <3>3
  <2>2. \A v \in Versions : Wanted(cached[c], v) = "false"
    BY <1>3 DEF Wanted
  <2>3. QED BY <2>1, <2>2, CRDAssumption DEF Told
<1>4. CASE cached[c].exists /\ cached[c].established /\ ~cached[c].deleting
  <2>1. todo' = {<<<<c, v>>, "true">> : v \in {w \in Versions : w \in cached[c].served}}
    <3>1. todo' = {<<g[1], "true">> : g \in {h \in toGVKs(c, cached[c]) : h[2]}}
      BY <1>4 DEF Reconcile, isEstablished
    <3>2. \A g \in toGVKs(c, cached[c]) : g[2] => \E v \in cached[c].served : v \in Versions /\ g[1] = <<c, v>>
      BY ListedVersions, Zenon
    <3>3. \A v \in Versions : v \in cached[c].served => \E g \in toGVKs(c, cached[c]) : g[2] /\ g[1] = <<c, v>>
      BY ListedVersions, Zenon
    <3>4. QED BY <3>1, <3>2, <3>3
  <2>2. \A v \in Versions : Wanted(cached[c], v) = IF v \in cached[c].served THEN "true" ELSE "unset"
    BY <1>4 DEF Wanted
  <2>3. QED BY <2>1, <2>2, CRDAssumption DEF Told
<1>5. QED BY <1>1, <1>2, <1>3, <1>4 DEF CRD

\* A step keeps what the gate is told: only a call of gate.Set that the reconcile has left changes
\* a condition, and a CRD whose copy changes is queued.
LEMMA CRDStep == CRDInv /\ [NextCRDs]_allVars => CRDInv'
<1> SUFFICES ASSUME CRDInv, [NextCRDs]_allVars PROVE CRDInv'
  OBVIOUS
<1>0. TypeOK'
  BY StepsOfGate, TypeStep DEF CRDInv, CRDTypeOK
<1>1. ASSUME NEW c \in CRDs, Reconcile(c) PROVE CRDInv'
  <2>1. todo = {} /\ queue' = queue \ {c} /\ UNCHANGED <<satisfied, crds, cached, changes>>
    BY <1>1 DEF Reconcile, vars
  <2>2. CRDTypeOK'
    BY <1>0, <1>1, <2>1, ReconcileTells DEF CRDInv, CRDTypeOK
  <2>3. ASSUME NEW d \in CRDs, d \notin queue', NEW v \in Versions
        PROVE  Told(Wanted(cached[d], v), <<d, v>>, satisfied, todo')
    <3>1. CASE d = c
      BY <1>1, <3>1, ReconcileTells
    <3>2. CASE d # c
      <4>1. Told(Wanted(cached[d], v), <<d, v>>, satisfied, todo)
        BY <2>1, <2>3, <3>2 DEF CRDInv, CachedTold
      <4>2. \A x \in {"true", "false"} : <<<<d, v>>, x>> \notin todo'
        BY <1>1, <3>2, ReconcileTells
      <4>3. QED BY <2>1, <4>1, <4>2 DEF Told
    <3>3. QED BY <3>1, <3>2
  <2>4. QED BY <2>1, <2>2, <2>3 DEF CRDInv, CachedTold
<1>2. ASSUME NEW c \in CRDs, CacheSync(c) PROVE CRDInv'
  <2>1. CRDTypeOK'
    BY <1>0, <1>2 DEF CacheSync, CRDInv, CRDTypeOK
  <2>2. \A d \in CRDs : d \notin queue' => d \notin queue /\ cached'[d] = cached[d]
    BY <1>2 DEF CacheSync, CRDInv, CRDTypeOK
  <2>3. QED BY <1>2, <2>1, <2>2 DEF CacheSync, vars, CRDInv, CachedTold
<1>3. ASSUME SetNext PROVE CRDInv'
  <2>1. PICK g \in todo : /\ Set(Worker, g[1], g[2]) /\ todo' = todo \ {g}
                          /\ UNCHANGED <<crds, cached, queue, changes>>
    BY <1>3 DEF SetNext
  <2>2. g[1] \in Conditions /\ g[2] \in {"true", "false"} /\ g = <<g[1], g[2]>>
    BY DEF CRDInv, CRDTypeOK
  <2>3. satisfied' = [satisfied EXCEPT ![g[1]] = g[2]] /\ satisfied \in [Conditions -> Values]
    BY <2>1 DEF Set, CRDInv, CRDTypeOK, TypeOK
  <2>4. CRDTypeOK'
    BY <1>0, <2>1 DEF CRDInv, CRDTypeOK
  <2>5. ASSUME NEW h \in Conditions, NEW want, Told(want, h, satisfied, todo)
        PROVE  Told(want, h, satisfied', todo')
    BY <2>1, <2>2, <2>3, <2>5 DEF Told
  <2>6. QED BY <2>1, <2>4, <2>5, CRDAssumption, Zenon DEF CRDInv, CachedTold
<1>4. ASSUME RegisterController PROVE CRDInv'
  BY <1>0, <1>4 DEF RegisterController, Register, crdVars, CRDInv, CRDTypeOK, CachedTold
<1>5. ASSUME CRDChanges PROVE CRDInv'
  <2>1. UNCHANGED <<satisfied, cached, queue, todo>>
    BY <1>5, Zenon DEF CRDChanges, ChangeCRD, vars
  <2>2. QED BY <1>0, <1>5, <2>1, ChangesTyped DEF CRDInv, CRDTypeOK, CachedTold
<1>6. ASSUME NEW t \in Threads, Process(t) PROVE CRDInv'
  BY <1>0, <1>6 DEF Process, process, crdVars, CRDInv, CRDTypeOK, CachedTold
<1>7. CASE UNCHANGED allVars
  BY <1>0, <1>7 DEF allVars, vars, crdVars, CRDInv, CRDTypeOK, CachedTold
<1>8. QED BY <1>1, <1>2, <1>3, <1>4, <1>5, <1>6, <1>7 DEF NextCRDs

\* Nothing is cached at first.
LEMMA CRDFirst == InitCRDs => CRDInv
<1> SUFFICES ASSUME InitCRDs PROVE CRDInv
  OBVIOUS
<1>1. CRDTypeOK
  BY TypeStep, CRDAssumption DEF InitCRDs, CRDTypeOK, NoCRD, CRD
<1>2. \A c \in CRDs : ~cached[c].exists
  BY DEF InitCRDs, NoCRD
<1>3. QED BY <1>1, <1>2 DEF CRDInv, CachedTold, Told, Wanted

\* At rest the gate knows the kinds of every CRD as the CRD has them, for any CRDs, versions,
\* controllers and changes: every change of a copy queues a reconcile, and no reconcile tells
\* the gate anything before the calls of the one before it are made.
THEOREM FollowsCRDs == SpecCRDs => []GateFollowsCRDs
<1>1. CRDInv => GateFollowsCRDs
  <2> SUFFICES ASSUME CRDInv, AtRest, NEW c \in CRDs, NEW v \in Versions
               PROVE  /\ Ready(<<c, v>>) => satisfied[<<c, v>>] = "true"
                      /\ crds[c].exists /\ (crds[c].deleting \/ ~crds[c].established) =>
                           satisfied[<<c, v>>] = "false"
    BY CRDAssumption DEF GateFollowsCRDs
  <2>1. Told(Wanted(crds[c], v), <<c, v>>, satisfied, {})
    BY DEF CRDInv, CachedTold, AtRest
  <2>2. QED BY <2>1 DEF Told, Wanted, Ready
<1>2. QED BY <1>1, CRDFirst, CRDStep, PTL DEF SpecCRDs

\* The CRD gate is a client of the gate: its steps are the gate's, so that no release of a
\* controller's start is lost while CRDs change.
THEOREM CRDsLoseNoRelease == SpecCRDs => []NoLostRelease
<1>1. InitCRDs => Init
  BY DEF InitCRDs
<1>2. CRDInv => CRDTypeOK /\ TypeOK
  BY DEF CRDInv, CRDTypeOK
<1>3. QED BY <1>1, <1>2, CRDFirst, CRDStep, StepsOfGate, ReleaseStep, PTL DEF SpecCRDs

\* Nor does the gate do anything but what its contract lets it do, while CRDs change.
THEOREM CRDsKeepContract == SpecCRDs => Contract!Init /\ [][Contract!Next]_(Contract!vars)
<1>1. InitCRDs => Init
  BY DEF InitCRDs
<1>2. CRDInv => CRDTypeOK /\ TypeOK
  BY DEF CRDInv, CRDTypeOK
<1>3. QED BY <1>1, <1>2, CRDFirst, CRDStep, StepsOfGate, ContractStep, PTL DEF SpecCRDs

-----------------------------------------------------------------------------
(* The rate limiter.                                                       *)

\* A timer never shows a time that means there is none.
Timed == /\ tokens \in Int /\ limited \subseteq Items
         /\ delay \in [Items -> Int] /\ \A i \in Items : delay[i] >= NoTimer

LimiterInv == Timed /\ LimitedComesBack

\* AddAfter leaves an item with a timer, and the others as they are: the delay that when
\* returns is positive and the earlier of two timers stays.
LEMMA AddAfterTimes ==
  ASSUME Timed, NEW i \in Items, NEW d \in Int, d >= 0
  PROVE  /\ AddAfter(i, d) \in [Items -> Int]
         /\ \A j \in Items : AddAfter(i, d)[j] >= NoTimer
         /\ AddAfter(i, d)[i] # NoTimer
         /\ \A j \in Items : j # i => AddAfter(i, d)[j] = delay[j]
  BY DEF Timed, AddAfter, Earlier, NoTimer

\* A request that passes leaves the map; one that is limited gets a timer.
LEMMA LimitingKeeps ==
  ASSUME LimiterInv, NEW i \in Items, RateLimitedReconcile(i) PROVE LimiterInv'
<1>1. CASE i \in limited
  BY <1>1 DEF LimiterInv, Timed, LimitedComesBack, RateLimitedReconcile, Pass
<1>2. CASE i \notin limited /\ tokens > 0
  BY <1>2 DEF LimiterInv, Timed, LimitedComesBack, RateLimitedReconcile, Pass
<1>3. CASE i \notin limited /\ ~(tokens > 0)
  <2>1. /\ limited' = limited \cup {i} /\ delay' = AddAfter(i, 1 - tokens)
        /\ tokens' = tokens - 1 /\ requests' = requests \ {i}
    BY <1>3 DEF RateLimitedReconcile
  <2>2. 1 - tokens \in Int /\ 1 - tokens >= 0 /\ tokens - 1 \in Int
    BY <1>3 DEF LimiterInv, Timed
  <2>3. /\ delay' \in [Items -> Int] /\ \A j \in Items : delay'[j] >= NoTimer
        /\ delay'[i] # NoTimer /\ \A j \in Items : j # i => delay'[j] = delay[j]
    BY <2>1, <2>2, AddAfterTimes DEF LimiterInv
  <2>4. Timed'
    BY <2>1, <2>2, <2>3 DEF LimiterInv, Timed
  <2>5. LimitedComesBack'
    BY <2>1, <2>3 DEF LimiterInv, Timed, LimitedComesBack
  <2>6. QED BY <2>4, <2>5 DEF LimiterInv
<1>4. QED BY <1>1, <1>2, <1>3

\* Time passes: no timer stops by running down.
LEMMA TickKeeps ==
  ASSUME LimiterInv, Tick PROVE LimiterInv'
<1>1. tokens' \in Int
  BY BurstAssumption DEF LimiterInv, Timed, Tick, Earlier
<1>2. /\ delay' \in [Items -> Int]
      /\ \A i \in Items : delay'[i] >= NoTimer /\ (delay[i] # NoTimer => delay'[i] # NoTimer)
  BY DEF LimiterInv, Timed, Tick, Later, NoTimer
<1>3. limited' = limited /\ requests' = requests
  BY DEF Tick
<1>4. QED BY <1>1, <1>2, <1>3 DEF LimiterInv, Timed, LimitedComesBack

\* The map limited of the rate limiter only holds requests on their way back, whatever the
\* order of events, timers and workers is, and whatever the burst and the number of items are.
THEOREM MapHoldsReturning == LimiterSpec => []LimitedComesBack
<1>1. LimiterInit => LimiterInv
  BY BurstAssumption DEF LimiterInit, LimiterInv, Timed, LimitedComesBack, NoTimer
<1>2. LimiterInv /\ [LimiterNext]_limiterVars => LimiterInv'
  <2>1. ASSUME LimiterInv, NEW i \in Items, Event(i) PROVE LimiterInv'
    BY <2>1 DEF LimiterInv, Timed, LimitedComesBack, Event
  <2>2. ASSUME LimiterInv, NEW i \in Items, Done(i) PROVE LimiterInv'
    BY <2>2 DEF LimiterInv, Timed, LimitedComesBack, Done
  <2>3. ASSUME LimiterInv, NEW i \in Items, Due(i) PROVE LimiterInv'
    BY <2>3 DEF LimiterInv, Timed, LimitedComesBack, Due, NoTimer
  <2>4. ASSUME LimiterInv, UNCHANGED limiterVars PROVE LimiterInv'
    BY <2>4 DEF LimiterInv, Timed, LimitedComesBack, limiterVars
  <2>5. QED BY <2>1, <2>2, <2>3, <2>4, LimitingKeeps, TickKeeps DEF LimiterNext
<1>3. LimiterInv => LimitedComesBack
  BY DEF LimiterInv
<1>4. QED BY <1>1, <1>2, <1>3, PTL DEF LimiterSpec

-----------------------------------------------------------------------------
(* The grammar of field paths, one character at a time.                     *)

\* What texts are made of.
Chars == STRING

\* The four cases of the grammar.
LEMMA Cases ==
  ASSUME NEW t, NEW i
  PROVE  /\ t[i] = "[" => (ValidAt(t, i) <=> /\ ~Inside(t, i) /\ i + 1 \in DOMAIN t /\ t[i + 1] # "]"
                                             /\ \E j \in i + 1 .. Len(t) : t[j] = "]")
         /\ t[i] = "]" => (ValidAt(t, i) <=> Inside(t, i))
         /\ t[i] = "." => (ValidAt(t, i) <=> Inside(t, i) \/ (1 < i /\ i < Len(t) /\ Plain(t[i + 1])))
         /\ t[i] \notin {"[", "]", "."} => ValidAt(t, i)
  BY DEF ValidAt

\* The characters before p are those of a valid text.
Before(t, p) == \A i \in 1 .. p - 1 : ValidAt(t, i)

\* What comes after a period that lexPeriod let pass.
Passed(t, p) == t[p] = "." /\ 1 < p /\ p < Len(t) /\ t[p + 1] \notin {".", "["}

\* Where lexField stands: outside of brackets, all read so far valid, but for a period that must not be
\* followed by a bracket.
InField(t, p) == /\ ~Inside(t, p + 1) /\ p \in 0 .. Len(t)
                 /\ \A i \in 1 .. p : ValidAt(t, i) \/ (i = p /\ Passed(t, p))

\* Where lexPeriod and lexLeftBracket stand.
AtChar(t, p, c) == Before(t, p + 1) /\ ~Inside(t, p + 1) /\ p \in 0 .. Len(t) - 1 /\ t[p + 1] = c

\* Where lexFieldOrIndex stands: behind a bracket that is closed later.
InBrackets(t, p) == /\ Before(t, p) /\ ~Inside(t, p) /\ p \in 1 .. Len(t) /\ t[p] = "["
                    /\ \E j \in p + 1 .. Len(t) : t[j] = "]"

\* Where lexRightBracket stands.
AtRight(t, p) == Before(t, p + 1) /\ Inside(t, p + 1) /\ p \in 0 .. Len(t) - 1 /\ t[p + 1] = "]"

\* Characters without brackets do not change what is inside.
LEMMA SameSide ==
  ASSUME NEW t \in Seq(Chars), NEW p \in Nat, NEW q \in Nat, p <= q, q <= Len(t) + 1,
         \A i \in p .. q - 1 : t[i] \notin {"[", "]"}
  PROVE  Inside(t, q) <=> Inside(t, p)
<1>1. \A c \in {"[", "]"} : {j \in 1 .. q - 1 : t[j] = c} = {j \in 1 .. p - 1 : t[j] = c}
  OBVIOUS
<1> QED BY <1>1 DEF Inside

\* What lexField finds after the characters of a field.
LEMMA FieldStep ==
  ASSUME NEW t \in Seq(Chars), NEW p, InField(t, p), NEW q \in p .. Len(t),
         \A i \in p .. q - 1 : t[i + 1] \notin {"]", "[", "."}, q < Len(t) => t[q + 1] \in {"]", "[", "."}
  PROVE  /\ q = Len(t) => Valid(t)
         /\ q < Len(t) /\ t[q + 1] = "]" => ~Valid(t)
         /\ q < Len(t) /\ t[q + 1] \in {"[", "."} => AtChar(t, q, t[q + 1])
<1>1. p \in 0 .. Len(t) /\ ~Inside(t, p + 1)
  BY DEF InField
<1>2. \A i \in p + 1 .. q : t[i] \notin {"]", "[", "."}
  <2> SUFFICES ASSUME NEW i \in p + 1 .. q PROVE t[i] \notin {"]", "[", "."}
    OBVIOUS
  <2>1. i - 1 \in p .. q - 1 /\ (i - 1) + 1 = i
    BY <1>1
  <2> QED BY <2>1
<1>3. ~Inside(t, q + 1)
  BY <1>1, <1>2, SameSide
<1>4. ASSUME ~(q < Len(t) /\ t[q + 1] = "]") PROVE \A i \in 1 .. q : ValidAt(t, i)
  <2> SUFFICES ASSUME NEW i \in 1 .. q PROVE ValidAt(t, i)
    OBVIOUS
  <2>1. CASE i > p
    BY <1>1, <1>2, <2>1, Cases
  <2>2. CASE i = p /\ Passed(t, p)
    <3>1. q > p
      BY <1>1, <1>4, <2>2 DEF Passed
    <3>2. t[p + 1] \notin {"]", "[", "."}
      BY <1>1, <1>2, <3>1
    <3> QED BY <2>2, <3>2, Cases DEF Passed, Plain
  <2> QED BY <1>1, <2>1, <2>2 DEF InField
<1>5. q = Len(t) => Valid(t)
  BY <1>4 DEF Valid
<1>6. q < Len(t) /\ t[q + 1] = "]" => ~Valid(t)
  BY <1>1, <1>3, Cases DEF Valid
<1>7. q < Len(t) /\ t[q + 1] \in {"[", "."} => AtChar(t, q, t[q + 1])
  BY <1>1, <1>3, <1>4 DEF AtChar, Before
<1> QED BY <1>5, <1>6, <1>7

\* What lexPeriod finds: a period at either end, or before a period or a bracket, makes a text invalid.
LEMMA PeriodStep ==
  ASSUME NEW t \in Seq(Chars), NEW p, AtChar(t, p, ".")
  PROVE  /\ p = 0 \/ p = Len(t) - 1 => ~Valid(t)
         /\ p # Len(t) - 1 /\ t[p + 2] \in {".", "["} => ~Valid(t)
         /\ p # 0 /\ p # Len(t) - 1 /\ t[p + 2] \notin {".", "["} => InField(t, p + 1)
<1>1. p \in 0 .. Len(t) - 1 /\ ~Inside(t, p + 1) /\ t[p + 1] = "." /\ p + 1 \in DOMAIN t /\ Len(t) \in Nat
  BY DEF AtChar
<1>2. ValidAt(t, p + 1) <=> 1 < p + 1 /\ p + 1 < Len(t) /\ Plain(t[p + 2])
  <2>1. (p + 1) + 1 = p + 2
    BY <1>1
  <2> QED BY <1>1, <2>1, Cases
<1>3. p = 0 \/ p = Len(t) - 1 => ~Valid(t)
  BY <1>1, <1>2 DEF Valid
<1>4. p # Len(t) - 1 /\ t[p + 2] \in {".", "["} => ~Valid(t)
  BY <1>1, <1>2 DEF Valid, Plain
<1>5. ASSUME p # 0, p # Len(t) - 1, t[p + 2] \notin {".", "["} PROVE InField(t, p + 1)
  <2>1. Passed(t, p + 1)
    BY <1>1, <1>5 DEF Passed
  <2>2. ~Inside(t, (p + 1) + 1)
    BY <1>1, SameSide
  <2> QED BY <1>1, <2>1, <2>2 DEF InField, AtChar, Before
<1> QED BY <1>3, <1>4, <1>5

\* What lexLeftBracket finds: a bracket that is never closed makes a text invalid.
LEMMA LeftStep ==
  ASSUME NEW t \in Seq(Chars), NEW p, AtChar(t, p, "[")
  PROVE  /\ (\A i \in p .. Len(t) - 1 : t[i + 1] # "]") => ~Valid(t)
         /\ (\E i \in p .. Len(t) - 1 : t[i + 1] = "]") => InBrackets(t, p + 1)
<1>1. p \in 0 .. Len(t) - 1 /\ ~Inside(t, p + 1) /\ t[p + 1] = "[" /\ p + 1 \in DOMAIN t /\ Len(t) \in Nat
  BY DEF AtChar
<1>2. ASSUME \A i \in p .. Len(t) - 1 : t[i + 1] # "]" PROVE ~Valid(t)
  <2>1. \A j \in p + 2 .. Len(t) : t[j] # "]"
    <3> SUFFICES ASSUME NEW j \in p + 2 .. Len(t) PROVE t[j] # "]"
      OBVIOUS
    <3>1. j - 1 \in p .. Len(t) - 1 /\ (j - 1) + 1 = j
      BY <1>1
    <3> QED BY <1>2, <3>1
  <2>2. (p + 1) + 1 = p + 2
    BY <1>1
  <2> QED BY <1>1, <2>1, <2>2, Cases DEF Valid
<1>3. ASSUME NEW i \in p .. Len(t) - 1, t[i + 1] = "]" PROVE InBrackets(t, p + 1)
  <2>1. i + 1 \in (p + 1) + 1 .. Len(t)
    BY <1>1, <1>3
  <2> QED BY <1>1, <1>3, <2>1 DEF InBrackets, AtChar
<1> QED BY <1>2, <1>3

\* What lexFieldOrIndex finds: brackets with nothing in them, or within them another bracket, make a
\* text invalid.
LEMMA IndexStep ==
  ASSUME NEW t \in Seq(Chars), NEW p, InBrackets(t, p), NEW q \in p .. Len(t),
         \A i \in p .. q - 1 : t[i + 1] # "]", q < Len(t) => t[q + 1] = "]"
  PROVE  /\ q < Len(t)
         /\ q = p => ~Valid(t)
         /\ (\E i \in p .. q - 1 : t[i + 1] = "[") => ~Valid(t)
         /\ q # p /\ (\A i \in p .. q - 1 : t[i + 1] # "[") => AtRight(t, q)
<1>1. p \in 1 .. Len(t) /\ ~Inside(t, p) /\ t[p] = "[" /\ p \in DOMAIN t /\ Len(t) \in Nat
  BY DEF InBrackets
<1>2. \A k \in p + 1 .. q : t[k] # "]"
  <2> SUFFICES ASSUME NEW k \in p + 1 .. q PROVE t[k] # "]"
    OBVIOUS
  <2>1. k - 1 \in p .. q - 1 /\ (k - 1) + 1 = k
    BY <1>1
  <2> QED BY <2>1
<1>3. q < Len(t) /\ t[q + 1] = "]"
  BY <1>1, <1>2 DEF InBrackets
<1>4. q = p => ~Valid(t)
  BY <1>1, <1>3, Cases DEF Valid
<1>5. \A k \in p + 1 .. q + 1 : Inside(t, k)
  BY <1>1, <1>2, <1>3 DEF Inside
<1>6. ASSUME NEW i \in p .. q - 1, t[i + 1] = "[" PROVE ~Valid(t)
  <2>1. i + 1 \in p + 1 .. q + 1 /\ i + 1 \in DOMAIN t
    BY <1>1
  <2> QED BY <1>5, <1>6, <2>1, Cases DEF Valid
<1>7. ASSUME q # p, \A i \in p .. q - 1 : t[i + 1] # "[" PROVE AtRight(t, q)
  <2>1. \A k \in p + 1 .. q : t[k] # "["
    <3> SUFFICES ASSUME NEW k \in p + 1 .. q PROVE t[k] # "["
      OBVIOUS
    <3>1. k - 1 \in p .. q - 1 /\ (k - 1) + 1 = k
      BY <1>1
    <3> QED BY <1>7, <3>1
  <2>2. \A k \in p + 1 .. q : ValidAt(t, k)
    BY <1>2, <1>5, <2>1, Cases
  <2>3. ValidAt(t, p)
    <3>1. p + 1 \in DOMAIN t /\ t[p + 1] # "]" /\ q + 1 \in p + 1 .. Len(t)
      BY <1>1, <1>2, <1>3, <1>7
    <3> QED BY <1>1, <1>3, <3>1, Cases
  <2>4. Before(t, q + 1)
    BY <1>1, <2>2, <2>3 DEF InBrackets, Before
  <2> QED BY <1>1, <1>3, <1>5, <2>4 DEF AtRight
<1> QED BY <1>3, <1>4, <1>6, <1>7

\* Behind the bracket lexField goes on.
LEMMA RightStep ==
  ASSUME NEW t \in Seq(Chars), NEW p, AtRight(t, p) PROVE InField(t, p + 1)
<1>1. p \in 0 .. Len(t) - 1 /\ Inside(t, p + 1) /\ t[p + 1] = "]" /\ Len(t) \in Nat
  BY DEF AtRight
<1>2. ~Inside(t, (p + 1) + 1)
  BY <1>1 DEF Inside
<1>3. ValidAt(t, p + 1)
  BY <1>1, Cases
<1> QED BY <1>1, <1>2, <1>3 DEF AtRight, Before, InField

-----------------------------------------------------------------------------
(* The lexer and Parse.                                                    *)

Separators == {"field", "period", "leftBracket", "fieldOrIndex", "rightBracket"}
Sent == [typ : Separators \cup {"error"}, val : Seq(STRING)]

\* What is sent has no error, or ends with one.
Clean(s) == \A i \in 1 .. Len(s) : s[i].typ # "error"
Failing(s) == Len(s) > 0 /\ s[Len(s)].typ = "error" /\ \A i \in 1 .. Len(s) - 1 : s[i].typ # "error"

\* What the lexer knows of the text when a state function begins.
Reads(t, st, p) == \/ st = "lexField" /\ InField(t, p)
                   \/ st = "lexPeriod" /\ AtChar(t, p, ".")
                   \/ st = "lexLeftBracket" /\ AtChar(t, p, "[")
                   \/ st = "lexFieldOrIndex" /\ InBrackets(t, p)
                   \/ st = "lexRightBracket" /\ AtRight(t, p)

\* How far it got, and what it is about to send.
Lexed(t, st, p, s) == \/ Clean(s) /\ Reads(t, st, p)
                      \/ Clean(s) /\ st = "nil" /\ Valid(t)
                      \/ Failing(s) /\ st = "nil" /\ ~Valid(t)

LexInv ==
  /\ input \in Seq(STRING) /\ items \in Seq(Sent) /\ pos \in 0 .. Len(input) /\ start = pos
  /\ \/ parse = "receiving" /\ Lexed(input, state, pos, items)
     \/ parse = "returned" /\ state = "nil" /\ items = <<>> /\ Valid(input)
     \/ parse = "failed" /\ state = "nil" /\ items = <<>> /\ ~Valid(input)

\* A sent item is no error, unless it is one.
LEMMA EmitClean ==
  ASSUME LexInv, NEW typ \in Separators, NEW p \in pos .. Len(input)
  PROVE  emit(typ, p) \in Seq(Sent) /\ Clean(emit(typ, p))
<1>1. CASE p > start
  <2>1. SubSeq(input, start + 1, p) \in Seq(STRING)
    BY DEF LexInv
  <2>2. emit(typ, p) = <<Item(typ, SubSeq(input, start + 1, p))>>
    BY <1>1 DEF emit
  <2>3. Item(typ, SubSeq(input, start + 1, p)) \in Sent /\ Item(typ, SubSeq(input, start + 1, p)).typ = typ
    BY <2>1 DEF Item, Sent
  <2> QED BY <2>2, <2>3 DEF Clean, Separators
<1>2. CASE ~(p > start)
  BY <1>2 DEF emit, Clean
<1> QED BY <1>1, <1>2

\* errorf sends an error and nothing else.
LEMMA ErrorFails == errorf \in Seq(Sent) /\ Len(errorf) = 1 /\ errorf[1].typ = "error" /\ Failing(errorf)
<1> DEFINE e == Item("error", <<>>)
<1>1. e \in Sent /\ e.typ = "error"
  BY DEF Item, Sent
<1> HIDE DEF e
<1>2. errorf = <<e>>
  BY DEF errorf, e
<1> QED BY <1>1, <1>2 DEF Failing

\* What two lists are, one after the other.
LEMMA Joined ==
  ASSUME NEW S, NEW s \in Seq(S), NEW u \in Seq(S)
  PROVE  /\ s \o u \in Seq(S) /\ Len(s \o u) = Len(s) + Len(u)
         /\ \A i \in 1 .. Len(s) + Len(u) : (s \o u)[i] = IF i <= Len(s) THEN s[i] ELSE u[i - Len(s)]
  OBVIOUS

\* A list without elements is the empty one.
LEMMA EmptyList == ASSUME NEW S, NEW s \in Seq(S), Len(s) = 0 PROVE s = <<>>
  OBVIOUS

\* An error is the last item of those that come before it.
LEMMA ThenErrorFails ==
  ASSUME NEW s \in Seq(Sent), Clean(s) PROVE s \o errorf \in Seq(Sent) /\ Failing(s \o errorf)
<1>1. errorf \in Seq(Sent) /\ Len(errorf) = 1 /\ errorf[1].typ = "error"
  BY ErrorFails
<1>2. s \o errorf \in Seq(Sent) /\ Len(s \o errorf) = Len(s) + 1
  <2>1. s \o errorf \in Seq(Sent) /\ Len(s \o errorf) = Len(s) + Len(errorf)
    BY <1>1, Joined, Zenon
  <2> QED BY <1>1, <2>1
<1>3. (s \o errorf)[Len(s) + 1] = errorf[1] /\ \A i \in 1 .. Len(s) : (s \o errorf)[i] = s[i]
  BY <1>1, Joined
<1> QED BY <1>1, <1>2, <1>3 DEF Clean, Failing

\* A step of the lexer keeps the invariant if what it knows then is right.
LEMMA StepKeeps ==
  ASSUME LexInv, parse = "receiving", NEW next, NEW p \in 0 .. Len(input), NEW sent \in Seq(Sent),
         Step(next, p, sent), Lexed(input, next, p, sent)
  PROVE  LexInv'
  BY DEF LexInv, Step

\* Parse receives an item: an error ends it, with the lexer gone.
LEMMA ReceiveKeeps == ASSUME LexInv, Receive PROVE LexInv'
<1>1. /\ parse = "receiving" /\ items # <<>> /\ items \in Seq(Sent) /\ items' = Tail(items)
      /\ UNCHANGED <<input, pos, start, state>> /\ Lexed(input, state, pos, items)
  BY DEF Receive, LexInv
<1>2. /\ Len(items) \in Nat \ {0} /\ Tail(items) \in Seq(Sent) /\ Len(Tail(items)) = Len(items) - 1
      /\ \A i \in 1 .. Len(items) - 1 : Tail(items)[i] = items[i + 1]
      /\ Head(items) = items[1]
  BY <1>1
<1>3. CASE items[1].typ = "error"
  <2>1. parse' = "failed"
    BY <1>2, <1>3 DEF Receive
  <2>2. Failing(items) /\ Len(items) = 1
    BY <1>1, <1>2, <1>3 DEF Lexed, Clean, Failing
  <2>3. Tail(items) = <<>>
    <3>1. Len(Tail(items)) = 0
      BY <1>2, <2>2
    <3> QED BY <1>2, <3>1, EmptyList, Zenon
  <2>4. state = "nil" /\ ~Valid(input)
    BY <1>1, <1>2, <1>3 DEF Lexed, Clean
  <2> QED BY <1>1, <1>2, <2>1, <2>3, <2>4 DEF LexInv
<1>4. CASE items[1].typ # "error"
  <2>1. parse' = parse
    BY <1>2, <1>4 DEF Receive
  <2>2. Clean(items) => Clean(Tail(items))
    BY <1>2 DEF Clean
  <2>3. Failing(items) => Failing(Tail(items))
    BY <1>2, <1>4 DEF Failing
  <2>4. Lexed(input, state, pos, Tail(items))
    BY <1>1, <2>2, <2>3 DEF Lexed
  <2> QED BY <1>1, <1>2, <2>1, <2>4 DEF LexInv
<1> QED BY <1>3, <1>4

\* The lexer begins in a field.
LEMMA StartSound == ASSUME NEW t \in Seq(STRING) PROVE Lexed(t, "lexField", 0, <<>>) /\ <<>> \in Seq(Sent) /\ 0 \in 0 .. Len(t)
<1>1. ~Inside(t, 0 + 1)
  BY DEF Inside
<1> QED BY <1>1 DEF Lexed, Reads, InField, Clean

-----------------------------------------------------------------------------
(* The steps of the lexer that look for a character: there is a first.     *)

LOCAL INSTANCE WellFoundedInduction

\* Every set of numbers that is not empty has a least element.
LEMMA Least == ASSUME NEW S \in SUBSET Nat, S # {}
               PROVE  \E n \in S : \A m \in S : n <= m
<1>1. IsWellFoundedOn(OpToRel(<, Nat), Nat)
  BY NatLessThanWellFounded, Zenon
<1>2. PICK n \in S : \A m \in S : <<m, n>> \notin OpToRel(<, Nat)
  BY <1>1, WFMin, Zenon
<1>3. ASSUME NEW m \in S PROVE n <= m
  <2>1. <<m, n>> \notin OpToRel(<, Nat)
    BY <1>2, Zenon
  <2>2. ~(m < n)
    BY <2>1 DEF OpToRel
  <2> QED BY <2>2
<1> QED BY <1>3

\* First finds the first of the characters, or the end.
LEMMA FirstIsFirst ==
  ASSUME NEW cs, NEW from \in Nat, NEW to \in Nat, from <= to
  PROVE  LET f == First(cs, from, to)
         IN  /\ f \in from .. to /\ \A i \in from .. f - 1 : At(i) \notin cs
             /\ f < to => At(f) \in cs
<1> DEFINE hits == {i \in from .. to - 1 : At(i) \in cs}
<1>1. CASE hits = {}
  BY <1>1 DEF First
<1>2. CASE hits # {}
  <2>1. \E i \in hits : \A j \in hits : i <= j
    <3>1. hits \subseteq Nat
      OBVIOUS
    <3> QED BY <1>2, <3>1, Least, Zenon
  <2>2. Min(hits) \in hits /\ \A j \in hits : Min(hits) <= j
    BY <2>1, Zenon DEF Min
  <2>3. First(cs, from, to) = Min(hits)
    BY <1>2 DEF First
  <2> HIDE DEF hits
  <2>4. First(cs, from, to) \in hits /\ \A j \in hits : First(cs, from, to) <= j
    BY <2>2, <2>3
  <2> QED BY <2>4 DEF hits
<1> QED BY <1>1, <1>2


\* lexField keeps the invariant.
LEMMA FieldKeeps == ASSUME LexInv, parse = "receiving", state = "lexField", items = <<>>, lexField PROVE LexInv'
<1> DEFINE p == First({"]", "[", "."}, pos, Len(input))
<1>1. input \in Seq(Chars) /\ Len(input) \in Nat /\ pos \in 0 .. Len(input) /\ InField(input, pos)
  BY DEF LexInv, Lexed, Reads, Chars, Failing
<1>2. /\ p \in pos .. Len(input) /\ \A i \in pos .. p - 1 : input[i + 1] \notin {"]", "[", "."}
      /\ p < Len(input) => input[p + 1] \in {"]", "[", "."}
  BY <1>1, FirstIsFirst DEF At
<1> HIDE DEF p
<1>3. /\ p = Len(input) => Valid(input)
      /\ p < Len(input) /\ input[p + 1] = "]" => ~Valid(input)
      /\ p < Len(input) /\ input[p + 1] \in {"[", "."} => AtChar(input, p, input[p + 1])
  BY <1>1, <1>2, FieldStep
<1>4. emit("field", p) \in Seq(Sent) /\ Clean(emit("field", p)) /\ p \in 0 .. Len(input)
  BY <1>1, <1>2, EmitClean DEF Separators
<1>5. CASE p = Len(input) /\ Step("nil", p, emit("field", p))
  <2>1. Lexed(input, "nil", p, emit("field", p))
    BY <1>3, <1>4, <1>5 DEF Lexed
  <2> QED BY <1>4, <1>5, <2>1, StepKeeps
<1>6. CASE p < Len(input) /\ At(p) = "]" /\ Step("nil", pos, errorf)
  <2>1. Lexed(input, "nil", pos, errorf)
    BY <1>3, <1>6, ErrorFails DEF Lexed, At
  <2> QED BY <1>1, <1>6, <2>1, ErrorFails, StepKeeps
<1>7. CASE p < Len(input) /\ At(p) = "[" /\ Step("lexLeftBracket", p, emit("field", p))
  <2>1. Lexed(input, "lexLeftBracket", p, emit("field", p))
    BY <1>3, <1>4, <1>7 DEF Lexed, Reads, At
  <2> QED BY <1>4, <1>7, <2>1, StepKeeps
<1>8. CASE p < Len(input) /\ At(p) = "." /\ Step("lexPeriod", p, emit("field", p))
  <2>1. Lexed(input, "lexPeriod", p, emit("field", p))
    BY <1>3, <1>4, <1>8 DEF Lexed, Reads, At
  <2> QED BY <1>4, <1>8, <2>1, StepKeeps
<1>9. p = Len(input) \/ (p < Len(input) /\ At(p) \in {"]", "[", "."})
  <2>1. p = Len(input) \/ p < Len(input)
    BY <1>1, <1>2
  <2> QED BY <1>2, <2>1 DEF At
<1>10. CASE p = Len(input)
  <2>1. ~(p < Len(input))
    BY <1>1, <1>10
  <2>2. Step("nil", p, emit("field", p))
    BY <1>10, <2>1, Zenon DEF lexField, p
  <2> QED BY <1>5, <1>10, <2>2
<1>11. CASE p < Len(input) /\ At(p) = "]"
  BY <1>1, <1>2, <1>6, <1>11 DEF lexField, p
<1>12. CASE p < Len(input) /\ At(p) = "["
  BY <1>1, <1>2, <1>7, <1>12 DEF lexField, p
<1>13. CASE p < Len(input) /\ At(p) = "."
  BY <1>1, <1>2, <1>8, <1>13 DEF lexField, p
<1> QED BY <1>9, <1>10, <1>11, <1>12, <1>13

\* lexPeriod keeps the invariant.
LEMMA PeriodKeeps == ASSUME LexInv, parse = "receiving", state = "lexPeriod", items = <<>>, lexPeriod PROVE LexInv'
<1>1. input \in Seq(Chars) /\ Len(input) \in Nat /\ pos \in 0 .. Len(input) - 1 /\ AtChar(input, pos, ".")
  BY DEF LexInv, Lexed, Reads, Chars, AtChar, Failing
<1>2. At(pos + 1) = input[pos + 2]
  BY <1>1 DEF At
<1>3. emit("period", pos + 1) \in Seq(Sent) /\ Clean(emit("period", pos + 1)) /\ pos + 1 \in 0 .. Len(input)
  BY <1>1, EmitClean, SMTT(30) DEF Separators
<1>4. CASE (pos = 0 \/ pos = Len(input) - 1) /\ Step("nil", pos, errorf)
  <2>1. Lexed(input, "nil", pos, errorf)
    BY <1>1, <1>4, PeriodStep, ErrorFails DEF Lexed
  <2> QED BY <1>1, <1>4, <2>1, ErrorFails, StepKeeps
<1>5. CASE /\ pos # Len(input) - 1 /\ At(pos + 1) \in {".", "["}
           /\ Step("nil", pos + 1, emit("period", pos + 1) \o errorf)
  <2>1. Lexed(input, "nil", pos + 1, emit("period", pos + 1) \o errorf)
    BY <1>1, <1>2, <1>3, <1>5, PeriodStep, ThenErrorFails DEF Lexed
  <2> QED BY <1>3, <1>5, <2>1, ThenErrorFails, StepKeeps, Zenon
<1>6. CASE /\ pos # 0 /\ pos # Len(input) - 1 /\ At(pos + 1) \notin {".", "["}
           /\ Step("lexField", pos + 1, emit("period", pos + 1))
  <2>1. Lexed(input, "lexField", pos + 1, emit("period", pos + 1))
    BY <1>1, <1>2, <1>3, <1>6, PeriodStep DEF Lexed, Reads
  <2> QED BY <1>3, <1>6, <2>1, StepKeeps
<1> QED BY <1>4, <1>5, <1>6 DEF lexPeriod

\* lexLeftBracket keeps the invariant.
LEMMA LeftKeeps ==
  ASSUME LexInv, parse = "receiving", state = "lexLeftBracket", items = <<>>, lexLeftBracket PROVE LexInv'
<1> DEFINE f == First({"]"}, pos, Len(input))
<1>1. input \in Seq(Chars) /\ Len(input) \in Nat /\ pos \in 0 .. Len(input) - 1 /\ AtChar(input, pos, "[")
  BY DEF LexInv, Lexed, Reads, Chars, AtChar, Failing
<1>2. /\ f \in pos .. Len(input) /\ \A i \in pos .. f - 1 : input[i + 1] # "]"
      /\ f < Len(input) => input[f + 1] = "]"
  BY <1>1, FirstIsFirst DEF At
<1> HIDE DEF f
<1>3. f = Len(input) => ~Valid(input)
  BY <1>1, <1>2, LeftStep
<1>4. f # Len(input) => InBrackets(input, pos + 1)
  BY <1>1, <1>2, LeftStep
<1>5. emit("leftBracket", pos + 1) \in Seq(Sent) /\ Clean(emit("leftBracket", pos + 1)) /\ pos + 1 \in 0 .. Len(input)
  BY <1>1, EmitClean DEF Separators
<1>6. CASE f = Len(input) /\ Step("nil", pos, errorf)
  <2>1. Lexed(input, "nil", pos, errorf)
    BY <1>3, <1>6, ErrorFails DEF Lexed
  <2> QED BY <1>1, <1>6, <2>1, ErrorFails, StepKeeps
<1>7. CASE f # Len(input) /\ Step("lexFieldOrIndex", pos + 1, emit("leftBracket", pos + 1))
  <2>1. Lexed(input, "lexFieldOrIndex", pos + 1, emit("leftBracket", pos + 1))
    BY <1>4, <1>5, <1>7 DEF Lexed, Reads
  <2> QED BY <1>5, <1>7, <2>1, StepKeeps
<1> QED BY <1>6, <1>7 DEF lexLeftBracket, f

\* lexFieldOrIndex keeps the invariant.
LEMMA IndexKeeps ==
  ASSUME LexInv, parse = "receiving", state = "lexFieldOrIndex", items = <<>>, lexFieldOrIndex PROVE LexInv'
<1> DEFINE f == First({"]"}, pos, Len(input))
           g == First({"["}, pos, f)
<1>1. input \in Seq(Chars) /\ Len(input) \in Nat /\ pos \in 1 .. Len(input) /\ InBrackets(input, pos)
  BY DEF LexInv, Lexed, Reads, Chars, InBrackets, Failing
<1>2. /\ f \in pos .. Len(input) /\ \A i \in pos .. f - 1 : input[i + 1] # "]"
      /\ f < Len(input) => input[f + 1] = "]"
  BY <1>1, FirstIsFirst DEF At
<1> HIDE DEF f
<1>3. /\ g \in pos .. f /\ \A i \in pos .. g - 1 : input[i + 1] # "["
      /\ g < f => input[g + 1] = "["
  BY <1>1, <1>2, FirstIsFirst DEF At
<1> HIDE DEF g
<1>4. f = pos \/ g < f => ~Valid(input)
  <2>1. g < f => g \in pos .. f - 1 /\ input[g + 1] = "["
    BY <1>1, <1>2, <1>3
  <2> QED BY <1>1, <1>2, <2>1, IndexStep
<1>5. ~(f = pos \/ g < f) => AtRight(input, f)
  BY <1>1, <1>2, <1>3, IndexStep
<1>6. emit("fieldOrIndex", f) \in Seq(Sent) /\ Clean(emit("fieldOrIndex", f)) /\ f \in 0 .. Len(input)
  BY <1>1, <1>2, EmitClean DEF Separators
<1>7. CASE (f = pos \/ g < f) /\ Step("nil", pos, errorf)
  <2>1. Lexed(input, "nil", pos, errorf)
    BY <1>4, <1>7, ErrorFails DEF Lexed
  <2> QED BY <1>1, <1>7, <2>1, ErrorFails, StepKeeps
<1>8. CASE ~(f = pos \/ g < f) /\ Step("lexRightBracket", f, emit("fieldOrIndex", f))
  <2>1. Lexed(input, "lexRightBracket", f, emit("fieldOrIndex", f))
    BY <1>5, <1>6, <1>8 DEF Lexed, Reads
  <2> QED BY <1>6, <1>8, <2>1, StepKeeps
<1> QED BY <1>7, <1>8 DEF lexFieldOrIndex, f, g

\* lexRightBracket keeps the invariant.
LEMMA RightKeeps ==
  ASSUME LexInv, parse = "receiving", state = "lexRightBracket", items = <<>>, lexRightBracket PROVE LexInv'
<1>1. input \in Seq(Chars) /\ Len(input) \in Nat /\ pos \in 0 .. Len(input) - 1 /\ AtRight(input, pos)
  BY DEF LexInv, Lexed, Reads, Chars, AtRight, Failing
<1>2. emit("rightBracket", pos + 1) \in Seq(Sent) /\ Clean(emit("rightBracket", pos + 1)) /\ pos + 1 \in 0 .. Len(input)
  BY <1>1, EmitClean DEF Separators
<1>3. Lexed(input, "lexField", pos + 1, emit("rightBracket", pos + 1))
  BY <1>1, <1>2, RightStep DEF Lexed, Reads
<1> QED BY <1>2, <1>3, StepKeeps DEF lexRightBracket

\* Every step of the lexer and of Parse keeps the invariant.
LEMMA ParseKeeps == ASSUME LexInv, [Parse \/ \E t \in Seq(STRING) : ParseAgain(t)]_lexVars PROVE LexInv'
<1>1. CASE UNCHANGED lexVars
  BY <1>1 DEF LexInv, lexVars
<1>2. CASE run
  <2>1. items = <<>> /\ ~Failing(items) /\ state # "nil" /\ parse = "receiving"
    BY <1>2 DEF run, LexInv, Failing
  <2> QED BY <1>2, <2>1, FieldKeeps, PeriodKeeps, LeftKeeps, IndexKeeps, RightKeeps DEF run
<1>3. CASE Closed
  BY <1>3 DEF Closed, LexInv, Lexed, Reads, Failing
<1>4. ASSUME NEW t \in Seq(STRING), ParseAgain(t) PROVE LexInv'
  BY <1>4, StartSound DEF ParseAgain, LexInv
<1> QED BY <1>1, <1>2, <1>3, <1>4, ReceiveKeeps DEF Parse

\* Parse accepts the texts of the grammar, refuses all others, and leaves no goroutine, for texts of
\* any length (pkg/fieldpath/fieldpath.go).
THEOREM ParsesExactly == LexSpec => []ParseIsExact
<1>1. LexInit => LexInv
  BY TextsAssumption, StartSound DEF LexInit, LexInv
<1>2. LexInv => ParseIsExact
  BY DEF LexInv, ParseIsExact, AcceptsValid, NoLexerLeft
<1> QED BY <1>1, <1>2, ParseKeeps, PTL DEF LexSpec
==============================================================================
