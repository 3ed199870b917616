-------------------------------- MODULE Gate --------------------------------
(***************************************************************************)
(* pkg/gate/gate.go: callbacks that wait for conditions.  Register and Set *)
(* change the gate under the mutex, release it, and take it again in       *)
(* process, so that the calls of other threads come between the two.       *)
(* process starts a goroutine for each callback it releases.               *)
(***************************************************************************)
EXTENDS Naturals

CONSTANTS Conditions, Callbacks, Threads

VARIABLES
  satisfied,  \* g.satisfied: "unset" for a condition not in the map
  fns,        \* g.fns: the gated functions
  thread,     \* what each caller does next: "idle" or "process"
  started     \* how often a goroutine was started for each callback

vars == <<satisfied, fns, thread, started>>

Values == {"unset", "true", "false"}

Gated == [fn : Callbacks, depends : SUBSET Conditions]

Init == /\ satisfied = [c \in Conditions |-> "unset"]
        /\ fns = {}
        /\ thread = [t \in Threads |-> "idle"]
        /\ started = [f \in Callbacks |-> 0]

\* A callback is registered once; the gate does not require it, but what it
\* promises is about one registration.
Fresh(f) == started[f] = 0 /\ \A g \in fns : g.fn # f

Register(t, f, depends) ==
  /\ thread[t] = "idle" /\ Fresh(f)
  /\ fns' = fns \cup {[fn |-> f, depends |-> depends]}
  /\ thread' = [thread EXCEPT ![t] = "process"]
  /\ UNCHANGED <<satisfied, started>>

\* Mutant: only a condition already in the map counts as updated.
SetKnown(t, c, value) ==
  /\ thread[t] = "idle"
  /\ satisfied' = [satisfied EXCEPT ![c] = value]
  /\ thread' = [thread EXCEPT ![t] = IF satisfied[c] \in {"unset", value} THEN "idle" ELSE "process"]
  /\ UNCHANGED <<fns, started>>

\* A value that is not new is a no-op: Set returns without calling process.
Set(t, c, value) ==
  /\ thread[t] = "idle"
  /\ satisfied' = [satisfied EXCEPT ![c] = value]
  /\ thread' = [thread EXCEPT ![t] = IF satisfied[c] = value THEN "idle" ELSE "process"]
  /\ UNCHANGED <<fns, started>>

\* Mutant: one condition is enough.
ReleasedByAny == {g \in fns : g.depends = {} \/ \E c \in g.depends : satisfied[c] = "true"}

Released == {g \in fns : \A c \in g.depends : satisfied[c] = "true"}

process(t) ==
  /\ thread[t] = "process"
  /\ started' = [f \in Callbacks |-> IF \E g \in Released : g.fn = f THEN started[f] + 1 ELSE started[f]]
  /\ fns' = fns \ Released
  /\ thread' = [thread EXCEPT ![t] = "idle"]
  /\ UNCHANGED satisfied

Next == \E t \in Threads :
          \/ \E f \in Callbacks, depends \in SUBSET Conditions : Register(t, f, depends)
          \/ \E c \in Conditions, value \in {"true", "false"} : Set(t, c, value)
          \/ process(t)

\* A caller that has changed the gate goes on to process: Go schedules every thread.
Spec == Init /\ [][Next]_vars /\ \A t \in Threads : WF_vars(process(t))

-----------------------------------------------------------------------------

\* The gate's map, registrations and callers are of the kinds the code gives them.
TypeOK == /\ satisfied \in [Conditions -> Values]
          /\ fns \subseteq Gated
          /\ thread \in [Threads -> {"idle", "process"}]
          /\ started \in [Callbacks -> Nat]

\* No call is lost: whenever a registered callback has all its conditions, some
\* caller is on its way into process, whatever the calls that came in between and
\* found nothing to update.
NoLostRelease == Released # {} => \E t \in Threads : thread[t] = "process"

\* No callback is started twice, nor started and still registered, however many
\* callers are in process.
StartedOnce == \A f \in Callbacks :
                 /\ started[f] <= 1
                 /\ started[f] = 1 => \A g \in fns : g.fn # f
                 /\ \A g, h \in fns : g.fn = f /\ h.fn = f => g = h

True == {c \in Conditions : satisfied[c] = "true"}

Called == {f \in Callbacks : started[f] > 0}

Contract == INSTANCE GateContract WITH true <- True, waiting <- fns, called <- Called

\* The gate does what controller.Gate promises, however its callers interleave; in
\* particular a callback whose conditions stay true is called.
KeepsContract == Contract!Spec
=============================================================================
