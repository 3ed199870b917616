----------------------------- MODULE MCWorkers ------------------------------
(***************************************************************************)
(* Queues, workers and their requests: the gate with the CRD gate, the     *)
(* rate limiter, and finalizers with owner references.  A behaviour uses   *)
(* one of the three.                                                       *)
(***************************************************************************)
EXTENDS CRDGate, RateLimiter, Metadata, TLC

VARIABLE lib   \* the library

GVKs == CRDs \X Versions

\* A library that is not used stays in its initial state.
InitWorkers == /\ lib \in {"gate", "ratelimiter", "meta"}
               /\ InitCRDs /\ LimiterInit /\ MetadataInit

UseGate == lib = "gate" /\ NextCRDs /\ UNCHANGED <<lib, limiterVars, metadataVars>>
UseRateLimiter == lib = "ratelimiter" /\ LimiterNext /\ UNCHANGED <<lib, allVars, metadataVars>>
UseMeta == lib = "meta" /\ MetadataNext /\ UNCHANGED <<lib, allVars, limiterVars>>

NextWorkers == UseGate \/ UseRateLimiter \/ UseMeta

\* The fairness of each library, for the behaviours that use it.
Workers ==
  /\ InitWorkers /\ [][NextWorkers]_<<lib, allVars, limiterVars, metadataVars>>
  /\ \A c \in CRDs : /\ WF_allVars(lib = "gate" /\ Reconcile(c))
                     /\ WF_allVars(lib = "gate" /\ CacheSync(c))
  /\ WF_allVars(lib = "gate" /\ SetNext)
  /\ \A t \in Threads : WF_allVars(lib = "gate" /\ Process(t))
  /\ WF_limiterVars(lib = "ratelimiter" /\ Tick)
  /\ \A i \in Items : /\ WF_limiterVars(lib = "ratelimiter" /\ RateLimitedReconcile(i))
                      /\ WF_limiterVars(lib = "ratelimiter" /\ Done(i))
                      /\ WF_limiterVars(lib = "ratelimiter" /\ Due(i))
  /\ \A c \in Controllers : /\ WF_metadataVars(lib = "meta" /\ Get(c))
                            /\ WF_metadataVars(lib = "meta" /\ FinalizerRemove(c))
=============================================================================
