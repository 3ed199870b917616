----------------------------- MODULE RateLimiter -----------------------------
(***************************************************************************)
(* pkg/ratelimiter: a Reconciler that passes requests on to an inner one   *)
(* at the rate of a limiter shared with other controllers.  A request      *)
(* comes back after the delay the limiter asked for, and passes then       *)
(* because its item is remembered in the map limited.                      *)
(*                                                                         *)
(* The work queue never hands one item to two workers, and when touches    *)
(* only its own item of the map, so the steps of when are one action.      *)
(***************************************************************************)
EXTENDS Integers, FiniteSets

CONSTANTS Items,      \* the requests, with the name of their Reconciler
          Burst,      \* the capacity of the bucket; it gains a token per tick
          MaxEvents   \* a bound on watch events

ASSUME BurstAssumption == Burst \in Nat

VARIABLES
  limited,   \* the items that were rate limited
  tokens,    \* tokens of the bucket; reservations take them below zero
  requests,  \* items in the work queue
  delay,     \* ticks until a delayed item is due; NoTimer if it has no timer
  running,   \* items the inner Reconciler is working on
  events,    \* watch events so far
  credit     \* history: the tokens if only requests that passed took one

limiterVars == <<limited, tokens, requests, delay, running, events, credit>>

NoTimer == -1

Later(a, b) == IF a > b THEN a ELSE b
Earlier(a, b) == IF a < b THEN a ELSE b

\* AddAfter: of two timers of an item the earlier stays.
AddAfter(i, d) == [delay EXCEPT ![i] = IF @ = NoTimer THEN d ELSE Earlier(@, d)]

-----------------------------------------------------------------------------

LimiterInit ==
  /\ limited = {} /\ tokens = Burst /\ requests = {} /\ delay = [i \in Items |-> NoTimer]
  /\ running = {} /\ events = 0 /\ credit = Burst

\* A watch event, or a result of the inner Reconciler, queues an item.
Event(i) ==
  /\ events < MaxEvents /\ events' = events + 1
  /\ i \notin requests /\ requests' = requests \cup {i}
  /\ UNCHANGED <<limited, tokens, delay, running, credit>>

Pass(i) == running' = running \cup {i} /\ credit' = credit - 1

\* Mutant: a request that passes stays in the map.
ReconcileKeepsLimited(i) ==
  /\ i \in requests /\ i \notin running
  /\ requests' = requests \ {i}
  /\ IF i \in limited
     THEN Pass(i) /\ UNCHANGED <<limited, tokens, delay>>
     ELSE /\ tokens' = tokens - 1
          /\ IF tokens > 0
             THEN Pass(i) /\ UNCHANGED <<limited, delay>>
             ELSE /\ limited' = limited \cup {i} /\ delay' = AddAfter(i, 1 - tokens)
                  /\ UNCHANGED <<running, credit>>
  /\ UNCHANGED events

\* Mutant: a request that comes back is limited again.
ReconcileLimitsAgain(i) ==
  /\ i \in requests /\ i \notin running
  /\ requests' = requests \ {i}
  /\ tokens' = tokens - 1
  /\ IF tokens > 0
     THEN Pass(i) /\ UNCHANGED <<limited, delay>>
     ELSE /\ limited' = limited \cup {i} /\ delay' = AddAfter(i, 1 - tokens)
          /\ UNCHANGED <<running, credit>>
  /\ UNCHANGED events

\* Reconcile and when: an item in the map passes and leaves it; any other takes a
\* token, and comes back later if there is none yet.
RateLimitedReconcile(i) ==
  /\ i \in requests /\ i \notin running
  /\ requests' = requests \ {i}
  /\ IF i \in limited
     THEN /\ limited' = limited \ {i} /\ Pass(i)
          /\ UNCHANGED <<tokens, delay>>
     ELSE /\ tokens' = tokens - 1
          /\ IF tokens > 0
             THEN Pass(i) /\ UNCHANGED <<limited, delay>>
             ELSE /\ limited' = limited \cup {i} /\ delay' = AddAfter(i, 1 - tokens)
                  /\ UNCHANGED <<running, credit>>
  /\ UNCHANGED events

\* The inner Reconciler returns.
Done(i) == /\ i \in running /\ running' = running \ {i}
           /\ UNCHANGED <<limited, tokens, requests, delay, events, credit>>

\* A timer is due and queues its item.
Due(i) == /\ delay[i] = 0 /\ delay' = [delay EXCEPT ![i] = NoTimer] /\ requests' = requests \cup {i}
          /\ UNCHANGED <<limited, tokens, running, events, credit>>

\* Time passes: the bucket gains a token and the timers run down.
Tick == /\ tokens' = Earlier(tokens + 1, Burst) /\ credit' = Earlier(credit + 1, Burst)
        /\ delay' = [i \in Items |-> IF delay[i] = NoTimer THEN NoTimer ELSE Later(delay[i] - 1, 0)]
        /\ UNCHANGED <<limited, requests, running, events>>

LimiterNext == Tick \/ \E i \in Items : Event(i) \/ RateLimitedReconcile(i) \/ Done(i) \/ Due(i)

LimiterSpec == LimiterInit /\ [][LimiterNext]_limiterVars

\* Time passes, timers fire, workers take what is queued and the inner Reconciler returns.
FairLimiterSpec ==
  /\ LimiterSpec /\ WF_limiterVars(Tick)
  /\ \A i \in Items : /\ WF_limiterVars(RateLimitedReconcile(i))
                      /\ WF_limiterVars(Done(i)) /\ WF_limiterVars(Due(i))

-----------------------------------------------------------------------------

\* An item is in the map only while its request is on its way back, so the map
\* holds nothing once the queue and the timers are empty, and a request of an
\* item seen for the first time never passes for another.
LimitedComesBack == \A i \in limited : i \in requests \/ delay[i] # NoTimer

\* Every request passes in the end, however many others there are.
EveryRequestPasses == \A i \in Items : i \in requests ~> i \in running

\* "ensuring requests are passed to it no more frequently than the supplied
\* RateLimiter allows".
NoMoreFrequently == credit >= 0
==============================================================================
