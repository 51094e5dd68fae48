------------------------------ MODULE SlaTracker ------------------------------
(***************************************************************************)
(* SLA tracking and SQL sampling of one route (measurements/sla-tracker,   *)
(* with the request hooks of http/fastify-plugin that drive it).           *)
(*                                                                         *)
(* Requests overlap: whether one captures its queries is decided when it   *)
(* starts, what becomes of them when its reply is sent.  Of its duration   *)
(* only matters whether it breached the threshold, of its queries where    *)
(* they are.  Routes do not share state.                                   *)
(***************************************************************************)
EXTENDS Integers, FiniteSets

CONSTANTS Requests,         \* requests to the route at a time
          WindowSize,
          SamplesToCollect,
          RateInverse       \* 20 in the code: the breach rate of 0.05

ASSUME SlaAssumption == /\ WindowSize \in Nat \ {0}
                        /\ SamplesToCollect \in Nat
                        /\ RateInverse \in Nat \ {0}

VARIABLES window,            \* slot -> did the request meet the SLA?
          windowIndex,       \* slot of the next request
          mode,
          samplesRemaining,
          request,           \* request -> how it runs
          history,           \* the last WindowSize outcomes, oldest first
          taken,             \* samples taken since collecting last began
          last               \* the request completed last

vars == <<window, windowIndex, mode, samplesRemaining, request, history, taken, last>>

Slots == 0..(WindowSize - 1)

(* Requests that do not, and that do, capture their queries.               *)
Running == {"plain", "capturing"}

(* What became of a request's queries: not captured, still in the scope's  *)
(* buffer, discarded, or in the sample.                                    *)
NoRequest == [sampled |-> FALSE, queries |-> "none"]

Init == /\ window = [i \in Slots |-> TRUE]
        /\ windowIndex = 0
        /\ mode = "monitoring"
        /\ samplesRemaining = 0
        /\ request = [r \in Requests |-> "none"]
        /\ history = [i \in 1..WindowSize |-> TRUE]
        /\ taken = 0
        /\ last = NoRequest

shouldCaptureSql == mode = "collecting"

(* onRequest; traced tells that the caller sent X-SQL-Trace.               *)
Start(r, traced) ==
  /\ request[r] = "none"
  /\ request' = [request EXCEPT ![r] = IF shouldCaptureSql \/ traced
                                       THEN "capturing" ELSE "plain"]
  /\ UNCHANGED <<window, windowIndex, mode, samplesRemaining, history, taken, last>>

BreachCount(w) == Cardinality({i \in Slots : ~w[i]})

(* Mutant of OverRate: a rate of exactly 5% is taken for an excess.        *)
OverRateOrAt(w) == BreachCount(w) * RateInverse >= WindowSize

OverRate(w) == BreachCount(w) * RateInverse > WindowSize

(* Mutant of NextIndex: the last slot of the window is never used.         *)
NextIndexShort(i) == (i + 1) % (IF WindowSize = 1 THEN 1 ELSE WindowSize - 1)

NextIndex(i) == (i + 1) % WindowSize

(* Mutant of EndsEpisode: one sample too many.                             *)
EndsEpisodeLate(n) == n < 0

EndsEpisode(n) == n <= 0

(* The queries of a request whose buffer is flushed into to, or left.      *)
Queries(r, to) == IF request[r] = "plain" THEN "none" ELSE to

Complete(r, breached, sampled, queries) ==
  /\ request[r] \in Running
  /\ window' = [window EXCEPT ![windowIndex] = ~breached]
  /\ windowIndex' = NextIndex(windowIndex)
  /\ history' = [i \in 1..WindowSize |-> IF i < WindowSize THEN history[i + 1] ELSE ~breached]
  /\ request' = [request EXCEPT ![r] = "none"]
  /\ last' = [sampled |-> sampled, queries |-> queries]

(* onSend and record while monitoring: collecting starts with the request  *)
(* that brings the breach rate over the limit, the buffer is left alone.   *)
Monitor(r, breached) ==
  /\ mode = "monitoring"
  /\ Complete(r, breached, FALSE, Queries(r, "buffered"))
  /\ IF OverRate(window')
     THEN mode' = "collecting" /\ samplesRemaining' = SamplesToCollect /\ taken' = 0
     ELSE UNCHANGED <<mode, samplesRemaining, taken>>

(* While collecting, a request within its SLA only loses its queries.      *)
Discard(r) ==
  /\ mode = "collecting"
  /\ Complete(r, FALSE, FALSE, Queries(r, "discarded"))
  /\ UNCHANGED <<mode, samplesRemaining, taken>>

(* While collecting, a request that breached its SLA is a sample, which    *)
(* the hook saves and counts in sla_breach_total.                          *)
Sample(r) ==
  /\ mode = "collecting"
  /\ Complete(r, TRUE, TRUE, Queries(r, "in sample"))
  /\ samplesRemaining' = samplesRemaining - 1
  /\ mode' = IF EndsEpisode(samplesRemaining - 1) THEN "monitoring" ELSE mode
  /\ taken' = taken + 1

Next == \E r \in Requests :
          \/ \E traced \in BOOLEAN : Start(r, traced)
          \/ \E breached \in BOOLEAN : Monitor(r, breached)
          \/ Discard(r)
          \/ Sample(r)

Spec == Init /\ [][Next]_vars

-----------------------------------------------------------------------------
(* Samples an episode takes: asking for none still takes the first.        *)
Episode == IF SamplesToCollect = 0 THEN 1 ELSE SamplesToCollect

(* The types; only an episode that takes a sample nobody asked for leaves  *)
(* the counter below zero.                                                 *)
TypeOK ==
  /\ window \in [Slots -> BOOLEAN]
  /\ windowIndex \in Slots
  /\ mode \in {"monitoring", "collecting"}
  /\ samplesRemaining \in (SamplesToCollect - Episode)..SamplesToCollect
  /\ request \in [Requests -> Running \cup {"none"}]
  /\ history \in [1..WindowSize -> BOOLEAN]
  /\ taken \in 0..Episode
  /\ last \in [sampled: BOOLEAN, queries: {"none", "buffered", "discarded", "in sample"}]

(* The circular window holds the outcomes of exactly the last WindowSize   *)
(* requests, the oldest in the slot that is written next.                  *)
WindowIsRecent ==
  \A i \in 1..WindowSize : history[i] = window[(windowIndex + i - 1) % WindowSize]

(* Collecting begins exactly when a monitored request leaves more than the *)
(* rate of breaches among the last WindowSize requests ("When a route's    *)
(* breach rate exceeds 5%", framework.md).                                 *)
CollectsOnBreachRate ==
  [][\A r \in Requests, breached \in BOOLEAN : Monitor(r, breached) =>
       (mode' = "collecting" <=>
          Cardinality({i \in 1..WindowSize : ~history'[i]}) * RateInverse > WindowSize)]_vars

(* An episode of collecting ends with the last of the samples it was to    *)
(* take and never before, however many requests overlap it.                *)
EpisodeBudget ==
  [][mode = "collecting" => (mode' = "monitoring" <=> taken' = Episode)]_vars
=============================================================================
