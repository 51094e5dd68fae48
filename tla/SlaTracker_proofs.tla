-------------------------- MODULE SlaTracker_proofs --------------------------
(***************************************************************************)
(* When collecting begins and how long it lasts, for any window, budget    *)
(* and rate.                                                               *)
(***************************************************************************)
EXTENDS SlaTracker, FiniteSetTheorems, FunctionTheorems, TLAPS

(* While collecting, the counter and the samples taken add up to the       *)
(* budget, and the sample that ends the episode is still to come.          *)
Budget ==
  /\ mode \in {"monitoring", "collecting"}
  /\ mode = "collecting" => /\ taken \in 0..(Episode - 1)
                            /\ samplesRemaining = SamplesToCollect - taken

(* A sample uses up one of the budget; the last one ends the episode.      *)
LEMMA SampleCounts ==
  ASSUME Budget, NEW r \in Requests, Sample(r)
  PROVE  Budget' /\ (mode' = "monitoring" <=> taken' = Episode)
<1>1. /\ mode = "collecting"
      /\ taken \in 0..(Episode - 1)
      /\ samplesRemaining = SamplesToCollect - taken
  BY DEF Sample, Budget
<1>2. Episode \in Nat /\ SamplesToCollect \in Nat
  BY SlaAssumption DEF Episode
<1>3. /\ samplesRemaining' = SamplesToCollect - (taken + 1)
      /\ taken' = taken + 1
  <2>1. samplesRemaining' = samplesRemaining - 1 /\ taken' = taken + 1
    BY DEF Sample
  <2>2. taken \in Int
    BY <1>1, <1>2
  <2> QED BY <1>1, <1>2, <2>1, <2>2
<1>4. samplesRemaining - 1 <= 0 <=> taken + 1 = Episode
  <2>1. CASE SamplesToCollect = 0
    BY <1>1, <2>1 DEF Episode
  <2>2. CASE SamplesToCollect # 0
    <3>1. Episode = SamplesToCollect
      BY <2>2 DEF Episode
    <3> QED BY <1>1, <1>2, <3>1
  <2> QED BY <2>1, <2>2
<1>5. /\ taken + 1 = Episode => mode' = "monitoring"
      /\ taken + 1 # Episode => mode' = "collecting"
  BY <1>1, <1>4 DEF Sample, EndsEpisode
<1>6. taken + 1 # Episode => taken + 1 \in 0..(Episode - 1)
  BY <1>1, <1>2
<1>7. Budget'
  BY <1>3, <1>5, <1>6 DEF Budget, Episode
<1> QED BY <1>3, <1>5, <1>7

(* The budget's counter is exact in every reachable state.                 *)
LEMMA NextBudget ==
  ASSUME Budget, [Next]_vars
  PROVE  Budget'
<1> USE SlaAssumption DEF Budget, Episode
<1>1. ASSUME NEW r \in Requests, NEW traced \in BOOLEAN, Start(r, traced)
      PROVE  Budget'
  BY <1>1 DEF Start
<1>2. ASSUME NEW r \in Requests, NEW breached \in BOOLEAN, Monitor(r, breached)
      PROVE  Budget'
  BY <1>2 DEF Monitor
<1>3. ASSUME NEW r \in Requests, Discard(r)
      PROVE  Budget'
  BY <1>3 DEF Discard
<1>4. ASSUME NEW r \in Requests, Sample(r)
      PROVE  Budget'
  BY <1>4, SampleCounts
<1>5. CASE UNCHANGED vars
  BY <1>5 DEF vars
<1> QED BY <1>1, <1>2, <1>3, <1>4, <1>5 DEF Next

(* An episode ends with its last sample and no other step.                 *)
LEMMA NextEnds ==
  ASSUME Budget, [Next]_vars, mode = "collecting"
  PROVE  mode' = "monitoring" <=> taken' = Episode
<1>1. ASSUME NEW r \in Requests, Sample(r)
      PROVE  mode' = "monitoring" <=> taken' = Episode
  BY <1>1, SampleCounts
<1>2. CASE mode' = mode /\ taken' = taken
  <2>1. taken # Episode /\ mode # "monitoring"
    BY SlaAssumption DEF Budget, Episode
  <2> QED BY <1>2, <2>1
<1> QED BY <1>1, <1>2 DEF Next, Start, Monitor, Discard, vars

(* An episode of collecting ends with the last of the samples it was to    *)
(* take and never before, for any budget and number of requests.           *)
THEOREM EpisodesKeepBudget == Spec => EpisodeBudget
<1>1. Init => Budget
  BY DEF Init, Budget
<1>2. Budget /\ [Next]_vars => Budget'
  BY NextBudget
<1>3. Budget /\ [Next]_vars =>
        [mode = "collecting" => (mode' = "monitoring" <=> taken' = Episode)]_vars
  BY NextEnds
<1> QED BY <1>1, <1>2, <1>3, PTL DEF Spec, EpisodeBudget

-----------------------------------------------------------------------------
(* Slots of the circular window.                                           *)

(* An offset from the next slot goes around the window at most once.       *)
LEMMA Around ==
  ASSUME NEW a \in Nat, a < WindowSize + WindowSize
  PROVE  /\ a % WindowSize = IF a < WindowSize THEN a ELSE a - WindowSize
         /\ a % WindowSize \in Slots
<1>1. WindowSize \in Nat /\ WindowSize > 0
  BY SlaAssumption
<1>2. a < WindowSize => a % WindowSize = a
  BY <1>1
<1>3. a >= WindowSize => a % WindowSize = a - WindowSize
  BY <1>1, Z3
<1> QED BY <1>1, <1>2, <1>3 DEF Slots

(* The window's types.                                                     *)
WindowOK ==
  /\ window \in [Slots -> BOOLEAN]
  /\ windowIndex \in Slots
  /\ history \in [1..WindowSize -> BOOLEAN]

(* The slot of the i-th oldest outcome when x is written next.             *)
SlotOf(x, i) == (x + i - 1) % WindowSize

LEMMA SlotOfOldest ==
  ASSUME NEW x \in Slots, NEW i \in 1..WindowSize
  PROVE  /\ SlotOf(x, i) = IF x + i - 1 < WindowSize THEN x + i - 1 ELSE x + i - 1 - WindowSize
         /\ SlotOf(x, i) \in Slots
<1>1. PICK a : a = x + i - 1
  OBVIOUS
<1>2. a \in Nat /\ a < WindowSize + WindowSize
  BY <1>1, SlaAssumption DEF Slots
<1>3. SlotOf(x, i) = a % WindowSize
  BY <1>1 DEF SlotOf
<1>4. /\ a % WindowSize = IF a < WindowSize THEN a ELSE a - WindowSize
      /\ a % WindowSize \in Slots
  BY <1>2, Around
<1>5. SlotOf(x, i) \in Slots
  BY <1>3, <1>4
<1>6. SlotOf(x, i) = IF a < WindowSize THEN a ELSE a - WindowSize
  BY <1>3, <1>4
<1> QED BY <1>1, <1>5, <1>6, SlaAssumption DEF Slots

(* A completed request takes the place of the oldest.                      *)
LEMMA CompleteWindow ==
  ASSUME WindowOK, WindowIsRecent, NEW r, NEW breached \in BOOLEAN,
         NEW sampled, NEW queries, Complete(r, breached, sampled, queries)
  PROVE  WindowOK' /\ WindowIsRecent'
<1>1. /\ window' = [window EXCEPT ![windowIndex] = ~breached]
      /\ windowIndex' = (windowIndex + 1) % WindowSize
      /\ history' = [i \in 1..WindowSize |-> IF i < WindowSize THEN history[i + 1] ELSE ~breached]
  BY DEF Complete, NextIndex
<1>2. WindowSize \in Nat /\ WindowSize > 0 /\ windowIndex \in Nat /\ windowIndex < WindowSize
  BY SlaAssumption DEF WindowOK, Slots
<1>3. /\ windowIndex' = IF windowIndex + 1 < WindowSize THEN windowIndex + 1 ELSE 0
      /\ windowIndex' \in Slots
  <2> DEFINE a == windowIndex + 1
  <2>1. a \in Nat /\ a < WindowSize + WindowSize
    BY <1>2
  <2> HIDE DEF a
  <2>2. /\ a % WindowSize = IF a < WindowSize THEN a ELSE a - WindowSize
        /\ a % WindowSize \in Slots
    BY <2>1, Around
  <2> QED BY <1>1, <1>2, <2>2 DEF a
<1>4. WindowOK'
  <2>1. \A i \in 1..WindowSize : i < WindowSize => i + 1 \in 1..WindowSize
    BY <1>2
  <2> QED BY <1>1, <1>3, <2>1 DEF WindowOK
<1>5. ASSUME NEW i \in 1..WindowSize
      PROVE  history'[i] = window'[SlotOf(windowIndex', i)]
  <2>1. /\ SlotOf(windowIndex', i) = IF windowIndex' + i - 1 < WindowSize THEN windowIndex' + i - 1
                                     ELSE windowIndex' + i - 1 - WindowSize
        /\ SlotOf(windowIndex', i) \in Slots
    BY <1>3, SlotOfOldest
  <2>2. CASE i = WindowSize
    <3>1. SlotOf(windowIndex', i) = windowIndex
      BY <1>2, <1>3, <2>1, <2>2
    <3> QED BY <1>1, <2>2, <3>1 DEF WindowOK
  <2>3. CASE i < WindowSize
    <3>1. i + 1 \in 1..WindowSize
      BY <1>2, <2>3
    <3>2. SlotOf(windowIndex, i + 1) = IF windowIndex + i < WindowSize THEN windowIndex + i
                      ELSE windowIndex + i - WindowSize
      <4>1. windowIndex + (i + 1) - 1 = windowIndex + i
        BY <1>2
      <4> QED BY <3>1, <4>1, SlotOfOldest DEF WindowOK
    <3>3. SlotOf(windowIndex', i) = SlotOf(windowIndex, i + 1) /\ SlotOf(windowIndex', i) # windowIndex
      BY <1>2, <1>3, <2>1, <2>3, <3>2
    <3>4. window'[SlotOf(windowIndex', i)] = window[SlotOf(windowIndex', i)]
      BY <1>1, <2>1, <3>3 DEF WindowOK
    <3>5. history'[i] = history[i + 1] /\ history[i + 1] = window[SlotOf(windowIndex, i + 1)]
      BY <1>1, <2>3, <3>1 DEF WindowIsRecent, SlotOf
    <3> QED BY <3>3, <3>4, <3>5
  <2> QED BY <1>2, <2>2, <2>3
<1> QED BY <1>4, <1>5 DEF WindowIsRecent, SlotOf

(* The window is in order in every reachable state.                        *)
LEMMA NextWindow ==
  ASSUME WindowOK, WindowIsRecent, [Next]_vars
  PROVE  WindowOK' /\ WindowIsRecent'
<1>1. ASSUME NEW r, NEW breached \in BOOLEAN, NEW sampled, NEW queries,
             Complete(r, breached, sampled, queries)
      PROVE  WindowOK' /\ WindowIsRecent'
  BY <1>1, CompleteWindow
<1>2. CASE UNCHANGED <<window, windowIndex, history>>
  BY <1>2 DEF WindowOK, WindowIsRecent
<1> QED BY <1>1, <1>2 DEF Next, Start, Monitor, Discard, Sample, vars

LEMMA WindowSafe == Spec => [](WindowOK /\ WindowIsRecent)
<1>1. Init => WindowOK /\ WindowIsRecent
  <2> SUFFICES ASSUME Init  PROVE WindowOK /\ WindowIsRecent
    OBVIOUS
  <2>1. WindowOK
    BY SlaAssumption DEF Init, WindowOK, Slots
  <2>2. \A i \in 1..WindowSize : history[i] /\ window[SlotOf(windowIndex, i)]
    BY <2>1, SlotOfOldest DEF Init, WindowOK
  <2> QED BY <2>1, <2>2 DEF Init, WindowIsRecent, SlotOf
<1>2. WindowOK /\ WindowIsRecent /\ [Next]_vars => (WindowOK /\ WindowIsRecent)'
  BY NextWindow
<1> QED BY <1>1, <1>2, PTL DEF Spec

(* The circular window always holds the outcomes of the last requests, the *)
(* oldest in the slot that is written next.                                *)
THEOREM WindowStaysRecent == Spec => []WindowIsRecent
BY WindowSafe, PTL

(* A recent window has as many breaches as the last requests had.          *)
LEMMA BreachesCounted ==
  ASSUME NEW w \in [Slots -> BOOLEAN], NEW x \in Slots, NEW h,
         \A i \in 1..WindowSize : h[i] = w[SlotOf(x, i)]
  PROVE  BreachCount(w) = Cardinality({i \in 1..WindowSize : ~h[i]})
<1> DEFINE S == {i \in 1..WindowSize : ~h[i]}
           T == {j \in Slots : ~w[j]}
           f == [i \in S |-> SlotOf(x, i)]
<1>1. WindowSize \in Nat /\ x \in Nat /\ x < WindowSize
  BY SlaAssumption DEF Slots
<1>2. IsFiniteSet(S)
  <2>1. IsFiniteSet(1..WindowSize)
    BY <1>1, FS_Interval
  <2> QED BY <2>1, FS_Subset
<1>3. f \in [S -> T]
  BY SlotOfOldest 
<1>4. ASSUME NEW i \in S, NEW k \in S, f[i] = f[k]  PROVE i = k
  BY <1>1, <1>4, SlotOfOldest
<1>5. ASSUME NEW j \in T  PROVE \E i \in S : f[i] = j
  <2>1. PICK i \in 1..WindowSize : SlotOf(x, i) = j
    <3>1. CASE j >= x
      <4>1. j - x + 1 \in 1..WindowSize
        BY <1>1, <3>1 DEF Slots
      <4>2. SlotOf(x, j - x + 1) = j
        BY <1>1, <3>1, <4>1, SlotOfOldest DEF Slots
      <4> QED BY <4>1, <4>2
    <3>2. CASE j < x
      <4>1. j - x + 1 + WindowSize \in 1..WindowSize
        BY <1>1, <3>2 DEF Slots
      <4>2. SlotOf(x, j - x + 1 + WindowSize) = j
        BY <1>1, <3>2, <4>1, SlotOfOldest DEF Slots
      <4> QED BY <4>1, <4>2
    <3> QED BY <1>1, <3>1, <3>2 DEF Slots
  <2>2. h[i] = w[j]
    BY <2>1 
  <2> QED BY <2>1, <2>2
<1> HIDE DEF f, S, T
<1>6. f \in Bijection(S, T)
  BY <1>3, <1>4, <1>5, Fun_IsBij
<1>7. Cardinality(T) = Cardinality(S)
  BY <1>2, <1>6, FS_Bijection DEF ExistsBijection
<1> QED BY <1>7 DEF BreachCount, S, T

(* Collecting begins with exactly those requests that leave more than the  *)
(* rate of breaches among the last requests.                               *)
THEOREM CollectingBeginsExactly == Spec => CollectsOnBreachRate
<1>1. ASSUME WindowOK, WindowIsRecent, [Next]_vars, NEW r \in Requests, NEW breached \in BOOLEAN,
             Monitor(r, breached)
      PROVE  mode' = "collecting" <=>
               Cardinality({i \in 1..WindowSize : ~history'[i]}) * RateInverse > WindowSize
  <2>1. WindowOK' /\ WindowIsRecent'
    BY <1>1, NextWindow
  <2>2. BreachCount(window') = Cardinality({i \in 1..WindowSize : ~history'[i]})
    BY <2>1, BreachesCounted DEF WindowOK, WindowIsRecent, SlotOf
  <2>3. mode' = "collecting" <=> OverRate(window')
    BY <1>1 DEF Monitor
  <2> QED BY <2>2, <2>3 DEF OverRate
<1>2. WindowOK /\ WindowIsRecent /\ [Next]_vars =>
        [\A r \in Requests, breached \in BOOLEAN : Monitor(r, breached) =>
           (mode' = "collecting" <=>
              Cardinality({i \in 1..WindowSize : ~history'[i]}) * RateInverse > WindowSize)]_vars
  BY <1>1
<1> QED BY <1>2, WindowSafe, PTL DEF Spec, CollectsOnBreachRate
-----------------------------------------------------------------------------
(* Type correctness: the window's, the budget's and the rest.              *)
Rest ==
  /\ samplesRemaining \in (SamplesToCollect - Episode)..SamplesToCollect
  /\ taken \in 0..Episode
  /\ request \in [Requests -> Running \cup {"none"}]
  /\ last \in [sampled: BOOLEAN, queries: {"none", "buffered", "discarded", "in sample"}]

LEMMA NextRest ==
  ASSUME Budget, Rest, [Next]_vars
  PROVE  Rest'
<1>1. /\ SamplesToCollect \in Nat /\ Episode \in Nat /\ Episode > 0
      /\ SamplesToCollect - Episode <= 0
  BY SlaAssumption DEF Episode
<1>2. ASSUME NEW r \in Requests, NEW breached, NEW sampled \in BOOLEAN,
             NEW queries \in {"buffered", "discarded", "in sample"},
             Complete(r, breached, sampled, Queries(r, queries))
      PROVE  /\ request' \in [Requests -> Running \cup {"none"}]
             /\ last' \in [sampled: BOOLEAN, queries: {"none", "buffered", "discarded", "in sample"}]
  BY <1>2 DEF Rest, Complete, Queries
<1>3. ASSUME NEW r \in Requests, NEW traced \in BOOLEAN, Start(r, traced)
      PROVE  Rest'
  BY <1>3 DEF Start, Rest, Running, Episode
<1>4. ASSUME NEW r \in Requests, NEW breached \in BOOLEAN, Monitor(r, breached)
      PROVE  Rest'
  <2>1. /\ samplesRemaining' \in (SamplesToCollect - Episode)..SamplesToCollect
        /\ taken' \in 0..Episode
    <3>1. CASE OverRate(window')
      <4>1. samplesRemaining' = SamplesToCollect /\ taken' = 0
        BY <1>4, <3>1 DEF Monitor
      <4> QED BY <1>1, <4>1
    <3>2. CASE ~OverRate(window')
      <4>1. samplesRemaining' = samplesRemaining /\ taken' = taken
        BY <1>4, <3>2 DEF Monitor
      <4> QED BY <4>1 DEF Rest
    <3> QED BY <3>1, <3>2
  <2> QED BY <1>2, <1>4, <2>1 DEF Monitor, Rest, Episode
<1>5. ASSUME NEW r \in Requests, Discard(r)
      PROVE  Rest'
  BY <1>2, <1>5 DEF Discard, Rest, Episode
<1>6. ASSUME NEW r \in Requests, Sample(r)
      PROVE  Rest'
  <2>1. /\ taken \in 0..(Episode - 1) /\ samplesRemaining = SamplesToCollect - taken
        /\ samplesRemaining' = samplesRemaining - 1 /\ taken' = taken + 1
    BY <1>6 DEF Sample, Budget
  <2>2. /\ samplesRemaining' \in (SamplesToCollect - Episode)..SamplesToCollect
        /\ taken' \in 0..Episode
    BY <1>1, <2>1
  <2> QED BY <1>2, <1>6, <2>2 DEF Sample, Rest, Episode
<1>7. CASE UNCHANGED vars
  BY <1>7 DEF vars, Rest, Episode
<1> QED BY <1>3, <1>4, <1>5, <1>6, <1>7 DEF Next

(* Every variable keeps its type; the counter of samples goes below zero   *)
(* only for a sample that nobody asked for.                                *)
THEOREM TypeCorrect == Spec => []TypeOK
<1>1. Init => Budget /\ Rest
  BY SlaAssumption DEF Init, Budget, Rest, Episode, NoRequest
<1>2. Budget /\ Rest /\ [Next]_vars => (Budget /\ Rest)'
  BY NextBudget, NextRest
<1>3. WindowOK /\ Budget /\ Rest => TypeOK
  BY DEF WindowOK, Budget, Rest, TypeOK
<1> QED BY <1>1, <1>2, <1>3, WindowSafe, PTL DEF Spec
=============================================================================
