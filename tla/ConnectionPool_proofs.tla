------------------------ MODULE ConnectionPool_proofs ------------------------
(***************************************************************************)
(* What holds of the pool for any writers, reads and size: the queue is    *)
(* exact and no connection is handed out twice.  That every request ends   *)
(* depends on the size, and is checked by TLC.                             *)
(***************************************************************************)
EXTENDS ConnectionPool, FiniteSetTheorems, TLAPS

Phases == {"idle", "begin", "open", "wait", "reading"}

Types == /\ phase \in [Writers -> Phases]
         /\ reads \in [Writers -> 0..MaxReads]
         /\ queue \in Seq(Writers)

(* The queue lists the waiting requests, each once.                        *)
Queued == /\ \A w \in Writers : phase[w] \in Waiting <=> \E i \in 1..Len(queue) : queue[i] = w
          /\ \A i, j \in 1..Len(queue) : queue[i] = queue[j] => i = j
          /\ Len(queue) = Cardinality(In(Waiting))

(* A read is under way only when one was left.                             *)
ReadsLeft == \A w \in Writers : phase[w] \in {"wait", "reading"} => reads[w] < MaxReads

Capacity == InUse <= PoolSize

IInv == Types /\ Queued /\ ReadsLeft /\ Capacity

-----------------------------------------------------------------------------
(* The writers in some phases are finitely many.                           *)
LEMMA CountIsNat ==
  ASSUME NEW ps
  PROVE  IsFiniteSet(In(ps)) /\ Cardinality(In(ps)) \in Nat
<1>1. In(ps) \subseteq Writers
  BY DEF In
<1> QED BY <1>1, PoolAssumption, FS_Subset, FS_CardinalityType

(* One writer's change of phase, seen by the set of those in some phases.  *)
Moved(w, p) == phase' = [phase EXCEPT ![w] = p]

LEMMA MoveWithin ==
  ASSUME Types, NEW w \in Writers, NEW p \in Phases, Moved(w, p), NEW ps,
         phase[w] \in ps <=> p \in ps
  PROVE  In(ps)' = In(ps)
BY DEF Types, Moved, In

LEMMA MoveInto ==
  ASSUME Types, NEW w \in Writers, NEW p \in Phases, Moved(w, p), NEW ps,
         phase[w] \notin ps, p \in ps
  PROVE  In(ps)' = In(ps) \cup {w} /\ Cardinality(In(ps)') = Cardinality(In(ps)) + 1
<1>1. In(ps)' = In(ps) \cup {w} /\ w \notin In(ps)
  BY DEF Types, Moved, In
<1> QED BY <1>1, CountIsNat, FS_AddElement

LEMMA MoveOutOf ==
  ASSUME Types, NEW w \in Writers, NEW p \in Phases, Moved(w, p), NEW ps,
         phase[w] \in ps, p \notin ps
  PROVE  In(ps)' = In(ps) \ {w} /\ Cardinality(In(ps)') = Cardinality(In(ps)) - 1
<1>1. In(ps)' = In(ps) \ {w} /\ w \in In(ps)
  BY DEF Types, Moved, In
<1> QED BY <1>1, CountIsNat, FS_RemoveElement

LEMMA InUseType == InUse \in Nat
BY CountIsNat DEF InUse
-----------------------------------------------------------------------------
(* A request that joins the queue was not in it.                           *)
LEMMA EnqueueKeeps ==
  ASSUME Types, Queued, NEW w \in Writers, NEW p \in Waiting,
         phase[w] \notin Waiting, Enqueue(w, p)
  PROVE  Queued'
<1>1. p \in Phases /\ Moved(w, p) /\ queue' = Append(queue, w)
  BY DEF Waiting, Phases, Moved, Enqueue
<1>2. /\ Len(queue') = Len(queue) + 1
      /\ queue'[Len(queue) + 1] = w
      /\ \A i \in 1..Len(queue) : queue'[i] = queue[i]
      /\ Len(queue) \in Nat
  BY <1>1 DEF Types
<1>3. \A i \in 1..Len(queue) : queue[i] # w
  BY DEF Queued
<1>4. \A v \in Writers : phase'[v] = IF v = w THEN p ELSE phase[v]
  BY <1>1 DEF Moved, Types
<1>5. ASSUME NEW v \in Writers
      PROVE  phase'[v] \in Waiting <=> \E i \in 1..Len(queue') : queue'[i] = v
  <2>1. CASE v = w
    BY <1>2, <1>4, <2>1
  <2>2. CASE v # w
    <3>1. phase[v] \in Waiting <=> \E i \in 1..Len(queue) : queue[i] = v
      BY DEF Queued
    <3>2. (\E i \in 1..Len(queue) : queue[i] = v) <=> \E i \in 1..Len(queue') : queue'[i] = v
      BY <1>2, <2>2
    <3> QED BY <1>4, <2>2, <3>1, <3>2
  <2> QED BY <2>1, <2>2
<1>6. ASSUME NEW i \in 1..Len(queue'), NEW j \in 1..Len(queue'), queue'[i] = queue'[j]
      PROVE  i = j
  BY <1>2, <1>3, <1>6 DEF Queued
<1>7. Len(queue') = Cardinality(In(Waiting)')
  <2>1. Cardinality(In(Waiting)') = Cardinality(In(Waiting)) + 1
    BY <1>1, MoveInto
  <2> QED BY <1>2, <2>1 DEF Queued
<1> QED BY <1>5, <1>6, <1>7 DEF Queued

(* Serving the head leaves the others queued in their order.               *)
LEMMA ServeKeeps ==
  ASSUME Types, Queued, queue # <<>>, NEW p \in Phases, p \notin Waiting,
         Moved(Head(queue), p), queue' = Tail(queue)
  PROVE  Queued'
<1>1. PICK h \in Writers : h = Head(queue) /\ h = queue[1]
  BY DEF Types
<1>2. /\ Len(queue) \in Nat \ {0}
      /\ Len(queue') = Len(queue) - 1
      /\ \A i \in 1..Len(queue') : queue'[i] = queue[i + 1]
  BY DEF Types
<1>3. \A v \in Writers : phase'[v] = IF v = h THEN p ELSE phase[v]
  BY <1>1 DEF Moved, Types
<1>4. \A i \in 1..Len(queue') : queue'[i] # h
  BY <1>1, <1>2 DEF Queued
<1>5. ASSUME NEW v \in Writers
      PROVE  phase'[v] \in Waiting <=> \E i \in 1..Len(queue') : queue'[i] = v
  <2>1. CASE v = h
    BY <1>3, <1>4, <2>1
  <2>2. CASE v # h
    <3>1. phase[v] \in Waiting <=> \E i \in 1..Len(queue) : queue[i] = v
      BY DEF Queued
    <3>2. ASSUME NEW i \in 1..Len(queue), queue[i] = v
          PROVE  i - 1 \in 1..Len(queue') /\ queue'[i - 1] = v
      <4>1. i # 1
        BY <1>1, <2>2, <3>2
      <4>2. i - 1 \in 1..Len(queue') /\ (i - 1) + 1 = i
        BY <1>2, <4>1
      <4> QED BY <1>2, <3>2, <4>2
    <3>3. ASSUME NEW i \in 1..Len(queue'), queue'[i] = v
          PROVE  i + 1 \in 1..Len(queue) /\ queue[i + 1] = v
      BY <1>2, <3>3
    <3> QED BY <1>3, <2>2, <3>1, <3>2, <3>3
  <2> QED BY <2>1, <2>2
<1>6. ASSUME NEW i \in 1..Len(queue'), NEW j \in 1..Len(queue'), queue'[i] = queue'[j]
      PROVE  i = j
  <2>1. i + 1 \in 1..Len(queue) /\ j + 1 \in 1..Len(queue) /\ queue[i + 1] = queue[j + 1]
    BY <1>2, <1>6
  <2>2. i + 1 = j + 1
    BY <2>1 DEF Queued
  <2> QED BY <2>2
<1>7. Len(queue') = Cardinality(In(Waiting)')
  <2>1. 1 \in 1..Len(queue)
    BY <1>2
  <2>2. phase[h] \in Waiting
    BY <1>1, <2>1 DEF Queued
  <2>3. Cardinality(In(Waiting)') = Cardinality(In(Waiting)) - 1
    BY <1>1, <2>2, MoveOutOf
  <2> QED BY <1>2, <2>3 DEF Queued
<1> QED BY <1>5, <1>6, <1>7 DEF Queued
-----------------------------------------------------------------------------
LEMMA InitIInv == Init => IInv
<1> SUFFICES ASSUME Init PROVE IInv
  OBVIOUS
<1>1. Types
  BY PoolAssumption DEF Init, Types, Phases
<1>2. \A ps : "idle" \notin ps => In(ps) = {}
  BY DEF Init, In
<1>3. In(Waiting) = {} /\ In({"open", "wait", "reading"}) = {} /\ In({"reading"}) = {}
  BY <1>2 DEF Waiting
<1>4. Queued
  BY <1>3, FS_EmptySet DEF Init, Queued, Waiting
<1>5. Capacity
  BY <1>3, FS_EmptySet, PoolAssumption DEF Capacity, InUse
<1> QED BY <1>1, <1>4, <1>5 DEF Init, IInv, ReadsLeft

LEMMA NextIInv == IInv /\ [Next]_vars => IInv'
<1> SUFFICES ASSUME IInv, [Next]_vars PROVE IInv'
  OBVIOUS
<1>0. Types /\ Queued /\ ReadsLeft /\ Capacity /\ InUse \in Nat
  BY InUseType DEF IInv
<1>1. ASSUME NEW w \in Writers, Begin(w)
      PROVE  IInv'
  <2>1. Moved(w, "begin") /\ "begin" \in Waiting /\ phase[w] = "idle"
    BY <1>1 DEF Begin, Enqueue, Moved, Waiting
  <2>2. Queued'
    BY <1>0, <1>1, <2>1, EnqueueKeeps DEF Begin, Waiting
  <2>3. In({"open", "wait", "reading"})' = In({"open", "wait", "reading"})
    BY <1>0, <2>1, MoveWithin DEF Phases
  <2>4. In({"reading"})' = In({"reading"})
    BY <1>0, <2>1, MoveWithin DEF Phases
  <2>5. Capacity'
    BY <1>0, <2>3, <2>4 DEF Capacity, InUse
  <2>6. Types' /\ ReadsLeft'
    BY <1>0, <1>1, PoolAssumption DEF Begin, Enqueue, Types, Phases, ReadsLeft
  <2> QED BY <2>2, <2>5, <2>6 DEF IInv
<1>2. ASSUME NEW w \in Writers, Read(w)
      PROVE  IInv'
  <2>1. Moved(w, "wait") /\ "wait" \in Waiting /\ phase[w] = "open"
    BY <1>2 DEF Read, Enqueue, Moved, Waiting
  <2>2. Queued'
    BY <1>0, <1>2, <2>1, EnqueueKeeps DEF Read, Waiting
  <2>3. In({"open", "wait", "reading"})' = In({"open", "wait", "reading"})
    BY <1>0, <2>1, MoveWithin DEF Phases
  <2>4. In({"reading"})' = In({"reading"})
    BY <1>0, <2>1, MoveWithin DEF Phases
  <2>5. Capacity'
    BY <1>0, <2>3, <2>4 DEF Capacity, InUse
  <2>6. Types' /\ ReadsLeft'
    BY <1>0, <1>2 DEF Read, Enqueue, Types, Phases, ReadsLeft
  <2> QED BY <2>2, <2>5, <2>6 DEF IInv
<1>3. ASSUME NEW w \in Writers, ReadDone(w)
      PROVE  IInv'
  <2>1. Moved(w, "open") /\ phase[w] = "reading" /\ "open" \in Phases
    BY <1>3 DEF ReadDone, Moved, Phases
  <2>2. In(Waiting)' = In(Waiting)
    BY <1>0, <2>1, MoveWithin DEF Waiting
  <2>3. Types' /\ ReadsLeft' /\ queue' = queue
    <3>1. reads[w] \in Nat /\ reads[w] < MaxReads /\ MaxReads \in Nat
      BY <1>0, <2>1, PoolAssumption DEF Types, ReadsLeft
    <3>2. reads[w] + 1 \in 0..MaxReads
      BY <3>1
    <3> QED BY <1>0, <1>3, <3>2 DEF ReadDone, Types, Phases, ReadsLeft
  <2>4. \A v \in Writers : phase'[v] \in Waiting <=> phase[v] \in Waiting
    BY <1>0, <2>1 DEF Moved, Types, Waiting
  <2>5. Queued'
    BY <1>0, <2>2, <2>3, <2>4 DEF Queued
  <2>6. In({"open", "wait", "reading"})' = In({"open", "wait", "reading"})
    BY <1>0, <2>1, MoveWithin
  <2>7. Cardinality(In({"reading"})') = Cardinality(In({"reading"})) - 1
    BY <1>0, <2>1, MoveOutOf
  <2>8. Capacity'
    BY <1>0, <2>6, <2>7, CountIsNat, PoolAssumption DEF Capacity, InUse
  <2> QED BY <2>3, <2>5, <2>8 DEF IInv
<1>4. ASSUME NEW w \in Writers, End(w)
      PROVE  IInv'
  <2>1. Moved(w, "idle") /\ phase[w] = "open" /\ "idle" \in Phases
    BY <1>4 DEF End, Moved, Phases
  <2>2. In(Waiting)' = In(Waiting)
    BY <1>0, <2>1, MoveWithin DEF Waiting
  <2>3. Types' /\ ReadsLeft' /\ queue' = queue
    BY <1>0, <1>4 DEF End, Types, Phases, ReadsLeft
  <2>4. \A v \in Writers : phase'[v] \in Waiting <=> phase[v] \in Waiting
    BY <1>0, <2>1 DEF Moved, Types, Waiting
  <2>5. Queued'
    BY <1>0, <2>2, <2>3, <2>4 DEF Queued
  <2>6. In({"reading"})' = In({"reading"})
    BY <1>0, <2>1, MoveWithin
  <2>7. Cardinality(In({"open", "wait", "reading"})')
          = Cardinality(In({"open", "wait", "reading"})) - 1
    BY <1>0, <2>1, MoveOutOf
  <2>8. Capacity'
    BY <1>0, <2>6, <2>7, CountIsNat, PoolAssumption DEF Capacity, InUse
  <2> QED BY <2>3, <2>5, <2>8 DEF IInv
<1>5. ASSUME Grant
      PROVE  IInv'
  <2>1. PICK h \in Writers : h = Head(queue) /\ h = queue[1]
    BY <1>0, <1>5 DEF Grant, Types
  <2>2. 1 \in 1..Len(queue)
    BY <1>0, <1>5 DEF Grant, Types
  <2>3. phase[h] \in Waiting
    BY <1>0, <2>1, <2>2 DEF Queued
  <2>4. InUse + 1 <= PoolSize
    BY <1>0, <1>5, PoolAssumption DEF Grant
  <2>5. Types' /\ ReadsLeft'
    <3>1. queue' \in Seq(Writers) /\ reads' = reads
      BY <1>0, <1>5 DEF Grant, Types
    <3> QED BY <1>0, <1>5, <2>1, <2>3, <3>1 DEF Grant, Types, Phases, ReadsLeft, Waiting
  <2>6. CASE phase[h] = "begin"
    <3>1. Moved(h, "open") /\ queue' = Tail(queue) /\ queue # <<>>
      BY <1>5, <2>1, <2>6 DEF Grant, Moved
    <3>2. Queued'
      BY <1>0, <2>1, <3>1, ServeKeeps DEF Waiting, Phases
    <3>3. In({"reading"})' = In({"reading"})
      BY <1>0, <2>6, <3>1, MoveWithin DEF Phases
    <3>4. Cardinality(In({"open", "wait", "reading"})')
            = Cardinality(In({"open", "wait", "reading"})) + 1
      BY <1>0, <2>6, <3>1, MoveInto DEF Phases
    <3>5. Capacity'
      BY <2>4, <3>3, <3>4, CountIsNat, PoolAssumption DEF Capacity, InUse
    <3> QED BY <2>5, <3>2, <3>5 DEF IInv
  <2>7. CASE phase[h] = "wait"
    <3>1. Moved(h, "reading") /\ queue' = Tail(queue) /\ queue # <<>>
      BY <1>5, <2>1, <2>7 DEF Grant, Moved
    <3>2. Queued'
      BY <1>0, <2>1, <3>1, ServeKeeps DEF Waiting, Phases
    <3>3. In({"open", "wait", "reading"})' = In({"open", "wait", "reading"})
      BY <1>0, <2>7, <3>1, MoveWithin DEF Phases
    <3>4. Cardinality(In({"reading"})') = Cardinality(In({"reading"})) + 1
      BY <1>0, <2>7, <3>1, MoveInto DEF Phases
    <3>5. Capacity'
      BY <2>4, <3>3, <3>4, CountIsNat, PoolAssumption DEF Capacity, InUse
    <3> QED BY <2>5, <3>2, <3>5 DEF IInv
  <2> QED BY <2>3, <2>6, <2>7 DEF Waiting
<1>6. CASE UNCHANGED vars
  BY <1>0, <1>6 DEF vars, IInv, Types, Queued, ReadsLeft, Capacity, InUse, In
<1> QED BY <1>1, <1>2, <1>3, <1>4, <1>5, <1>6 DEF Next

LEMMA PoolSafe == FairSpec => []IInv
BY InitIInv, NextIInv, PTL DEF FairSpec

(* Never are more connections out than the pool has.                       *)
THEOREM NeverOversold == FairSpec => []TypeOK
<1>1. IInv => TypeOK
  BY DEF IInv, Types, Capacity, InUse, TypeOK, Phases
<1> QED BY <1>1, PoolSafe, PTL

(* Whoever waits is queued, once; whoever is queued waits.                 *)
THEOREM QueueCorrect == FairSpec => []QueueExact
<1>1. IInv => QueueExact
  <2> SUFFICES ASSUME IInv PROVE QueueExact
    OBVIOUS
  <2>1. DOMAIN queue = 1..Len(queue) /\ \A i \in 1..Len(queue) : queue[i] \in Writers
    BY DEF IInv, Types
  <2> QED BY <2>1 DEF IInv, Queued, QueueExact, In
<1> QED BY <1>1, PoolSafe, PTL
=============================================================================
