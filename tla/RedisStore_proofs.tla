-------------------------- MODULE RedisStore_proofs --------------------------
(***************************************************************************)
(* Proofs about RedisStore, for any clients, keys, tags and writes, with   *)
(* or without failing commands: the types, that what a flush removed stays *)
(* gone, and that calls which do not overlap find the in-memory store.     *)
(***************************************************************************)
EXTENDS RedisStore, TLAPS

Calls(last, returned) ==
  [step: {"idle", "tag", "members", "delete", "untag", "load"},
   key: Keys \cup Tags \cup {None}, tags: SUBSET Tags,
   write: 0..last, found: SUBSET Keys, doomed: SUBSET returned]

(* What the types rest on: a call that stores has a key, a tagged set is   *)
(* about the write it made, which only its key can hold, and a flush works *)
(* on one of the tags it has still to do.                                  *)
Formed(p) ==
  /\ p.step \in {"tag", "load"} => p.key \in Keys
  /\ p.step = "tag" => /\ p.write \in 1..writes /\ p.tags \subseteq labels[p.write]
                       /\ \A k \in Keys : kv[k] = p.write => k = p.key
  /\ p.step \in {"delete", "untag"} => p.key \in p.tags

AllFormed == \A c \in Clients : Formed(op[c])

LEMMA IdleFormed ==
  ASSUME NEW last \in Nat, NEW returned
  PROVE  Idle \in Calls(last, returned) /\ Formed(Idle)
BY DEF Idle, Calls, Formed

LEMMA CallsGrow ==
  ASSUME NEW last \in Nat, NEW more \in Nat, last <= more,
         NEW returned, NEW others, returned \subseteq others
  PROVE  Calls(last, returned) \subseteq Calls(more, others)
<1>1. 0..last \subseteq 0..more /\ SUBSET returned \subseteq SUBSET others
  OBVIOUS
<1> QED BY <1>1 DEF Calls

LEMMA UpdateTyped ==
  ASSUME NEW S, NEW T, NEW f \in [Clients -> S], S \subseteq T, NEW c \in Clients, NEW x \in T
  PROVE  [f EXCEPT ![c] = x] \in [Clients -> T]
OBVIOUS

(* The progress of one call: the others stay well formed, because a later  *)
(* write is no write of theirs.                                            *)
LEMMA ProgressTyped ==
  ASSUME TypeOK, AllFormed, NEW c \in Clients, NEW p, op' = [op EXCEPT ![c] = p],
         p \in Calls(writes', done'), Formed(p)',
         kv' \in [Keys -> (1..writes') \cup {None}], sets' \in SUBSET (Tags \X Keys),
         writes' \in writes..MaxWrites, labels' \in [Writes -> SUBSET Tags],
         done' \in SUBSET (1..writes'), disturbed' \in SUBSET (1..writes'),
         flushed' \in SUBSET done', alone' \in BOOLEAN, done \subseteq done',
         \A w \in 1..writes : labels'[w] = labels[w],
         \A k \in Keys : kv'[k] \in {kv[k], None} \cup ((writes + 1)..writes')
  PROVE  TypeOK' /\ AllFormed'
<1>1. writes \in Nat /\ writes' \in Nat /\ writes <= writes' /\ writes' \in 0..MaxWrites
  BY RedisAssumption DEF TypeOK
<1>2. op \in [Clients -> Calls(writes, done)]
  BY DEF TypeOK, Calls
<1>3. Calls(writes, done) \subseteq Calls(writes', done')
  BY <1>1, CallsGrow
<1>4. op' \in [Clients -> Calls(writes', done')]
  BY <1>2, <1>3, UpdateTyped
<1>5. TypeOK'
  BY <1>1, <1>4 DEF TypeOK, Calls
<1>6. ASSUME NEW d \in Clients
      PROVE  Formed(op[d])'
  <2>1. CASE d = c
    BY <2>1, <1>2
  <2>2. CASE d # c
    <3>1. op'[d] = op[d] /\ Formed(op[d])
      BY <2>2, <1>2 DEF AllFormed
    <3>2. op[d].step = "tag" =>
            /\ op[d].write \in 1..writes' /\ op[d].tags \subseteq labels'[op[d].write]
            /\ \A k \in Keys : kv'[k] = op[d].write => k = op[d].key
      <4>1. \A n \in (writes + 1)..writes' : n \notin 1..writes
        BY <1>1
      <4>2. None \notin 1..writes /\ 1..writes \subseteq 1..writes'
        BY <1>1, RedisAssumption
      <4> QED BY <3>1, <4>1, <4>2 DEF Formed
    <3> QED BY <3>1, <3>2 DEF Formed
  <2> QED BY <2>1, <2>2
<1> QED BY <1>5, <1>6 DEF AllFormed

(* Steps that make no write and end no set, and what they leave of the     *)
(* entries.                                                                *)
LEMMA QuietTyped ==
  ASSUME TypeOK, AllFormed, NEW c \in Clients, NEW p, op' = [op EXCEPT ![c] = p],
         p \in Calls(writes, done), Formed(p)', UNCHANGED <<writes, labels, done>>,
         \A k \in Keys : kv'[k] \in {kv[k], None}, kv' \in [Keys -> (1..writes) \cup {None}],
         sets' \in SUBSET (Tags \X Keys), disturbed' \in SUBSET (1..writes),
         flushed' \in SUBSET done, alone' \in BOOLEAN
  PROVE  TypeOK' /\ AllFormed'
<1>1. writes' \in writes..MaxWrites
  BY RedisAssumption DEF TypeOK
<1> QED BY <1>1, ProgressTyped DEF TypeOK

(* A write draws the next number.                                          *)
LEMMA PutTyped ==
  ASSUME TypeOK, NEW k \in Keys, NEW tags \in SUBSET Tags, Put(k, tags)
  PROVE  /\ kv' \in [Keys -> (1..writes') \cup {None}] /\ writes' = writes + 1
         /\ writes' \in writes..MaxWrites /\ writes' \in 1..writes' /\ writes' \in Writes
         /\ labels' \in [Writes -> SUBSET Tags] /\ labels'[writes'] = tags
         /\ \A w \in 1..writes : labels'[w] = labels[w] /\ w # writes'
         /\ disturbed' \in SUBSET (1..writes') /\ disturbed \subseteq disturbed'
         /\ kv'[k] = writes' /\ \A x \in Keys \ {k} : kv'[x] = kv[x]
         /\ 1..writes \subseteq 1..writes'
<1>1. /\ writes \in Nat /\ writes < MaxWrites /\ writes' = writes + 1 /\ MaxWrites \in Nat
      /\ kv' = [kv EXCEPT ![k] = writes + 1] /\ labels' = [labels EXCEPT ![writes + 1] = tags]
      /\ kv \in [Keys -> (1..writes) \cup {None}] /\ labels \in [Writes -> SUBSET Tags]
      /\ disturbed \in SUBSET (1..writes)
  BY RedisAssumption DEF Put, TypeOK
<1>2. writes' \in writes..MaxWrites /\ writes' \in 1..writes' /\ writes' \in 1..MaxWrites
  BY <1>1
<1>3. 1..writes \subseteq 1..writes' /\ \A w \in 1..writes : w # writes'
  BY <1>1
<1>4. kv' \in [Keys -> (1..writes') \cup {None}]
  BY <1>1, <1>2, <1>3
<1>5. disturbed' \in {disturbed, disturbed \cup {writes'}}
  BY <1>1 DEF Put
<1> QED BY <1>1, <1>2, <1>3, <1>4, <1>5 DEF Writes

LEMMA SetTyped ==
  ASSUME TypeOK, AllFormed, alone' \in BOOLEAN, NEW c \in Clients, NEW k \in Keys,
         Put(k, {}), done' = done \cup {writes + 1}, UNCHANGED op \/ Return(c)
  PROVE  TypeOK' /\ AllFormed'
<1>1. PICK p \in {op[c], Idle} : op' = [op EXCEPT ![c] = p]
  BY DEF TypeOK, Return
<1>2. /\ done \in SUBSET (1..writes) /\ flushed \in SUBSET done /\ op[c] \in Calls(writes, done)
      /\ writes \in Nat /\ sets \in SUBSET (Tags \X Keys)
  BY RedisAssumption DEF TypeOK, Calls
<1>3. done' \in SUBSET (1..writes') /\ done \subseteq done' /\ flushed' \in SUBSET done'
  BY <1>2, PutTyped DEF Put
<1>4. Calls(writes, done) \subseteq Calls(writes', done')
  BY <1>2, <1>3, PutTyped DEF Calls
<1>5. p \in Calls(writes', done')
  BY <1>1, <1>2, <1>4, IdleFormed
<1>6. Formed(p)'
  <2>1. CASE p = Idle
    BY <2>1 DEF Formed, Idle
  <2>2. CASE p = op[c]
    BY <2>2, PutTyped DEF Formed, AllFormed
  <2> QED BY <1>1, <2>1, <2>2
<1>7. \A x \in Keys : kv'[x] \in {kv[x], None} \cup ((writes + 1)..writes')
  BY <1>2, PutTyped
<1>8. sets' \in SUBSET (Tags \X Keys)
  BY <1>2 DEF Put
<1> HIDE DEF Formed, Calls
<1> QED BY <1>1, <1>3, <1>5, <1>6, <1>7, <1>8, PutTyped, ProgressTyped

LEMMA TaggedSetTyped ==
  ASSUME TypeOK, AllFormed, alone' \in BOOLEAN, NEW c \in Clients, NEW k \in Keys,
         NEW tags \in SUBSET Tags, TaggedSet(c, k, tags)
  PROVE  TypeOK' /\ AllFormed'
<1>1. PICK p : /\ p = [Idle EXCEPT !.step = "tag", !.key = k, !.tags = tags,
                                   !.write = writes + 1]
               /\ op' = [op EXCEPT ![c] = p]
  BY DEF TaggedSet
<1>2. Put(k, tags) /\ done' = done
  BY DEF TaggedSet
<1>3. /\ done \in SUBSET (1..writes) /\ flushed \in SUBSET done /\ writes \in Nat
      /\ sets \in SUBSET (Tags \X Keys) /\ kv \in [Keys -> (1..writes) \cup {None}]
  BY RedisAssumption DEF TypeOK
<1>4. writes' = writes + 1 /\ writes' \in 1..writes' /\ writes' \in Nat
  BY <1>2, <1>3, PutTyped
<1>5. /\ p.step = "tag" /\ p.key = k /\ p.tags = tags /\ p.write = writes'
      /\ p \in Calls(writes', done')
  <2>1. Idle \in Calls(writes', done')
    BY <1>4, IdleFormed
  <2>2. PICK q : q = [Idle EXCEPT !.step = "tag", !.key = k]
    OBVIOUS
  <2>3. q \in Calls(writes', done') /\ q.step = "tag" /\ q.key = k
    BY <2>1, <2>2 DEF Calls
  <2>4. p = [q EXCEPT !.tags = tags, !.write = writes']
    BY <1>1, <1>4, <2>2
  <2>5. writes' \in 0..writes'
    BY <1>4
  <2> QED BY <2>3, <2>4, <2>5 DEF Calls
<1>6. Formed(p)'
  <2>1. \A x \in Keys : kv'[x] = writes' => x = k
    BY <1>2, <1>3, PutTyped, RedisAssumption
  <2>2. tags \subseteq labels'[writes']
    BY <1>2, PutTyped
  <2> QED BY <1>4, <1>5, <2>1, <2>2 DEF Formed
<1>7. \A x \in Keys : kv'[x] \in {kv[x], None} \cup ((writes + 1)..writes')
  BY <1>2, <1>3, PutTyped
<1>8. done' \in SUBSET (1..writes') /\ flushed' \in SUBSET done' /\ sets' \in SUBSET (Tags \X Keys)
  BY <1>2, <1>3, PutTyped DEF Put
<1>9. /\ kv' \in [Keys -> (1..writes') \cup {None}] /\ writes' \in writes..MaxWrites
      /\ labels' \in [Writes -> SUBSET Tags] /\ disturbed' \in SUBSET (1..writes')
      /\ \A w \in 1..writes : labels'[w] = labels[w]
  BY <1>2, PutTyped
<1> QED BY <1>1, <1>2, <1>5, <1>6, <1>7, <1>8, <1>9, ProgressTyped

LEMMA AddTagTyped ==
  ASSUME TypeOK, AllFormed, alone' \in BOOLEAN, NEW c \in Clients, NEW t \in Tags, AddTag(c, t)
  PROVE  TypeOK' /\ AllFormed'
<1>1. /\ op[c].step = "tag" /\ Formed(op[c]) /\ op[c] \in Calls(writes, done)
      /\ sets' = sets \cup {<<t, op[c].key>>} /\ UNCHANGED <<kv, writes, labels, disturbed, flushed>>
      /\ writes \in Nat
  BY RedisAssumption DEF AddTag, AllFormed, TypeOK, Calls
<1>2. op[c].key \in Keys /\ op[c].write \in 1..writes
  BY <1>1 DEF Formed
<1> DEFINE q == [op[c] EXCEPT !.tags = @ \ {t}]
<1>3. PICK p : /\ op' = [op EXCEPT ![c] = p]
               /\ \/ p = Idle /\ done' = done \cup {op[c].write}
                  \/ p = q /\ done' = done
  BY DEF AddTag, Return, TypeOK
<1>4. /\ done \subseteq done' /\ done' \in SUBSET (1..writes) /\ flushed' \in SUBSET done'
      /\ sets' \in SUBSET (Tags \X Keys)
  BY <1>1, <1>2, <1>3 DEF TypeOK
<1>5. Calls(writes, done) \subseteq Calls(writes', done')
  BY <1>1, <1>4 DEF Calls
<1>6. /\ q.step = "tag" /\ q.key = op[c].key /\ q.tags = op[c].tags \ {t}
      /\ q.write = op[c].write /\ q \in Calls(writes, done)
  BY <1>1 DEF Calls
<1> HIDE DEF q
<1>7. p \in Calls(writes', done')
  BY <1>1, <1>3, <1>5, <1>6, IdleFormed
<1>8. Formed(p)'
  BY <1>1, <1>3, <1>6 DEF Formed, Idle
<1>9. writes' \in writes..MaxWrites
  BY <1>1, RedisAssumption DEF TypeOK
<1> QED BY <1>1, <1>3, <1>4, <1>7, <1>8, <1>9, ProgressTyped DEF TypeOK

LEMMA StartFlushTyped ==
  ASSUME TypeOK, AllFormed, alone' \in BOOLEAN, NEW c \in Clients, NEW tags \in SUBSET Tags,
         StartFlush(c, tags)
  PROVE  TypeOK' /\ AllFormed'
<1>1. PICK doomed : doomed = {w \in done : labels[w] \cap tags # {}}
  OBVIOUS
<1>2. PICK p : /\ p = [Idle EXCEPT !.step = "members", !.tags = tags, !.doomed = doomed]
               /\ op' = [op EXCEPT ![c] = p]
  BY <1>1 DEF StartFlush
<1>3. Adding(tags) \subseteq 1..writes
  BY DEF Adding, AllFormed, Formed
<1>4. doomed \subseteq done /\ writes \in Nat
  BY <1>1, RedisAssumption DEF TypeOK
<1>5. p \in Calls(writes, done) /\ p.step = "members"
  BY <1>2, <1>4, IdleFormed DEF Calls
<1>6. Formed(p)'
  BY <1>5 DEF Formed
<1>7. /\ UNCHANGED <<kv, sets, writes, labels, done, flushed>>
      /\ disturbed' \in SUBSET (1..writes)
  BY <1>3 DEF StartFlush, TypeOK
<1> QED BY <1>2, <1>5, <1>6, <1>7, QuietTyped DEF TypeOK

LEMMA ReadMembersTyped ==
  ASSUME TypeOK, AllFormed, alone' \in BOOLEAN, NEW c \in Clients, NEW t \in Tags,
         ReadMembers(c, t)
  PROVE  TypeOK' /\ AllFormed'
<1>1. PICK step : step = IF Members(t) = {} THEN "untag" ELSE "delete"
  OBVIOUS
<1>2. PICK p : /\ p = [op[c] EXCEPT !.step = step, !.key = t, !.found = Members(t)]
               /\ op' = [op EXCEPT ![c] = p]
  BY <1>1 DEF ReadMembers, TypeOK
<1>3. /\ t \in op[c].tags
      /\ UNCHANGED <<kv, sets, writes, labels, done, disturbed, flushed>>
  BY DEF ReadMembers
<1>4. step \in {"untag", "delete"} /\ Members(t) \subseteq Keys /\ op[c] \in Calls(writes, done)
  BY <1>1 DEF Members, TypeOK, Calls
<1>5. p \in Calls(writes, done) /\ p.step = step /\ p.key = t /\ p.tags = op[c].tags
  BY <1>2, <1>4 DEF Calls
<1>6. Formed(p)'
  BY <1>3, <1>4, <1>5 DEF Formed
<1> QED BY <1>2, <1>3, <1>5, <1>6, QuietTyped DEF TypeOK

LEMMA WithoutTyped ==
  ASSUME TypeOK, NEW keys
  PROVE  /\ Without(keys) \in [Keys -> (1..writes) \cup {None}]
         /\ \A k \in Keys : Without(keys)[k] = IF k \in keys THEN None ELSE kv[k]
BY DEF Without, TypeOK

LEMMA DeleteFoundTyped ==
  ASSUME TypeOK, AllFormed, alone' \in BOOLEAN, NEW c \in Clients, DeleteFound(c)
  PROVE  TypeOK' /\ AllFormed'
<1>1. PICK p : /\ p = [op[c] EXCEPT !.step = "untag", !.found = {}]
               /\ op' = [op EXCEPT ![c] = p]
  BY DEF DeleteFound, TypeOK
<1>2. /\ op[c].step = "delete" /\ kv' = Without(op[c].found)
      /\ UNCHANGED <<sets, writes, labels, done, disturbed, flushed>>
  BY DEF DeleteFound
<1>3. op[c] \in Calls(writes, done)
  BY DEF TypeOK, Calls
<1>4. /\ p \in Calls(writes, done) /\ p.step = "untag" /\ p.key = op[c].key
      /\ p.tags = op[c].tags
  BY <1>1, <1>3 DEF Calls
<1>5. Formed(p)'
  BY <1>2, <1>4 DEF Formed, AllFormed
<1>6. kv' \in [Keys -> (1..writes) \cup {None}] /\ \A k \in Keys : kv'[k] \in {kv[k], None}
  BY <1>2, WithoutTyped
<1> QED BY <1>1, <1>2, <1>4, <1>5, <1>6, QuietTyped DEF TypeOK

LEMMA DeleteTagTyped ==
  ASSUME TypeOK, AllFormed, alone' \in BOOLEAN, NEW c \in Clients, DeleteTag(c)
  PROVE  TypeOK' /\ AllFormed'
<1> DEFINE q == [op[c] EXCEPT !.step = "members", !.key = None, !.tags = @ \ {op[c].key}]
<1>1. /\ sets' = Untagged(op[c].key) /\ UNCHANGED <<kv, writes, labels, done, disturbed>>
  BY DEF DeleteTag
<1>2. op[c] \in Calls(writes, done) /\ writes \in Nat
  BY RedisAssumption DEF TypeOK, Calls
<1>3. PICK p : /\ op' = [op EXCEPT ![c] = p]
               /\ \/ p = Idle /\ flushed' = flushed \cup op[c].doomed
                  \/ p = q /\ flushed' = flushed
  BY DEF DeleteTag, Return, TypeOK
<1>4. q \in Calls(writes, done) /\ q.step = "members"
  BY <1>2 DEF Calls
<1> HIDE DEF q
<1>5. p \in Calls(writes, done) /\ Formed(p)'
  BY <1>2, <1>3, <1>4, IdleFormed DEF Formed, Idle
<1>6. flushed' \in SUBSET done /\ sets' \in SUBSET (Tags \X Keys)
  BY <1>1, <1>2, <1>3 DEF TypeOK, Calls, Untagged
<1> QED BY <1>1, <1>3, <1>5, <1>6, QuietTyped DEF TypeOK

(* Steps that end, begin or skip a call and only remove entries.           *)
LEMMA ReturnTyped ==
  ASSUME TypeOK, AllFormed, alone' \in BOOLEAN, NEW c \in Clients,
         UNCHANGED op \/ Return(c), UNCHANGED <<writes, labels, done, disturbed>>,
         NEW keys, kv' = kv \/ kv' = Without(keys), sets' \in {sets, {}},
         flushed' \in {flushed, flushed \cup done}
  PROVE  TypeOK' /\ AllFormed'
<1>1. PICK p \in {op[c], Idle} : op' = [op EXCEPT ![c] = p]
  BY DEF TypeOK, Return
<1>2. op[c] \in Calls(writes, done) /\ writes \in Nat
  BY RedisAssumption DEF TypeOK, Calls
<1>3. \A k \in Keys : kv'[k] \in {kv[k], None}
  BY WithoutTyped
<1>4. kv' \in [Keys -> (1..writes) \cup {None}]
  BY WithoutTyped DEF TypeOK
<1>5. p \in Calls(writes, done)
  BY <1>1, <1>2, IdleFormed
<1>6. Formed(p)'
  <2>1. CASE p = Idle
    BY <2>1 DEF Formed, Idle
  <2>2. CASE p = op[c]
    <3>1. None \notin 1..writes
      BY <1>2, RedisAssumption
    <3> QED BY <2>2, <3>1, <1>3 DEF Formed, AllFormed
  <2> QED BY <1>1, <2>1, <2>2
<1> QED BY <1>1, <1>3, <1>4, <1>5, <1>6, QuietTyped DEF TypeOK

LEMMA RememberMissTyped ==
  ASSUME TypeOK, AllFormed, alone' \in BOOLEAN, NEW c \in Clients, NEW k \in Keys,
         RememberMiss(c, k)
  PROVE  TypeOK' /\ AllFormed'
<1>1. PICK p : p = [Idle EXCEPT !.step = "load", !.key = k] /\ op' = [op EXCEPT ![c] = p]
  BY DEF RememberMiss
<1>2. UNCHANGED <<kv, sets, writes, labels, done, disturbed, flushed>>
  BY DEF RememberMiss
<1>3. writes \in Nat
  BY RedisAssumption DEF TypeOK
<1>4. p \in Calls(writes, done) /\ p.step = "load" /\ p.key = k
  BY <1>1, <1>3, IdleFormed DEF Calls
<1>5. Formed(p)'
  BY <1>4 DEF Formed
<1> QED BY <1>1, <1>2, <1>4, <1>5, QuietTyped DEF TypeOK

LEMMA CallTyped ==
  ASSUME TypeOK, AllFormed, alone' \in BOOLEAN, NEW c \in Clients, Call(c) \/ CommandFails(c)
  PROVE  TypeOK' /\ AllFormed'
<1>1. ASSUME NEW k \in Keys, Set(c, k)
      PROVE  TypeOK' /\ AllFormed'
  BY <1>1, SetTyped DEF Set
<1>2. CASE RememberStore(c)
  <2>1. op[c].key \in Keys
    BY <1>2 DEF RememberStore, AllFormed, Formed
  <2> QED BY <1>2, <2>1, SetTyped DEF RememberStore
<1>3. ASSUME NEW k \in Keys, Forget(c, k)
      PROVE  TypeOK' /\ AllFormed'
  BY <1>3, ReturnTyped DEF Forget
<1>4. CASE Flush(c)
  BY <1>4, ReturnTyped DEF Flush
<1>5. CASE RememberFails(c) \/ CommandFails(c)
  BY <1>5, ReturnTyped DEF RememberFails, CommandFails
<1> QED BY <1>1, <1>2, <1>3, <1>4, <1>5, TaggedSetTyped, AddTagTyped, StartFlushTyped,
           ReadMembersTyped, DeleteFoundTyped, DeleteTagTyped, RememberMissTyped DEF Call

LEMMA ExpireTyped ==
  ASSUME TypeOK, AllFormed, NEW k \in Keys, Expire(k), alone' = alone
  PROVE  TypeOK' /\ AllFormed'
<1>1. kv' \in [Keys -> (1..writes) \cup {None}] /\ \A x \in Keys : kv'[x] \in {kv[x], None}
  BY WithoutTyped DEF Expire
<1>2. UNCHANGED <<sets, op, writes, labels, done, disturbed, flushed>>
  BY DEF Expire
<1>3. None \notin 1..writes
  BY RedisAssumption DEF TypeOK
<1>4. AllFormed'
  BY <1>1, <1>2, <1>3 DEF AllFormed, Formed
<1> QED BY <1>1, <1>2, <1>4 DEF TypeOK

LEMMA NextTyped ==
  ASSUME TypeOK, AllFormed, [Next]_vars
  PROVE  TypeOK' /\ AllFormed'
<1>1. ASSUME NEW c \in Clients, Call(c), alone' = (alone /\ \A d \in Clients \ {c} : op[d] = Idle)
      PROVE  TypeOK' /\ AllFormed'
  BY <1>1, CallTyped
<1>2. ASSUME NEW c \in Clients, CommandFails(c), alone' = FALSE
      PROVE  TypeOK' /\ AllFormed'
  BY <1>2, CallTyped
<1>3. ASSUME NEW k \in Keys, Expire(k), alone' = alone
      PROVE  TypeOK' /\ AllFormed'
  BY <1>3, ExpireTyped
<1>4. CASE UNCHANGED vars
  BY <1>4 DEF vars, TypeOK, AllFormed, Formed
<1> QED BY <1>1, <1>2, <1>3, <1>4 DEF Next

LEMMA InitTyped ==
  ASSUME Init
  PROVE  TypeOK /\ AllFormed
<1>1. writes = 0 /\ 0 \in 0..MaxWrites /\ 0 \in Nat
  BY RedisAssumption DEF Init
<1>2. op \in [Clients -> Calls(writes, done)] /\ AllFormed
  BY <1>1, IdleFormed DEF Init, AllFormed
<1> QED BY <1>1, <1>2 DEF Init, TypeOK, Calls

LEMMA AlwaysFormed == Spec => [](TypeOK /\ AllFormed)
BY InitTyped, NextTyped, PTL DEF Spec

(* Tables and calls keep their types, for any number of clients, keys,     *)
(* tags and writes.                                                        *)
THEOREM TypeCorrect == Spec => []TypeOK
BY AlwaysFormed, PTL

-----------------------------------------------------------------------------
(* Flushes.  A write is under a tag once its SADD of the tag is done,      *)
(* unless the call failed before it returned.  The flush of a tag owes the *)
(* removal of every entry under it, except those whose set it disturbed.   *)

Under(w, t) ==
  /\ t \in labels[w]
  /\ \/ w \in done
     \/ \E c \in Clients : op[c].step = "tag" /\ op[c].write = w /\ t \notin op[c].tags

Owed(k, t) == kv[k] # None /\ kv[k] \notin disturbed /\ Under(kv[k], t)

(* A flush has read every entry it owes under the tag it works on, then    *)
(* has deleted them; the entries it began for and that are left are under  *)
(* tags it has still to do; and the sets beside it know of it.             *)
Thorough(p) ==
  /\ p.step = "delete" => \A k \in Keys : Owed(k, p.key) => k \in p.found
  /\ p.step = "untag" => \A k \in Keys : ~Owed(k, p.key)
  /\ p.step \in {"members", "delete", "untag"} =>
       /\ \A k \in Keys : kv[k] \in p.doomed \ disturbed => labels[kv[k]] \cap p.tags # {}
       /\ Adding(p.tags) \subseteq disturbed

Reachable == \A k \in Keys, t \in Tags : Owed(k, t) => <<t, k>> \in sets

AllThorough == \A c \in Clients : Thorough(op[c])

Covered == Reachable /\ AllThorough /\ QuietFlushedStayGone

(* Steps after which no entry is owed that was not, and no set is beside a *)
(* flush that was not.                                                     *)
Calmer ==
  /\ \A k \in Keys, t \in Tags : Owed(k, t)' => Owed(k, t)
  /\ \A tags \in SUBSET Tags : Adding(tags)' \subseteq Adding(tags)
  /\ \A k \in Keys : kv'[k] \in {kv[k], None}
  /\ labels' = labels /\ disturbed \subseteq disturbed'

LEMMA CalmThorough ==
  ASSUME TypeOK, AllFormed, Calmer, NEW p \in Calls(writes, done), Formed(p), Thorough(p)
  PROVE  Thorough(p)'
<1>1. p.step \in {"delete", "untag"} => p.key \in Tags
  BY DEF Formed, Calls
<1>2. p.tags \in SUBSET Tags /\ None \notin p.doomed
  <2>1. writes \in Nat /\ done \subseteq 1..writes /\ p.doomed \subseteq done
    BY RedisAssumption DEF TypeOK, Calls
  <2>2. None \notin 1..writes
    BY <2>1, RedisAssumption
  <2> QED BY <2>1, <2>2 DEF Calls
<1>3. Adding(p.tags) \subseteq disturbed => Adding(p.tags)' \subseteq disturbed'
  BY <1>2 DEF Calmer
<1>4. (\A k \in Keys : kv[k] \in p.doomed \ disturbed => labels[kv[k]] \cap p.tags # {})
      => (\A k \in Keys : kv'[k] \in p.doomed \ disturbed' => labels'[kv'[k]] \cap p.tags # {})
  BY <1>2 DEF Calmer
<1> QED BY <1>1, <1>3, <1>4 DEF Calmer, Thorough

(* A calm step of one call.                                                *)
LEMMA CalmCovered ==
  ASSUME TypeOK, AllFormed, Covered, Calmer, NEW c \in Clients, NEW p,
         op' = [op EXCEPT ![c] = p], Thorough(p)', Reachable', QuietFlushedStayGone'
  PROVE  Covered'
<1>1. ASSUME NEW d \in Clients
      PROVE  Thorough(op[d])'
  <2>1. CASE d = c
    BY <2>1 DEF TypeOK
  <2>2. CASE d # c
    <3>1. op'[d] = op[d] /\ Thorough(op[d]) /\ Formed(op[d]) /\ op[d] \in Calls(writes, done)
      BY <2>2 DEF TypeOK, Covered, AllThorough, AllFormed, Calls
    <3>2. PICK q : q = op[d]
      OBVIOUS
    <3>3. Thorough(q)'
      BY <3>1, <3>2, CalmThorough
    <3> QED BY <3>1, <3>2, <3>3
  <2> QED BY <2>1, <2>2
<1> QED BY <1>1 DEF Covered, AllThorough

(* A call that goes on to another step than adding tags, or ends, and only *)
(* removes entries.                                                        *)
LEMMA RemovalIsCalm ==
  ASSUME TypeOK, NEW c \in Clients, NEW p, op' = [op EXCEPT ![c] = p],
         p.step # "tag" \/ p = op[c], \A k \in Keys : kv'[k] \in {kv[k], None},
         labels' = labels, done' = done, disturbed \subseteq disturbed'
  PROVE  Calmer
<1>1. \A d \in Clients : op'[d].step = "tag" => op'[d] = op[d]
  BY DEF TypeOK
<1>2. \A w, t : Under(w, t)' => Under(w, t)
  BY <1>1 DEF Under
<1>3. \A tags : Adding(tags)' \subseteq Adding(tags)
  BY <1>1 DEF Adding
<1>4. \A k \in Keys, t \in Tags : Owed(k, t)' => Owed(k, t)
  BY <1>2 DEF Owed
<1> QED BY <1>3, <1>4 DEF Calmer

LEMMA CalmReachable ==
  ASSUME Covered, Calmer, sets \subseteq sets'
  PROVE  Reachable'
BY DEF Covered, Calmer, Reachable

LEMMA NoneIsNoWrite ==
  ASSUME TypeOK
  PROVE  /\ None \notin 1..writes /\ None \notin done /\ None \notin flushed
         /\ writes + 1 \notin 1..writes /\ writes + 1 \notin done /\ writes + 1 \notin flushed
         /\ writes \in Nat /\ writes + 1 # None
<1>1. writes \in Nat /\ done \subseteq 1..writes /\ flushed \subseteq done
  BY RedisAssumption DEF TypeOK
<1>2. None \notin 1..writes /\ writes + 1 \notin 1..writes /\ writes + 1 # None
  BY <1>1, RedisAssumption
<1> QED BY <1>1, <1>2

LEMMA CalmQuiet ==
  ASSUME TypeOK, Covered, Calmer, flushed' = flushed
  PROVE  QuietFlushedStayGone'
BY NoneIsNoWrite DEF Covered, Calmer, QuietFlushedStayGone

LEMMA RemovalCovered ==
  ASSUME TypeOK, AllFormed, Covered, NEW c \in Clients,
         UNCHANGED <<sets, labels, done, disturbed, flushed>>,
         \A k \in Keys : kv'[k] \in {kv[k], None},
         NEW p, p \in {op[c], Idle} \/ p.step = "load", op' = [op EXCEPT ![c] = p]
  PROVE  Covered'
<1>1. Calmer
  BY RemovalIsCalm DEF Idle
<1>2. Thorough(p)'
  <2>1. CASE p = op[c]
    <3>1. Thorough(p) /\ Formed(p) /\ p \in Calls(writes, done)
      BY <2>1 DEF TypeOK, Covered, AllThorough, AllFormed, Calls
    <3> QED BY <1>1, <3>1, CalmThorough
  <2>2. CASE p = Idle \/ p.step = "load"
    BY <2>2 DEF Thorough, Idle
  <2> QED BY <2>1, <2>2
<1> QED BY <1>1, <1>2, CalmReachable, CalmQuiet, CalmCovered

LEMMA StartFlushCovered ==
  ASSUME TypeOK, AllFormed, Covered, NEW c \in Clients, NEW tags \in SUBSET Tags,
         StartFlush(c, tags)
  PROVE  Covered'
<1>1. PICK doomed : doomed = {w \in done : labels[w] \cap tags # {}}
  OBVIOUS
<1>2. PICK p : /\ p = [Idle EXCEPT !.step = "members", !.tags = tags, !.doomed = doomed]
               /\ op' = [op EXCEPT ![c] = p]
  BY <1>1 DEF StartFlush
<1>3. p.step = "members" /\ p.tags = tags /\ p.doomed = doomed
  BY <1>2 DEF Idle
<1>4. /\ UNCHANGED <<kv, sets, writes, labels, done, flushed>>
      /\ disturbed' = disturbed \cup Adding(tags)
  BY DEF StartFlush
<1>5. Calmer
  BY <1>2, <1>3, <1>4, RemovalIsCalm
<1>6. Thorough(p)'
  <2>1. Adding(tags)' \subseteq disturbed'
    BY <1>4, <1>5 DEF Calmer
  <2>2. \A k \in Keys : kv'[k] \in doomed => labels'[kv'[k]] \cap tags # {}
    BY <1>1, <1>4
  <2> QED BY <1>3, <2>1, <2>2 DEF Thorough
<1> QED BY <1>2, <1>4, <1>5, <1>6, CalmReachable, CalmQuiet, CalmCovered

LEMMA ReadMembersCovered ==
  ASSUME TypeOK, AllFormed, Covered, NEW c \in Clients, NEW t \in Tags, ReadMembers(c, t)
  PROVE  Covered'
<1>1. PICK step : step = IF Members(t) = {} THEN "untag" ELSE "delete"
  OBVIOUS
<1>2. PICK p : /\ p = [op[c] EXCEPT !.step = step, !.key = t, !.found = Members(t)]
               /\ op' = [op EXCEPT ![c] = p]
  BY <1>1 DEF ReadMembers, TypeOK
<1>3. /\ op[c].step = "members"
      /\ UNCHANGED <<kv, sets, writes, labels, done, disturbed, flushed>>
  BY DEF ReadMembers
<1>4. op[c] \in Calls(writes, done) /\ Thorough(op[c])
  BY DEF TypeOK, Calls, Covered, AllThorough
<1>5. /\ p.step = step /\ p.key = t /\ p.tags = op[c].tags /\ p.found = Members(t)
      /\ p.doomed = op[c].doomed /\ p.tags \in SUBSET Tags
  BY <1>2, <1>4 DEF Calls
<1>6. Calmer
  <2>1. p.step # "tag"
    BY <1>1, <1>5
  <2> QED BY <1>2, <1>3, <2>1, RemovalIsCalm
<1>7. \A k \in Keys : Owed(k, t)' => k \in Members(t)
  BY <1>6 DEF Calmer, Covered, Reachable, Members
<1>8. Adding(p.tags)' \subseteq disturbed'
  <2>1. Adding(p.tags) \subseteq disturbed
    BY <1>3, <1>4, <1>5 DEF Thorough
  <2> QED BY <1>3, <1>5, <1>6, <2>1 DEF Calmer
<1>9. \A k \in Keys : kv'[k] \in p.doomed \ disturbed' => labels'[kv'[k]] \cap p.tags # {}
  BY <1>3, <1>4, <1>5 DEF Thorough
<1>10. Thorough(p)'
  BY <1>1, <1>5, <1>7, <1>8, <1>9 DEF Thorough
<1> QED BY <1>2, <1>3, <1>6, <1>10, CalmReachable, CalmQuiet, CalmCovered

LEMMA DeleteFoundCovered ==
  ASSUME TypeOK, AllFormed, Covered, NEW c \in Clients, DeleteFound(c)
  PROVE  Covered'
<1>1. PICK p : /\ p = [op[c] EXCEPT !.step = "untag", !.found = {}]
               /\ op' = [op EXCEPT ![c] = p]
  BY DEF DeleteFound, TypeOK
<1>2. /\ op[c].step = "delete" /\ kv' = Without(op[c].found)
      /\ UNCHANGED <<sets, writes, labels, done, disturbed, flushed>>
  BY DEF DeleteFound
<1>3. op[c] \in Calls(writes, done) /\ Thorough(op[c]) /\ Formed(op[c])
  BY DEF TypeOK, Calls, Covered, AllThorough, AllFormed
<1>4. /\ p.step = "untag" /\ p.key = op[c].key /\ p.tags = op[c].tags
      /\ p.doomed = op[c].doomed /\ p.tags \in SUBSET Tags
  BY <1>1, <1>3 DEF Calls
<1>5. \A k \in Keys : kv'[k] = IF k \in op[c].found THEN None ELSE kv[k]
  BY <1>2, WithoutTyped
<1>6. Calmer
  BY <1>1, <1>2, <1>4, <1>5, RemovalIsCalm
<1>7. p.key \in Tags
  BY <1>2, <1>3, <1>4 DEF Formed
<1>8. \A k \in Keys : ~Owed(k, p.key)'
  <2> SUFFICES ASSUME NEW k \in Keys, Owed(k, p.key)' PROVE FALSE
    OBVIOUS
  <2>1. Owed(k, p.key)
    BY <1>6, <1>7 DEF Calmer
  <2>2. k \in op[c].found
    BY <1>2, <1>3, <1>4, <2>1 DEF Thorough
  <2> QED BY <1>5, <2>2 DEF Owed
<1>9. Adding(p.tags)' \subseteq disturbed'
  <2>1. Adding(p.tags) \subseteq disturbed
    BY <1>2, <1>3, <1>4 DEF Thorough
  <2> QED BY <1>2, <1>4, <1>6, <2>1 DEF Calmer
<1>10. \A k \in Keys : kv'[k] \in p.doomed \ disturbed' => labels'[kv'[k]] \cap p.tags # {}
  <2>1. None \notin p.doomed
    BY <1>3, <1>4, NoneIsNoWrite DEF Calls
  <2> QED BY <1>2, <1>3, <1>4, <1>5, <2>1 DEF Thorough
<1>11. Thorough(p)'
  BY <1>4, <1>8, <1>9, <1>10 DEF Thorough
<1> QED BY <1>1, <1>2, <1>6, <1>11, CalmReachable, CalmQuiet, CalmCovered

(* The SET of a call: no entry is owed for it yet, and a flush of one of   *)
(* its tags learns of it.                                                  *)
LEMMA PutCovered ==
  ASSUME TypeOK, AllFormed, Covered, NEW c \in Clients, NEW k \in Keys,
         NEW tags \in SUBSET Tags, Put(k, tags), NEW p, op' = [op EXCEPT ![c] = p],
         \/ p.step = "idle" /\ tags = {} /\ done' = done \cup {writes + 1}
         \/ p.step = "tag" /\ p.tags = tags /\ p.write = writes + 1 /\ done' = done
  PROVE  Covered'
<1>0. PICK new : new = writes + 1
  OBVIOUS
<1>1. /\ kv'[k] = new /\ (\A x \in Keys \ {k} : kv'[x] = kv[x])
      /\ labels'[new] = tags /\ (\A w \in 1..writes : labels'[w] = labels[w] /\ w # new)
      /\ disturbed \subseteq disturbed'
  BY <1>0, PutTyped
<1>2. /\ UNCHANGED <<sets, flushed>>
      /\ (\E d \in Clients : Flushing(d) /\ op[d].tags \cap tags # {}) => new \in disturbed'
  BY <1>0 DEF Put
<1>3. new \notin done /\ new \notin flushed /\ None \notin 1..writes /\ done \subseteq 1..writes
  BY <1>0, NoneIsNoWrite DEF TypeOK
<1>4. /\ op'[c] = p /\ \A d \in Clients \ {c} : op'[d] = op[d]
      /\ \A d \in Clients : op[d].step = "tag" => op[d].write \in 1..writes
      /\ \A d \in Clients : op[d].doomed \subseteq done
  BY DEF TypeOK, AllFormed, Formed
<1>5. \A x \in Keys : kv[x] # None => kv[x] \in 1..writes
  BY DEF TypeOK
<1>6. \/ p.step = "idle" /\ tags = {} /\ done' = done \cup {new}
      \/ p.step = "tag" /\ p.tags = tags /\ p.write = new /\ done' = done
  BY <1>0
<1>7. \A w \in 1..writes, t \in Tags : Under(w, t)' => Under(w, t)
  BY <1>1, <1>4, <1>6 DEF Under
<1>8. \A t \in Tags : ~Under(new, t)'
  <2> SUFFICES ASSUME NEW t \in Tags, Under(new, t)' PROVE FALSE
    OBVIOUS
  <2>1. t \in tags /\ p.step = "tag"
    BY <1>1, <1>6 DEF Under
  <2>2. new \notin done'
    BY <2>1, <1>3, <1>6
  <2>3. PICK d \in Clients : op'[d].step = "tag" /\ op'[d].write = new /\ t \notin op'[d].tags
    BY <2>2 DEF Under
  <2>4. d # c
    BY <2>1, <2>3, <1>4, <1>6
  <2> QED BY <2>3, <2>4, <1>1, <1>4
<1>9. \A x \in Keys, t \in Tags : Owed(x, t)' => Owed(x, t)
  <2> SUFFICES ASSUME NEW x \in Keys, NEW t \in Tags, Owed(x, t)' PROVE Owed(x, t)
    OBVIOUS
  <2>1. kv'[x] # None /\ kv'[x] \notin disturbed'
    BY DEF Owed
  <2>2. PICK w : w = kv'[x]
    OBVIOUS
  <2>3. Under(w, t)' /\ w # new
    BY <2>2, <1>8 DEF Owed, Under
  <2>4. kv[x] = w /\ w \in 1..writes
    BY <2>1, <2>2, <2>3, <1>1, <1>5
  <2> QED BY <2>1, <2>2, <2>3, <2>4, <1>1, <1>7 DEF Owed
<1>10. Reachable'
  BY <1>2, <1>9 DEF Covered, Reachable
<1>11. QuietFlushedStayGone'
  BY <1>1, <1>2, <1>3 DEF Covered, QuietFlushedStayGone
<1>12. ASSUME NEW d \in Clients
       PROVE  Thorough(op[d])'
  <2>1. CASE d = c
    BY <2>1, <1>4, <1>6 DEF Thorough
  <2>2. CASE d # c
    <3>1. PICK q : q = op[d]
      OBVIOUS
    <3>2. op'[d] = q /\ Thorough(q) /\ Formed(q) /\ q \in Calls(writes, done)
      BY <2>2, <3>1, <1>4 DEF TypeOK, Calls, Covered, AllThorough, AllFormed
    <3>3. q.step \in {"delete", "untag"} => q.key \in Tags
      BY <3>2 DEF Formed, Calls
    <3>4. ASSUME q.step \in {"members", "delete", "untag"}
          PROVE  /\ \A x \in Keys : kv'[x] \in q.doomed \ disturbed'
                                      => labels'[kv'[x]] \cap q.tags # {}
                 /\ Adding(q.tags)' \subseteq disturbed'
      <4>1. /\ \A x \in Keys : kv[x] \in q.doomed \ disturbed => labels[kv[x]] \cap q.tags # {}
            /\ Adding(q.tags) \subseteq disturbed
        BY <3>2, <3>4 DEF Thorough
      <4>2. \A x \in Keys : kv'[x] \in q.doomed
                            => kv'[x] = kv[x] /\ labels'[kv[x]] = labels[kv[x]]
        BY <1>1, <1>3, <1>4, <3>1
      <4>3. \A e \in Clients : op'[e].step = "tag" /\ op'[e].tags \cap q.tags # {}
                               => op'[e].write \in disturbed'
        <5>1. tags \cap q.tags # {} => new \in disturbed'
          BY <1>2, <3>1, <3>4 DEF Flushing
        <5> QED BY <4>1, <5>1, <1>1, <1>4, <1>6 DEF Adding
      <4> QED BY <4>1, <4>2, <4>3, <1>1 DEF Adding
    <3> QED BY <3>2, <3>3, <3>4, <1>9 DEF Thorough
  <2> QED BY <2>1, <2>2
<1> QED BY <1>10, <1>11, <1>12 DEF Covered, AllThorough

LEMMA StoresCovered ==
  ASSUME TypeOK, AllFormed, Covered, NEW c \in Clients,
         \/ \E k \in Keys : Set(c, k)
         \/ \E k \in Keys, tags \in SUBSET Tags \ {{}} : TaggedSet(c, k, tags)
         \/ RememberStore(c)
  PROVE  Covered'
<1>1. ASSUME NEW k \in Keys, Set(c, k)
      PROVE  Covered'
  <2>1. op' = [op EXCEPT ![c] = Idle]
    BY <1>1 DEF Set, TypeOK
  <2>2. Put(k, {}) /\ done' = done \cup {writes + 1} /\ Idle.step = "idle"
    BY <1>1 DEF Set, Idle
  <2> QED BY <2>1, <2>2, PutCovered
<1>2. ASSUME NEW k \in Keys, NEW tags \in SUBSET Tags, TaggedSet(c, k, tags)
      PROVE  Covered'
  <2>1. PICK p : /\ p = [Idle EXCEPT !.step = "tag", !.key = k, !.tags = tags,
                                     !.write = writes + 1]
                 /\ op' = [op EXCEPT ![c] = p]
    BY <1>2 DEF TaggedSet
  <2>2. p.step = "tag" /\ p.tags = tags /\ p.write = writes + 1
    BY <2>1 DEF Idle
  <2>3. Put(k, tags) /\ done' = done
    BY <1>2 DEF TaggedSet
  <2> QED BY <2>1, <2>2, <2>3, PutCovered
<1>3. CASE RememberStore(c)
  <2>1. op[c].key \in Keys
    BY <1>3 DEF RememberStore, AllFormed, Formed
  <2>2. Put(op[c].key, {}) /\ done' = done \cup {writes + 1} /\ Idle.step = "idle"
    BY <1>3 DEF RememberStore, Idle
  <2>3. op' = [op EXCEPT ![c] = Idle]
    BY <1>3 DEF RememberStore, Return
  <2> QED BY <2>1, <2>2, <2>3, PutCovered
<1> QED BY <1>1, <1>2, <1>3

(* The SADD of a tag: the entry is under one tag more, and reachable by it. *)
LEMMA AddTagCovered ==
  ASSUME TypeOK, AllFormed, Covered, NEW c \in Clients, NEW t \in Tags, AddTag(c, t)
  PROVE  Covered'
<1>1. PICK w, k, tags : w = op[c].write /\ k = op[c].key /\ tags = op[c].tags
  OBVIOUS
<1>2. /\ op[c].step = "tag" /\ t \in tags /\ sets' = sets \cup {<<t, k>>}
      /\ UNCHANGED <<kv, writes, labels, disturbed, flushed>>
  BY <1>1 DEF AddTag
<1>3. \A x \in Keys : kv[x] = w => x = k
  BY <1>1, <1>2 DEF AllFormed, Formed
<1>4. PICK p : /\ op' = [op EXCEPT ![c] = p]
               /\ \/ p.step = "idle" /\ tags = {t} /\ done' = done \cup {w}
                  \/ p.step = "tag" /\ p.write = w /\ p.tags = tags \ {t} /\ done' = done
  <2>1. CASE tags = {t}
    <3>1. op' = [op EXCEPT ![c] = Idle] /\ done' = done \cup {w}
      BY <2>1, <1>1 DEF AddTag, Return
    <3>2. Idle.step = "idle"
      BY DEF Idle
    <3> QED BY <2>1, <3>1, <3>2
  <2>2. CASE tags # {t}
    <3>1. PICK p : p = [op[c] EXCEPT !.tags = tags \ {t}]
      OBVIOUS
    <3>2. op' = [op EXCEPT ![c] = p] /\ done' = done
      BY <2>2, <3>1, <1>1 DEF AddTag, TypeOK
    <3>3. p.step = "tag" /\ p.write = w /\ p.tags = tags \ {t}
      BY <3>1, <1>1, <1>2 DEF TypeOK
    <3> QED BY <3>2, <3>3
  <2> QED BY <2>1, <2>2
<1>5. op'[c] = p /\ \A d \in Clients \ {c} : op'[d] = op[d]
  BY <1>4 DEF TypeOK
<1>6. ASSUME NEW v, NEW s \in Tags, Under(v, s)'
      PROVE  Under(v, s) \/ (v = w /\ s = t)
  <2>1. s \in labels[v]
    BY <1>2, <1>6 DEF Under
  <2>2. CASE v \in done'
    BY <2>1, <2>2, <1>1, <1>2, <1>4 DEF Under
  <2>3. CASE v \notin done'
    <3>1. PICK d \in Clients : op'[d].step = "tag" /\ op'[d].write = v /\ s \notin op'[d].tags
      BY <2>3, <1>6 DEF Under
    <3>2. CASE d = c
      BY <3>1, <3>2, <2>1, <1>1, <1>2, <1>4, <1>5 DEF Under
    <3>3. CASE d # c
      BY <3>1, <3>3, <2>1, <1>5 DEF Under
    <3> QED BY <3>2, <3>3
  <2> QED BY <2>2, <2>3
<1>7. ASSUME NEW x \in Keys, NEW s \in Tags, Owed(x, s)'
      PROVE  Owed(x, s) \/ (x = k /\ s = t /\ w \notin disturbed)
  <2>1. PICK v : v = kv[x]
    OBVIOUS
  <2>2. v # None /\ v \notin disturbed /\ Under(v, s)'
    BY <2>1, <1>2, <1>7 DEF Owed, Under
  <2> QED BY <2>1, <2>2, <1>3, <1>6 DEF Owed
<1>8. Reachable'
  BY <1>2, <1>7 DEF Covered, Reachable
<1>9. QuietFlushedStayGone'
  BY <1>2 DEF Covered, QuietFlushedStayGone
<1>10. ASSUME NEW d \in Clients
       PROVE  Thorough(op[d])'
  <2>1. CASE d = c
    BY <2>1, <1>4, <1>5 DEF Thorough
  <2>2. CASE d # c
    <3>1. PICK q : q = op[d]
      OBVIOUS
    <3>2. op'[d] = q /\ Thorough(q) /\ Formed(q) /\ q \in Calls(writes, done)
      BY <2>2, <3>1, <1>5 DEF TypeOK, Calls, Covered, AllThorough, AllFormed
    <3>3. q.step \in {"delete", "untag"} => q.key \in Tags /\ q.key \in q.tags
      BY <3>2 DEF Formed, Calls
    <3>4. ASSUME q.step \in {"members", "delete", "untag"}
          PROVE  /\ \A x \in Keys : kv'[x] \in q.doomed \ disturbed'
                                      => labels'[kv'[x]] \cap q.tags # {}
                 /\ Adding(q.tags)' \subseteq disturbed'
                 /\ t \in q.tags => w \in disturbed
      <4>1. /\ \A x \in Keys : kv[x] \in q.doomed \ disturbed => labels[kv[x]] \cap q.tags # {}
            /\ Adding(q.tags) \subseteq disturbed
        BY <3>2, <3>4 DEF Thorough
      <4>2. tags \cap q.tags # {} => w \in disturbed
        BY <4>1, <1>1, <1>2 DEF Adding
      <4>3. \A e \in Clients : op'[e].step = "tag" /\ op'[e].tags \cap q.tags # {}
                               => op'[e].write \in disturbed
        BY <4>1, <4>2, <1>4, <1>5 DEF Adding
      <4> QED BY <4>1, <4>2, <4>3, <1>2 DEF Adding
    <3>5. q.step \in {"delete", "untag"} => \A x \in Keys : Owed(x, q.key)' => Owed(x, q.key)
      BY <3>3, <3>4, <1>7
    <3> QED BY <3>2, <3>4, <3>5 DEF Thorough
  <2> QED BY <2>1, <2>2
<1> QED BY <1>8, <1>9, <1>10 DEF Covered, AllThorough

(* The DEL of a tag's set: no entry is owed under it any more, so none     *)
(* loses the way to it, and those still to remove are under other tags.    *)
LEMMA DeleteTagCovered ==
  ASSUME TypeOK, AllFormed, Covered, NEW c \in Clients, DeleteTag(c)
  PROVE  Covered'
<1>1. PICK t, tags, doomed : t = op[c].key /\ tags = op[c].tags /\ doomed = op[c].doomed
  OBVIOUS
<1>2. /\ op[c].step = "untag" /\ sets' = Untagged(t)
      /\ UNCHANGED <<kv, writes, labels, done, disturbed>>
  BY <1>1 DEF DeleteTag
<1>3. op[c] \in Calls(writes, done) /\ Thorough(op[c]) /\ Formed(op[c])
  BY DEF TypeOK, Calls, Covered, AllThorough, AllFormed
<1>4. t \in Tags /\ t \in tags /\ tags \in SUBSET Tags /\ doomed \subseteq done
  BY <1>1, <1>2, <1>3 DEF Formed, Calls
<1>5. /\ \A k \in Keys : ~Owed(k, t)
      /\ \A k \in Keys : kv[k] \in doomed \ disturbed => labels[kv[k]] \cap tags # {}
      /\ Adding(tags) \subseteq disturbed
  BY <1>1, <1>2, <1>3 DEF Thorough
<1>6. \A k \in Keys : kv[k] \in doomed \ disturbed => t \notin labels[kv[k]]
  BY <1>4, <1>5, NoneIsNoWrite DEF Owed, Under
<1>7. PICK p : /\ op' = [op EXCEPT ![c] = p]
               /\ \/ p = Idle /\ tags = {t} /\ flushed' = flushed \cup doomed
                  \/ /\ p.step = "members" /\ p.tags = tags \ {t} /\ p.doomed = doomed
                     /\ flushed' = flushed
  <2>1. CASE tags = {t}
    BY <2>1, <1>1 DEF DeleteTag, Return
  <2>2. CASE tags # {t}
    <3>1. PICK p : p = [op[c] EXCEPT !.step = "members", !.key = None, !.tags = tags \ {t}]
      OBVIOUS
    <3>2. op' = [op EXCEPT ![c] = p] /\ flushed' = flushed
      BY <2>2, <3>1, <1>1 DEF DeleteTag, TypeOK
    <3>3. p.step = "members" /\ p.tags = tags \ {t} /\ p.doomed = doomed
      BY <3>1, <1>1, <1>3 DEF Calls
    <3> QED BY <3>2, <3>3
  <2> QED BY <2>1, <2>2
<1>8. Calmer
  <2>1. p.step # "tag"
    BY <1>7 DEF Idle
  <2> QED BY <1>2, <1>7, <2>1, RemovalIsCalm
<1>9. Reachable'
  BY <1>2, <1>5, <1>8 DEF Covered, Reachable, Calmer, Untagged
<1>10. QuietFlushedStayGone'
  <2>1. ASSUME tags = {t}, NEW k \in Keys
        PROVE  kv[k] \notin doomed \ disturbed
    BY <2>1, <1>5, <1>6
  <2>2. \A k \in Keys : kv[k] \notin flushed \ disturbed
    BY DEF Covered, QuietFlushedStayGone
  <2> QED BY <2>1, <2>2, <1>2, <1>7 DEF QuietFlushedStayGone
<1>11. Thorough(p)'
  <2>1. CASE p = Idle
    BY <2>1 DEF Thorough, Idle
  <2>2. CASE p.step = "members" /\ p.tags = tags \ {t} /\ p.doomed = doomed
    <3>1. Adding(p.tags) \subseteq Adding(tags)
      BY <2>2 DEF Adding
    <3>2. Adding(p.tags)' \subseteq disturbed'
      BY <3>1, <2>2, <1>2, <1>4, <1>5, <1>8 DEF Calmer
    <3>3. \A k \in Keys : kv'[k] \in p.doomed \ disturbed' => labels'[kv'[k]] \cap p.tags # {}
      BY <2>2, <1>2, <1>5, <1>6
    <3> QED BY <2>2, <3>2, <3>3 DEF Thorough
  <2> QED BY <1>7, <2>1, <2>2
<1> QED BY <1>7, <1>8, <1>9, <1>10, <1>11, CalmCovered

(* The FLUSHDB: nothing is left.                                           *)
LEMMA FlushCovered ==
  ASSUME TypeOK, AllFormed, Covered, NEW c \in Clients, Flush(c)
  PROVE  Covered'
<1>1. PICK p : p = op[c] /\ op' = [op EXCEPT ![c] = p]
  BY DEF Flush, TypeOK
<1>2. /\ UNCHANGED <<op, writes, labels, done, disturbed>> /\ flushed' = flushed \cup done
      /\ \A k \in Keys : kv'[k] = None
  BY WithoutTyped DEF Flush
<1>3. Calmer
  BY <1>1, <1>2, RemovalIsCalm
<1>4. Thorough(p)'
  BY <1>1, <1>3, CalmThorough DEF TypeOK, Calls, AllFormed, Covered, AllThorough
<1>5. Reachable' /\ QuietFlushedStayGone'
  BY <1>2, NoneIsNoWrite DEF Reachable, Owed, QuietFlushedStayGone
<1> QED BY <1>1, <1>3, <1>4, <1>5, CalmCovered

LEMMA ExpireCovered ==
  ASSUME TypeOK, AllFormed, Covered, NEW k \in Keys, Expire(k)
  PROVE  Covered'
<1>1. UNCHANGED <<sets, op, writes, labels, done, disturbed, flushed>>
  BY DEF Expire
<1>2. \A x \in Keys : kv'[x] \in {kv[x], None}
  BY WithoutTyped DEF Expire
<1>3. Calmer
  BY <1>1, <1>2 DEF Calmer, Owed, Under, Adding
<1>4. ASSUME NEW d \in Clients
      PROVE  Thorough(op[d])'
  <2>1. PICK q : q = op[d]
    OBVIOUS
  <2>2. Thorough(q)'
    BY <2>1, <1>3, CalmThorough DEF TypeOK, Calls, AllFormed, Covered, AllThorough
  <2> QED BY <2>1, <2>2, <1>1
<1> QED BY <1>1, <1>3, <1>4, CalmReachable, CalmQuiet DEF Covered, AllThorough

LEMMA NextCovered ==
  ASSUME TypeOK, AllFormed, Covered, [Next]_vars
  PROVE  Covered'
<1>1. ASSUME NEW c \in Clients, NEW k \in Keys, Forget(c, k) \/ RememberMiss(c, k)
      PROVE  Covered'
  <2>1. UNCHANGED <<sets, writes, labels, done, disturbed, flushed>>
    BY <1>1 DEF Forget, RememberMiss
  <2>2. \A x \in Keys : kv'[x] \in {kv[x], None}
    BY <1>1, WithoutTyped DEF Forget, RememberMiss
  <2>3. CASE Forget(c, k)
    <3>1. PICK p : p = op[c] /\ op' = [op EXCEPT ![c] = p]
      BY <2>3 DEF Forget, TypeOK
    <3> QED BY <2>1, <2>2, <3>1, RemovalCovered
  <2>4. CASE RememberMiss(c, k)
    <3>1. PICK p : p = [Idle EXCEPT !.step = "load", !.key = k] /\ op' = [op EXCEPT ![c] = p]
      BY <2>4 DEF RememberMiss
    <3>2. p.step = "load"
      BY <3>1 DEF Idle
    <3> QED BY <2>1, <2>2, <3>1, <3>2, RemovalCovered
  <2> QED BY <1>1, <2>3, <2>4
<1>2. ASSUME NEW c \in Clients, RememberFails(c) \/ CommandFails(c)
      PROVE  Covered'
  <2>1. op' = [op EXCEPT ![c] = Idle]
    BY <1>2 DEF RememberFails, CommandFails, Return
  <2>2. UNCHANGED <<kv, sets, writes, labels, done, disturbed, flushed>>
    BY <1>2 DEF RememberFails, CommandFails
  <2> QED BY <2>1, <2>2, RemovalCovered
<1>3. CASE UNCHANGED vars
  BY <1>3 DEF vars, Covered, Reachable, AllThorough, Thorough, Owed, Under, Adding,
              QuietFlushedStayGone
<1>4. ASSUME NEW c \in Clients, Call(c)
      PROVE  Covered'
  BY <1>1, <1>2, <1>4, StoresCovered, AddTagCovered, StartFlushCovered, ReadMembersCovered,
     DeleteFoundCovered, DeleteTagCovered, FlushCovered DEF Call
<1> QED BY <1>2, <1>3, <1>4, ExpireCovered DEF Next

LEMMA InitCovered ==
  ASSUME Init
  PROVE  Covered
BY DEF Init, Covered, Reachable, AllThorough, Thorough, Owed, Idle, QuietFlushedStayGone

LEMMA AlwaysCovered == Spec => []Covered
BY InitCovered, NextCovered, AlwaysFormed, PTL DEF Spec

(* An entry whose set had returned before a flush of one of its tags began *)
(* stays gone once the flush is over, unless a flush of its tags ran       *)
(* beside its set: for any number of calls, whatever they do between one   *)
(* another's commands and whichever of these fail.                         *)
THEOREM FlushedStayGone == Spec => []QuietFlushedStayGone
BY AlwaysCovered, PTL DEF Covered

-----------------------------------------------------------------------------
(* The in-memory store behind this one.  As long as calls do not overlap,  *)
(* one call is in progress at most; writes made are done, but for the one  *)
(* of that call; a flush that goes from tag to tag has deleted what it had *)
(* found; and only a flush has entries to remove.                          *)
Settled(p) == /\ p.step \in {"members", "untag"} => p.found = {}
              /\ p.step \in {"idle", "tag", "load"} => p.doomed = {}

Sole ==
  alone => /\ \A c, d \in Clients : op[c] = Idle \/ op[d] = Idle \/ c = d
           /\ \A w \in 1..writes :
                w \in done \/ \E c \in Clients : op[c].step = "tag" /\ op[c].write = w
           /\ \A c \in Clients : Settled(op[c])

Flushes(p) == p.step \in {"members", "delete", "untag"}

(* What the call p hides of the entries, and where it has the index.       *)
Hidden(index, p) ==
  {k \in Keys : \/ k \in p.found
                \/ \E t \in p.tags : /\ p.step = "members" \/ t # p.key
                                     /\ <<t, k>> \in index}

Seen(table, index, p) ==
  [k \in Keys |-> IF Flushes(p) /\ k \in Hidden(index, p) THEN None ELSE table[k]]

Listed(index, p) ==
  IF Flushes(p) THEN {e \in index : e[1] \notin p.tags}
  ELSE IF p.step = "tag" THEN index \cup (p.tags \X {p.key}) ELSE index

Loads(c, p) == [d \in Clients |-> IF d = c /\ p.step = "load" THEN p.key ELSE None]

(* The in-memory store, seen through the one call in progress.             *)
LEMMA View ==
  ASSUME NEW c \in Clients, NEW p, op[c] = p, \A d \in Clients \ {c} : op[d] = Idle
  PROVE  /\ Entries = Seen(kv, sets, p) /\ Index = Listed(sets, p)
         /\ Loading = Loads(c, p) /\ Removed = flushed \cup p.doomed
<1>1. /\ Idle.step = "idle" /\ Idle.doomed = {}
      /\ Flushers = IF Flushes(p) THEN {c} ELSE {}
      /\ Pending("tag") = IF p.step = "tag" THEN {c} ELSE {}
  BY DEF Idle, Flushers, Flushing, Flushes, Pending
<1>2. Entries = Seen(kv, sets, p)
  <2>1. \A k \in Keys :
          (\E d \in Flushers : \/ k \in op[d].found
                               \/ /\ op[d].step = "members"
                                  /\ \E t \in op[d].tags : k \in Members(t)
                               \/ /\ op[d].step # "members"
                                  /\ \E t \in op[d].tags \ {op[d].key} : k \in Members(t))
          <=> (Flushes(p) /\ k \in Hidden(sets, p))
    BY <1>1 DEF Hidden, Members
  <2> QED BY <2>1 DEF Entries, Seen
<1>3. Index = Listed(sets, p)
  BY <1>1 DEF Index, Listed, Flushes
<1>4. Loading = Loads(c, p)
  BY <1>1 DEF Loading, Loads
<1>5. Removed = flushed \cup p.doomed
  BY <1>1 DEF Removed
<1> QED BY <1>2, <1>3, <1>4, <1>5

(* The same after a step.                                                  *)
LEMMA NextView ==
  ASSUME NEW c \in Clients, NEW p, op'[c] = p, \A d \in Clients \ {c} : op'[d] = Idle
  PROVE  /\ Entries' = Seen(kv', sets', p) /\ Index' = Listed(sets', p)
         /\ Loading' = Loads(c, p) /\ Removed' = flushed' \cup p.doomed
<1>1. /\ Idle.step = "idle" /\ Idle.doomed = {}
      /\ Flushers' = IF Flushes(p) THEN {c} ELSE {}
      /\ Pending("tag")' = IF p.step = "tag" THEN {c} ELSE {}
  BY DEF Idle, Flushers, Flushing, Flushes, Pending
<1>2. Entries' = Seen(kv', sets', p)
  <2>1. \A k \in Keys :
          (\E d \in Flushers' : \/ k \in op'[d].found
                                \/ /\ op'[d].step = "members"
                                   /\ \E t \in op'[d].tags : k \in Members(t)'
                                \/ /\ op'[d].step # "members"
                                   /\ \E t \in op'[d].tags \ {op'[d].key} : k \in Members(t)')
          <=> (Flushes(p) /\ k \in Hidden(sets', p))
    BY <1>1 DEF Hidden, Members
  <2> QED BY <2>1 DEF Entries, Seen
<1>3. Index' = Listed(sets', p)
  BY <1>1 DEF Index, Listed, Flushes
<1>4. Loading' = Loads(c, p)
  BY <1>1 DEF Loading, Loads
<1>5. Removed' = flushed' \cup p.doomed
  BY <1>1 DEF Removed
<1> QED BY <1>2, <1>3, <1>4, <1>5

(* What a call that has the store to itself knows of it.                   *)
Alone(c) == /\ TypeOK /\ AllFormed /\ Settled(op[c])
            /\ \A d \in Clients \ {c} : op[d] = Idle
            /\ \A w \in 1..writes : w \in done \/ (op[c].step = "tag" /\ op[c].write = w)

LEMMA SoleIsAlone ==
  ASSUME TypeOK, AllFormed, Sole, alone, NEW c \in Clients, \A d \in Clients \ {c} : op[d] = Idle
  PROVE  Alone(c)
BY DEF Sole, Alone, Idle

LEMMA AloneStaysSole ==
  ASSUME NEW c \in Clients, Alone(c), NEW p, op' = [op EXCEPT ![c] = p], Settled(p),
         \A w \in 1..writes' : w \in done' \/ (p.step = "tag" /\ p.write = w)
  PROVE  Sole'
<1>1. op'[c] = p /\ \A d \in Clients \ {c} : op'[d] = Idle
  BY DEF Alone, TypeOK
<1>2. Settled(Idle)
  BY DEF Settled, Idle
<1>3. \A d \in Clients : Settled(op'[d])
  BY <1>1, <1>2
<1>4. \A d, e \in Clients : op'[d] = Idle \/ op'[e] = Idle \/ d = e
  BY <1>1
<1>5. \A w \in 1..writes' :
        w \in done' \/ \E d \in Clients : op'[d].step = "tag" /\ op'[d].write = w
  BY <1>1
<1> QED BY <1>3, <1>4, <1>5 DEF Sole, Settled

(* The in-memory store's state before and after a step of the call.        *)
LEMMA Views ==
  ASSUME NEW c \in Clients, Alone(c), NEW p, op' = [op EXCEPT ![c] = p]
  PROVE  /\ Entries = Seen(kv, sets, op[c]) /\ Index = Listed(sets, op[c])
         /\ Loading = Loads(c, op[c]) /\ Removed = flushed \cup op[c].doomed
         /\ Entries' = Seen(kv', sets', p) /\ Index' = Listed(sets', p)
         /\ Loading' = Loads(c, p) /\ Removed' = flushed' \cup p.doomed
<1>1. \A d \in Clients \ {c} : op[d] = Idle
  BY DEF Alone
<1>2. op'[c] = p /\ \A d \in Clients \ {c} : op'[d] = Idle
  BY <1>1 DEF Alone, TypeOK
<1> QED BY <1>1, <1>2, View, NextView

(* No flush is in progress: the store shows what it holds.                 *)
LEMMA Shown ==
  ASSUME TypeOK, NEW c \in Clients, NEW p, ~Flushes(p)
  PROVE  /\ Seen(kv, sets, p) = kv
         /\ p.step # "tag" => Listed(sets, p) = sets
         /\ p.step # "load" => Loads(c, p) = [d \in Clients |-> None]
BY DEF Seen, Listed, Loads, TypeOK

(* A SET is a store of the in-memory store.                                *)
LEMMA PutStores ==
  ASSUME NEW c \in Clients, Alone(c), NEW k \in Keys, NEW tags \in SUBSET Tags, Put(k, tags),
         op[c].step \in {"idle", "load"}, NEW p, op' = [op EXCEPT ![c] = p], p.doomed = {},
         \/ p.step = "idle" /\ done' = done \cup {writes + 1}
         \/ p.step = "tag" /\ p.write = writes + 1 /\ done' = done
  PROVE  Sole' /\ Memory!Store(k, tags)
<1>1. Sole'
  <2>1. Settled(p)
    BY DEF Settled
  <2>2. \A w \in 1..writes' : w = writes + 1 \/ w \in 1..writes
    BY NoneIsNoWrite DEF Put, Alone
  <2>3. \A w \in 1..writes' : w \in done' \/ (p.step = "tag" /\ p.write = w)
    BY <2>2 DEF Alone
  <2> QED BY <2>1, <2>3, AloneStaysSole
<1>2. TypeOK /\ ~Flushes(op[c]) /\ ~Flushes(p)
  BY DEF Flushes, Alone
<1>3. Entries = kv
  BY <1>2, Views, Shown
<1>4. Entries' = kv'
  <2>1. kv' = [x \in Keys |-> kv'[x]]
    BY <1>2, PutTyped
  <2> QED BY <1>2, <2>1, Views DEF Seen
<1>5. Removed' = Removed
  BY Views DEF Put, Alone, Settled
<1> QED BY <1>1, <1>3, <1>4, <1>5 DEF Memory!Store, Put

LEMMA StoresLikeMemory ==
  ASSUME NEW c \in Clients, Alone(c),
         \/ \E k \in Keys : Set(c, k)
         \/ \E k \in Keys, tags \in SUBSET Tags \ {{}} : TaggedSet(c, k, tags)
         \/ RememberStore(c)
  PROVE  Sole' /\ Memory!Next
<1>1. Idle.step = "idle" /\ Idle.doomed = {} /\ ~Flushes(Idle)
  BY DEF Idle, Flushes
<1>2. ASSUME NEW k \in Keys, Set(c, k)
      PROVE  Sole' /\ Memory!Set(k)
  <2>1. Put(k, {}) /\ done' = done \cup {writes + 1} /\ op[c] = Idle
        /\ op' = [op EXCEPT ![c] = Idle] /\ sets' = sets
    BY <1>2 DEF Set, Put, Alone, TypeOK
  <2>2. Sole' /\ Memory!Store(k, {})
    BY <2>1, <1>1, PutStores
  <2>3. Index' = Index /\ Loading' = Loading
    BY <2>1, Views
  <2> QED BY <2>2, <2>3 DEF Memory!Set
<1>3. ASSUME NEW k \in Keys, NEW tags \in SUBSET Tags, TaggedSet(c, k, tags)
      PROVE  Sole' /\ Memory!TaggedSet(k, tags)
  <2>1. PICK p : /\ p = [Idle EXCEPT !.step = "tag", !.key = k, !.tags = tags,
                                     !.write = writes + 1]
                 /\ op' = [op EXCEPT ![c] = p]
    BY <1>3 DEF TaggedSet
  <2>2. /\ p.step = "tag" /\ p.key = k /\ p.tags = tags /\ p.write = writes + 1
        /\ p.doomed = {} /\ ~Flushes(p)
    BY <2>1 DEF Idle, Flushes
  <2>3. Put(k, tags) /\ done' = done /\ op[c] = Idle /\ sets' = sets
    BY <1>3 DEF TaggedSet, Put
  <2>4. Sole' /\ Memory!Store(k, tags)
    BY <2>1, <2>2, <2>3, <1>1, PutStores
  <2>5. Index = sets /\ Index' = sets \cup (tags \X {k})
    BY <2>1, <2>2, <2>3, <1>1, Views DEF Listed
  <2>6. Loading' = Loading
    <3>1. Loading = Loads(c, Idle) /\ Loading' = Loads(c, p)
      BY <2>1, <2>3, Views
    <3> QED BY <3>1, <2>2, <1>1 DEF Loads
  <2> QED BY <2>4, <2>5, <2>6 DEF Memory!TaggedSet, Memory!Tagged
<1>4. ASSUME RememberStore(c)
      PROVE  Sole' /\ Memory!RememberStore(c)
  <2>1. op[c].step = "load" /\ op[c].key \in Keys
    BY <1>4 DEF RememberStore, Alone, AllFormed, Formed
  <2>2. /\ Put(op[c].key, {}) /\ done' = done \cup {writes + 1}
        /\ op' = [op EXCEPT ![c] = Idle] /\ sets' = sets
    BY <1>4 DEF RememberStore, Return, Put
  <2>3. Sole' /\ Memory!Store(op[c].key, {})
    BY <2>1, <2>2, <1>1, PutStores
  <2>4. Index' = Index
    BY <2>1, <2>2, <1>1, Views DEF Listed, Flushes
  <2>5. Loading[c] = op[c].key /\ op[c].key # None
    BY <2>1, <2>2, Views, RedisAssumption DEF Loads
  <2>6. Loading' = [Loading EXCEPT ![c] = None]
    <3>1. Loading = Loads(c, op[c]) /\ Loading' = Loads(c, Idle)
      BY <2>2, Views
    <3> QED BY <3>1, <2>1, <1>1 DEF Loads
  <2> QED BY <2>3, <2>4, <2>5, <2>6 DEF Memory!RememberStore
<1> QED BY <1>2, <1>3, <1>4 DEF Memory!Next

LEMMA AddTagLikeMemory ==
  ASSUME NEW c \in Clients, Alone(c), NEW t \in Tags, AddTag(c, t)
  PROVE  Sole' /\ UNCHANGED Memory!vars
<1>1. PICK w, k, tags : w = op[c].write /\ k = op[c].key /\ tags = op[c].tags
  OBVIOUS
<1>2. /\ op[c].step = "tag" /\ t \in tags /\ sets' = sets \cup {<<t, k>>}
      /\ UNCHANGED <<kv, writes, labels, disturbed, flushed>>
      /\ op[c].doomed = {} /\ TypeOK /\ ~Flushes(op[c])
  BY <1>1 DEF AddTag, Alone, Settled, Flushes
<1>3. PICK p : /\ op' = [op EXCEPT ![c] = p] /\ p.doomed = {} /\ ~Flushes(p) /\ p.step # "load"
               /\ \/ p.step = "idle" /\ tags = {t} /\ done' = done \cup {w}
                  \/ p.step = "tag" /\ p.write = w /\ p.tags = tags \ {t} /\ p.key = k /\ done' = done
  <2>1. CASE tags = {t}
    <3>1. op' = [op EXCEPT ![c] = Idle] /\ done' = done \cup {w}
      BY <2>1, <1>1 DEF AddTag, Return
    <3>2. Idle.step = "idle" /\ Idle.doomed = {} /\ ~Flushes(Idle)
      BY DEF Idle, Flushes
    <3> QED BY <2>1, <3>1, <3>2
  <2>2. CASE tags # {t}
    <3>1. PICK p : p = [op[c] EXCEPT !.tags = tags \ {t}]
      OBVIOUS
    <3>2. op' = [op EXCEPT ![c] = p] /\ done' = done
      BY <2>2, <3>1, <1>1, <1>2 DEF AddTag, TypeOK
    <3>3. /\ p.step = "tag" /\ p.write = w /\ p.tags = tags \ {t} /\ p.key = k /\ p.doomed = {}
          /\ ~Flushes(p)
      BY <3>1, <1>1, <1>2 DEF TypeOK, Flushes
    <3> QED BY <3>2, <3>3
  <2> QED BY <2>1, <2>2
<1>4. Sole'
  <2>1. Settled(p)
    BY <1>3 DEF Settled, Flushes
  <2>2. \A v \in 1..writes' : v \in done' \/ (p.step = "tag" /\ p.write = v)
    BY <1>1, <1>2, <1>3 DEF Alone
  <2> QED BY <1>3, <2>1, <2>2, AloneStaysSole
<1>5. Entries' = Entries
  <2>1. Entries = Seen(kv, sets, op[c]) /\ Entries' = Seen(kv', sets', p)
    BY <1>3, Views
  <2> QED BY <2>1, <1>2, <1>3 DEF Seen
<1>6. Index' = Index
  <2>1. Index = sets \cup (tags \X {k})
    BY <1>1, <1>2, <1>3, Views DEF Listed
  <2>2. Index' = sets' \cup (IF p.step = "tag" THEN p.tags \X {k} ELSE {})
    BY <1>3, Views DEF Listed
  <2>3. sets \cup (tags \X {k}) = sets' \cup (IF p.step = "tag" THEN p.tags \X {k} ELSE {})
    BY <1>2, <1>3
  <2> QED BY <2>1, <2>2, <2>3
<1>7. Loading' = Loading /\ Removed' = Removed
  BY <1>2, <1>3, Views DEF Loads
<1> QED BY <1>2, <1>4, <1>5, <1>6, <1>7 DEF Memory!vars

(* A flush takes effect when it begins.                                    *)
LEMMA StartFlushLikeMemory ==
  ASSUME NEW c \in Clients, Alone(c), NEW tags \in SUBSET Tags, StartFlush(c, tags)
  PROVE  Sole' /\ Memory!FlushTags(tags)
<1>1. PICK doomed : doomed = {w \in done : labels[w] \cap tags # {}}
  OBVIOUS
<1>2. PICK p : /\ p = [Idle EXCEPT !.step = "members", !.tags = tags, !.doomed = doomed]
               /\ op' = [op EXCEPT ![c] = p]
  BY <1>1 DEF StartFlush
<1>3. /\ p.step = "members" /\ p.tags = tags /\ p.found = {} /\ p.doomed = doomed
      /\ Idle.step = "idle" /\ Idle.doomed = {} /\ Flushes(p) /\ ~Flushes(Idle)
  BY <1>2 DEF Idle, Flushes
<1>4. op[c] = Idle /\ UNCHANGED <<kv, sets, writes, labels, done, flushed>>
  BY DEF StartFlush
<1>5. \A w \in 1..writes : w \in done
  BY <1>3, <1>4 DEF Alone
<1>6. Sole'
  BY <1>2, <1>3, <1>4, <1>5, AloneStaysSole DEF Settled
<1>7. doomed = {w \in 1..writes : labels[w] \cap tags # {}}
  BY <1>1, <1>5 DEF Alone, TypeOK
<1>8. Removed' = Removed \cup doomed
  <2>1. Removed = flushed \cup Idle.doomed /\ Removed' = flushed' \cup p.doomed
    BY <1>2, <1>4, Views
  <2> QED BY <2>1, <1>3, <1>4
<1>9. Entries = kv /\ Index = sets /\ Loading' = Loading
  <2>1. Entries = Seen(kv, sets, Idle) /\ Index = Listed(sets, Idle)
    BY <1>2, <1>4, Views
  <2>2. Loading = Loads(c, Idle) /\ Loading' = Loads(c, p)
    BY <1>2, <1>4, Views
  <2> QED BY <2>1, <2>2, <1>3, Shown DEF Alone, Loads
<1>10. Entries' = [k \in Keys |-> IF \E t \in tags : <<t, k>> \in sets THEN None ELSE kv[k]]
  <2>1. Entries' = Seen(kv, sets, p)
    BY <1>2, <1>4, Views
  <2>2. \A k \in Keys : k \in Hidden(sets, p) <=> \E t \in tags : <<t, k>> \in sets
    BY <1>3 DEF Hidden
  <2> QED BY <2>1, <2>2, <1>3 DEF Seen
<1>11. Index' = {e \in sets : e[1] \notin tags}
  <2>1. Index' = Listed(sets, p)
    BY <1>2, <1>4, Views
  <2> QED BY <2>1, <1>3 DEF Listed
<1>12. Memory!Gone({k \in Keys : \E t \in tags : <<t, k>> \in Index}) = Entries'
  BY <1>9, <1>10 DEF Memory!Gone
<1> QED BY <1>4, <1>6, <1>7, <1>8, <1>9, <1>11, <1>12 DEF Memory!FlushTags

(* Then its commands, one after the other, change nothing that is seen.    *)
LEMMA ReadMembersLikeMemory ==
  ASSUME NEW c \in Clients, Alone(c), NEW t \in Tags, ReadMembers(c, t)
  PROVE  Sole' /\ UNCHANGED Memory!vars
<1>1. PICK step : step = IF Members(t) = {} THEN "untag" ELSE "delete"
  OBVIOUS
<1>2. PICK p : /\ p = [op[c] EXCEPT !.step = step, !.key = t, !.found = Members(t)]
               /\ op' = [op EXCEPT ![c] = p]
  BY <1>1 DEF ReadMembers, Alone, TypeOK
<1>3. /\ op[c].step = "members" /\ t \in op[c].tags /\ op[c].found = {}
      /\ UNCHANGED <<kv, sets, writes, labels, done, disturbed, flushed>>
  BY DEF ReadMembers, Alone, Settled
<1>4. /\ p.step = step /\ p.key = t /\ p.tags = op[c].tags /\ p.found = Members(t)
      /\ p.doomed = op[c].doomed
  BY <1>2 DEF Alone, TypeOK
<1>5. Flushes(op[c]) /\ Flushes(p) /\ step \in {"untag", "delete"}
  BY <1>1, <1>3, <1>4 DEF Flushes
<1>6. Sole'
  <2>1. Settled(p)
    BY <1>1, <1>4 DEF Settled
  <2>2. \A w \in 1..writes' : w \in done'
    BY <1>3 DEF Alone
  <2> QED BY <1>2, <2>1, <2>2, AloneStaysSole
<1>7. Hidden(sets, op[c]) = Hidden(sets, p)
  BY <1>3, <1>4, <1>5 DEF Hidden, Members
<1>8. Entries' = Entries
  <2>1. Entries = Seen(kv, sets, op[c]) /\ Entries' = Seen(kv, sets, p)
    BY <1>2, <1>3, Views
  <2> QED BY <2>1, <1>5, <1>7 DEF Seen
<1>9. Index' = Index
  <2>1. Index = Listed(sets, op[c]) /\ Index' = Listed(sets, p)
    BY <1>2, <1>3, Views
  <2> QED BY <2>1, <1>4, <1>5 DEF Listed
<1>10. Loading' = Loading /\ Removed' = Removed
  <2>1. Loading = Loads(c, op[c]) /\ Loading' = Loads(c, p)
    BY <1>2, Views
  <2>2. Removed = flushed \cup op[c].doomed /\ Removed' = flushed \cup p.doomed
    BY <1>2, <1>3, Views
  <2> QED BY <2>1, <2>2, <1>3, <1>4, <1>5 DEF Loads
<1> QED BY <1>3, <1>6, <1>8, <1>9, <1>10 DEF Memory!vars

LEMMA DeleteFoundLikeMemory ==
  ASSUME NEW c \in Clients, Alone(c), DeleteFound(c)
  PROVE  Sole' /\ UNCHANGED Memory!vars
<1>1. PICK p : /\ p = [op[c] EXCEPT !.step = "untag", !.found = {}]
               /\ op' = [op EXCEPT ![c] = p]
  BY DEF DeleteFound, Alone, TypeOK
<1>2. /\ op[c].step = "delete" /\ kv' = Without(op[c].found)
      /\ UNCHANGED <<sets, writes, labels, done, disturbed, flushed>>
  BY DEF DeleteFound
<1>3. /\ p.step = "untag" /\ p.key = op[c].key /\ p.tags = op[c].tags /\ p.found = {}
      /\ p.doomed = op[c].doomed
  BY <1>1 DEF Alone, TypeOK
<1>4. Flushes(op[c]) /\ Flushes(p)
  BY <1>2, <1>3 DEF Flushes
<1>5. Sole'
  <2>1. Settled(p)
    BY <1>3 DEF Settled
  <2>2. \A w \in 1..writes' : w \in done'
    BY <1>2 DEF Alone
  <2> QED BY <1>1, <2>1, <2>2, AloneStaysSole
<1>6. Entries' = Entries
  <2>1. Entries = Seen(kv, sets, op[c]) /\ Entries' = Seen(kv', sets, p)
    BY <1>1, <1>2, Views
  <2>2. \A k \in Keys : k \in Hidden(sets, op[c]) <=> k \in op[c].found \/ k \in Hidden(sets, p)
    BY <1>2, <1>3 DEF Hidden
  <2>3. \A k \in Keys : kv'[k] = IF k \in op[c].found THEN None ELSE kv[k]
    BY <1>2, WithoutTyped DEF Alone
  <2> QED BY <2>1, <2>2, <2>3, <1>4 DEF Seen
<1>7. Index' = Index
  <2>1. Index = Listed(sets, op[c]) /\ Index' = Listed(sets, p)
    BY <1>1, <1>2, Views
  <2> QED BY <2>1, <1>3, <1>4 DEF Listed
<1>8. Loading' = Loading /\ Removed' = Removed
  <2>1. Loading = Loads(c, op[c]) /\ Loading' = Loads(c, p)
    BY <1>1, Views
  <2>2. Removed = flushed \cup op[c].doomed /\ Removed' = flushed \cup p.doomed
    BY <1>1, <1>2, Views
  <2> QED BY <2>1, <2>2, <1>2, <1>3 DEF Loads
<1> QED BY <1>2, <1>5, <1>6, <1>7, <1>8 DEF Memory!vars

LEMMA DeleteTagLikeMemory ==
  ASSUME NEW c \in Clients, Alone(c), DeleteTag(c)
  PROVE  Sole' /\ UNCHANGED Memory!vars
<1>1. PICK t, tags, doomed : t = op[c].key /\ tags = op[c].tags /\ doomed = op[c].doomed
  OBVIOUS
<1>2. /\ op[c].step = "untag" /\ sets' = {e \in sets : e[1] # t}
      /\ UNCHANGED <<kv, writes, labels, done, disturbed>>
      /\ op[c].found = {} /\ t \in tags /\ Flushes(op[c])
  BY <1>1 DEF DeleteTag, Untagged, Alone, Settled, AllFormed, Formed, Flushes
<1>3. PICK p : /\ op' = [op EXCEPT ![c] = p]
               /\ \/ p = Idle /\ tags = {t} /\ flushed' = flushed \cup doomed
                  \/ /\ p.step = "members" /\ p.key = None /\ p.tags = tags \ {t}
                     /\ p.doomed = doomed /\ p.found = {} /\ flushed' = flushed
  <2>1. CASE tags = {t}
    BY <2>1, <1>1 DEF DeleteTag, Return
  <2>2. CASE tags # {t}
    <3>1. PICK p : p = [op[c] EXCEPT !.step = "members", !.key = None, !.tags = tags \ {t}]
      OBVIOUS
    <3>2. op' = [op EXCEPT ![c] = p] /\ flushed' = flushed
      BY <2>2, <3>1, <1>1 DEF DeleteTag, Alone, TypeOK
    <3>3. /\ p.step = "members" /\ p.key = None /\ p.tags = tags \ {t} /\ p.doomed = doomed
          /\ p.found = {}
      BY <3>1, <1>1, <1>2 DEF Alone, TypeOK
    <3> QED BY <3>2, <3>3
  <2> QED BY <2>1, <2>2
<1>4. Sole'
  <2>1. Settled(p)
    BY <1>3 DEF Settled, Idle
  <2>2. \A w \in 1..writes' : w \in done'
    BY <1>2 DEF Alone
  <2> QED BY <1>3, <2>1, <2>2, AloneStaysSole
<1>5. /\ Entries = Seen(kv, sets, op[c]) /\ Entries' = Seen(kv, sets', p)
      /\ Index = Listed(sets, op[c]) /\ Index' = Listed(sets', p)
      /\ Loading = Loads(c, op[c]) /\ Loading' = Loads(c, p)
      /\ Removed = flushed \cup doomed /\ Removed' = flushed' \cup p.doomed
  BY <1>1, <1>2, <1>3, Views
<1>6. \A k \in Keys : k \in Hidden(sets, op[c]) <=> \E s \in tags \ {t} : <<s, k>> \in sets
  BY <1>1, <1>2 DEF Hidden
<1>7. CASE p = Idle /\ tags = {t} /\ flushed' = flushed \cup doomed
  <2>1. ~Flushes(p) /\ p.step = "idle" /\ p.doomed = {}
    BY <1>7 DEF Flushes, Idle
  <2>2. Entries' = Entries
    BY <2>1, <1>2, <1>5, <1>6, <1>7 DEF Seen
  <2>3. Index' = Index
    BY <2>1, <1>1, <1>2, <1>5, <1>7 DEF Listed
  <2>4. Loading' = Loading /\ Removed' = Removed
    BY <2>1, <1>2, <1>5, <1>7 DEF Loads
  <2> QED BY <1>2, <1>4, <2>2, <2>3, <2>4 DEF Memory!vars
<1>8. CASE /\ p.step = "members" /\ p.key = None /\ p.tags = tags \ {t}
           /\ p.doomed = doomed /\ p.found = {} /\ flushed' = flushed
  <2>1. Flushes(p)
    BY <1>8 DEF Flushes
  <2>2. \A k \in Keys : k \in Hidden(sets', p) <=> k \in Hidden(sets, op[c])
    BY <1>2, <1>6, <1>8 DEF Hidden
  <2>3. Entries' = Entries
    BY <2>1, <2>2, <1>2, <1>5 DEF Seen
  <2>4. Index' = Index
    BY <2>1, <1>1, <1>2, <1>5, <1>8 DEF Listed
  <2>5. Loading' = Loading /\ Removed' = Removed
    BY <1>2, <1>5, <1>8 DEF Loads
  <2> QED BY <1>2, <1>4, <2>3, <2>4, <2>5 DEF Memory!vars
<1> QED BY <1>3, <1>7, <1>8

(* The calls of one command.                                               *)
LEMMA SingleLikeMemory ==
  ASSUME NEW c \in Clients, Alone(c),
         (\E k \in Keys : Forget(c, k) \/ RememberMiss(c, k)) \/ Flush(c) \/ RememberFails(c)
  PROVE  Sole' /\ Memory!Next
<1>1. PICK p : /\ op' = [op EXCEPT ![c] = p] /\ ~Flushes(p) /\ p.step # "tag" /\ p.doomed = {}
               /\ \/ ((\E k \in Keys : Forget(c, k)) \/ Flush(c)) /\ p = op[c]
                  \/ \E k \in Keys : /\ RememberMiss(c, k) /\ p.step = "load" /\ p.key = k
                  \/ RememberFails(c) /\ p.step = "idle"
  <2>1. Idle.step = "idle" /\ Idle.doomed = {} /\ ~Flushes(Idle)
    BY DEF Idle, Flushes
  <2>2. CASE (\E k \in Keys : Forget(c, k)) \/ Flush(c)
    <3>1. op[c] = Idle /\ op' = [op EXCEPT ![c] = Idle]
      BY <2>2 DEF Forget, Flush, Alone, TypeOK
    <3> QED BY <2>1, <2>2, <3>1
  <2>3. ASSUME NEW k \in Keys, RememberMiss(c, k)
        PROVE  \E p : /\ op' = [op EXCEPT ![c] = p] /\ ~Flushes(p) /\ p.doomed = {}
                      /\ p.step = "load" /\ p.key = k
    <3>1. PICK p : p = [Idle EXCEPT !.step = "load", !.key = k] /\ op' = [op EXCEPT ![c] = p]
      BY <2>3 DEF RememberMiss
    <3>2. p.step = "load" /\ p.key = k /\ p.doomed = {} /\ ~Flushes(p)
      BY <3>1 DEF Idle, Flushes
    <3> QED BY <3>1, <3>2
  <2>4. CASE RememberFails(c)
    BY <2>1, <2>4 DEF RememberFails, Return
  <2> QED BY <2>2, <2>3, <2>4
<1>2. /\ op[c].step \in {"idle", "load"} /\ op[c].doomed = {} /\ ~Flushes(op[c]) /\ TypeOK
      /\ UNCHANGED <<writes, labels, done, disturbed>>
  <2>1. op[c] = Idle \/ op[c].step = "load"
    BY DEF Forget, Flush, RememberMiss, RememberFails
  <2>2. op[c].step \in {"idle", "load"}
    BY <2>1 DEF Idle
  <2>3. UNCHANGED <<writes, labels, done, disturbed>>
    BY DEF Forget, Flush, RememberMiss, RememberFails
  <2> QED BY <2>2, <2>3 DEF Alone, Settled, Flushes
<1>3. Sole'
  <2>1. Settled(p)
    BY <1>1 DEF Settled, Flushes
  <2>2. \A w \in 1..writes' : w \in done'
    BY <1>2 DEF Alone
  <2> QED BY <1>1, <2>1, <2>2, AloneStaysSole
<1>4. /\ Entries = kv /\ Index = sets /\ Loading = Loads(c, op[c]) /\ Removed = flushed
      /\ Entries' = [x \in Keys |-> kv'[x]] /\ Index' = sets' /\ Loading' = Loads(c, p)
      /\ Removed' = flushed'
  <2>1. /\ Entries = Seen(kv, sets, op[c]) /\ Index = Listed(sets, op[c])
        /\ Removed = flushed \cup op[c].doomed
        /\ Entries' = Seen(kv', sets', p) /\ Index' = Listed(sets', p)
        /\ Removed' = flushed' \cup p.doomed
        /\ Loading = Loads(c, op[c]) /\ Loading' = Loads(c, p)
    BY <1>1, Views
  <2> QED BY <2>1, <1>1, <1>2, Shown DEF Seen, Listed
<1>5. ASSUME NEW k \in Keys, Forget(c, k), p = op[c]
      PROVE  Memory!Forget(k)
  <2>1. kv' = Without({k}) /\ UNCHANGED <<sets, flushed>>
    BY <1>5 DEF Forget
  <2>2. Entries' = Memory!Gone({k})
    BY <2>1, <1>4 DEF Memory!Gone, Without
  <2> QED BY <2>1, <2>2, <1>2, <1>4, <1>5 DEF Memory!Forget
<1>6. ASSUME Flush(c), p = op[c]
      PROVE  Memory!Flush
  <2>1. kv' = Without(Keys) /\ sets' = {} /\ flushed' = flushed \cup done
    BY <1>6 DEF Flush
  <2>2. Entries' = Memory!Gone(Keys)
    BY <2>1, <1>4 DEF Memory!Gone, Without
  <2>3. done = 1..writes
    BY <1>2 DEF Alone, TypeOK
  <2> QED BY <2>1, <2>2, <2>3, <1>2, <1>4, <1>6 DEF Memory!Flush
<1>7. ASSUME NEW k \in Keys, RememberMiss(c, k), p.step = "load", p.key = k
      PROVE  Memory!RememberMiss(c, k)
  <2>1. op[c].step = "idle" /\ kv[k] = None /\ UNCHANGED <<kv, sets, flushed>>
    <3>1. op[c] = Idle /\ kv[k] = None /\ UNCHANGED <<kv, sets, flushed>>
      BY <1>7 DEF RememberMiss
    <3> QED BY <3>1 DEF Idle
  <2>2. Loading[c] = None /\ Loading' = [Loading EXCEPT ![c] = k]
    BY <2>1, <1>4, <1>7 DEF Loads
  <2>3. Entries' = Entries
    BY <2>1, <1>2, <1>4 DEF TypeOK
  <2> QED BY <2>1, <2>2, <2>3, <1>2, <1>4 DEF Memory!RememberMiss
<1>8. ASSUME RememberFails(c), p.step = "idle"
      PROVE  Memory!RememberFails(c)
  <2>1. op[c].step = "load" /\ UNCHANGED <<kv, sets, flushed>>
    BY <1>8 DEF RememberFails
  <2>2. op[c].key \in Keys /\ op[c].key # None
    BY <2>1, RedisAssumption DEF Alone, AllFormed, Formed
  <2>3. Loading[c] # None /\ Loading' = [Loading EXCEPT ![c] = None]
    BY <2>1, <2>2, <1>4, <1>8 DEF Loads
  <2>4. Entries' = Entries
    BY <2>1, <1>2, <1>4 DEF TypeOK
  <2> QED BY <2>1, <2>3, <2>4, <1>2, <1>4 DEF Memory!RememberFails
<1> QED BY <1>1, <1>3, <1>5, <1>6, <1>7, <1>8 DEF Memory!Next

(* An entry may expire at any moment, whichever call is in progress.       *)
LEMMA ExpireLikeMemory ==
  ASSUME TypeOK, Sole, NEW k \in Keys, Expire(k), alone' = alone
  PROVE  Sole' /\ Memory!Next
<1>1. kv' = Without({k}) /\ UNCHANGED <<sets, op, writes, labels, done, disturbed, flushed>>
  BY DEF Expire
<1>2. Sole'
  BY <1>1 DEF Sole
<1>3. \A x \in Keys : kv'[x] = IF x = k THEN None ELSE kv[x]
  BY <1>1, WithoutTyped
<1>4. Entries' = Memory!Gone({k})
  BY <1>1, <1>3 DEF Entries, Flushers, Flushing, Members, Memory!Gone
<1>5. Index' = Index /\ Loading' = Loading /\ Removed' = Removed
  BY <1>1 DEF Index, Flushers, Flushing, Pending, Loading, Removed
<1> QED BY <1>1, <1>2, <1>4, <1>5 DEF Memory!Next, Memory!Expire, Memory!Forget

LEMMA StepLikeMemory ==
  ASSUME TypeOK, AllFormed, Sole, [Next]_vars
  PROVE  Sole' /\ [alone' => [Memory!Next]_(Memory!vars)]_vars
<1>1. ASSUME NEW c \in Clients, Call(c), alone' = (alone /\ \A d \in Clients \ {c} : op[d] = Idle)
      PROVE  Sole' /\ (alone' => [Memory!Next]_(Memory!vars))
  <2>1. CASE ~alone'
    BY <2>1 DEF Sole
  <2>2. CASE alone'
    <3>1. Alone(c)
      BY <2>2, <1>1, SoleIsAlone
    <3> QED BY <3>1, <1>1, StoresLikeMemory, AddTagLikeMemory, StartFlushLikeMemory,
               ReadMembersLikeMemory, DeleteFoundLikeMemory, DeleteTagLikeMemory,
               SingleLikeMemory DEF Call, Memory!Next
  <2> QED BY <2>1, <2>2
<1>2. ASSUME NEW c \in Clients, CommandFails(c), alone' = FALSE
      PROVE  Sole' /\ (alone' => [Memory!Next]_(Memory!vars))
  BY <1>2 DEF Sole
<1>3. CASE UNCHANGED vars
  BY <1>3 DEF vars, Sole
<1> QED BY <1>1, <1>2, <1>3, ExpireLikeMemory DEF Next

LEMMA StartLikeMemory ==
  ASSUME Init
  PROVE  Sole /\ Memory!Init
<1>1. /\ \A c \in Clients : op[c] = Idle
      /\ Idle.step = "idle" /\ Idle.found = {} /\ Idle.doomed = {}
  BY DEF Init, Idle
<1>2. Sole
  BY <1>1 DEF Init, Sole, Settled
<1>3. Entries = [k \in Keys |-> None] /\ Index = {} /\ Removed = {}
  BY <1>1 DEF Init, Entries, Flushers, Flushing, Index, Pending, Removed
<1>4. Loading = [c \in Clients |-> None]
  BY <1>1 DEF Loading
<1> QED BY <1>2, <1>3, <1>4 DEF Init, Memory!Init, Writes, Memory!Writes

(* As long as calls do not overlap and no command fails, what the Redis    *)
(* store does command by command is what the in-memory store does: a       *)
(* caller cannot tell which of the two is configured.                      *)
THEOREM LikeTheArrayStore == Spec => AloneLikeArrayStore
<1>1. Init => Sole /\ Memory!Init
  BY StartLikeMemory
<1>2. TypeOK /\ AllFormed /\ Sole /\ [Next]_vars
        => Sole' /\ [alone' => [Memory!Next]_(Memory!vars)]_vars
  BY StepLikeMemory
<1> QED BY <1>1, <1>2, AlwaysFormed, PTL DEF Spec, AloneLikeArrayStore
=============================================================================
