------------------------------ MODULE RedisStore ------------------------------
(***************************************************************************)
(* The Redis cache store of the framework (cache/stores/redis-store).      *)
(*                                                                         *)
(* Redis executes one command at a time; between two commands of one call  *)
(* the commands of other callers and other servers may run, and a command  *)
(* may fail, which ends the call.  A call of the store is the state of one *)
(* client.  Values are told apart by the number of the write that stored   *)
(* them; an entry with a TTL may expire at any moment.                     *)
(***************************************************************************)
EXTENDS Naturals

CONSTANTS Clients,       \* calls of the store at a time, on any server
          Keys, Tags,
          MaxWrites,     \* bound on the writes of a behaviour
          CommandsFail,  \* may a command fail?
          None           \* no entry, no key

ASSUME RedisAssumption == /\ MaxWrites \in Nat
                          /\ CommandsFail \in BOOLEAN
                          /\ None \notin Keys
                          /\ None \notin Nat

VARIABLES kv,        \* key -> the write its entry holds, or None
          sets,      \* pairs <<tag, key>>: the sets behind the tags
          op,        \* client -> its call in progress
          writes,    \* writes so far
          labels,    \* write -> the tags its set was called with
          done,      \* writes whose set has returned
          disturbed, \* writes with a flush of one of their tags beside them
          flushed,   \* writes done before a flush of their tags that is over
          alone      \* no two calls overlapped and no command failed so far

vars == <<kv, sets, op, writes, labels, done, disturbed, flushed, alone>>

Writes == 1..MaxWrites

(* A call: the command it is at, the tags it has still to do, its write,   *)
(* the keys SMEMBERS answered, and the writes a flush has to remove.       *)
Idle == [step |-> "idle", key |-> None, tags |-> {}, write |-> 0,
         found |-> {}, doomed |-> {}]

Init == /\ kv = [k \in Keys |-> None]
        /\ sets = {}
        /\ op = [c \in Clients |-> Idle]
        /\ writes = 0
        /\ labels = [w \in Writes |-> {}]
        /\ done = {}
        /\ disturbed = {}
        /\ flushed = {}
        /\ alone = TRUE

Flushing(c) == op[c].step \in {"members", "delete", "untag"}

Return(c) == op' = [op EXCEPT ![c] = Idle]

(* Writes of sets that are still adding one of these tags.                 *)
Adding(tags) == {op[c].write : c \in {d \in Clients : /\ op[d].step = "tag"
                                                      /\ op[d].tags \cap tags # {}}}

(* rawSet: the SET command.                                                *)
Put(k, tags) ==
  /\ writes < MaxWrites
  /\ writes' = writes + 1
  /\ kv' = [kv EXCEPT ![k] = writes + 1]
  /\ labels' = [labels EXCEPT ![writes + 1] = tags]
  /\ disturbed' = IF \E c \in Clients : Flushing(c) /\ op[c].tags \cap tags # {}
                  THEN disturbed \cup {writes + 1} ELSE disturbed
  /\ UNCHANGED <<sets, flushed>>

Set(c, k) == /\ op[c] = Idle
             /\ Put(k, {})
             /\ done' = done \cup {writes + 1}
             /\ UNCHANGED op

TaggedSet(c, k, tags) ==
  /\ op[c] = Idle
  /\ Put(k, tags)
  /\ op' = [op EXCEPT ![c] = [Idle EXCEPT !.step = "tag", !.key = k,
                                          !.tags = tags, !.write = writes + 1]]
  /\ UNCHANGED done

(* SADD, for the next tag of the call.                                     *)
AddTag(c, t) ==
  /\ op[c].step = "tag" /\ t \in op[c].tags
  /\ sets' = sets \cup {<<t, op[c].key>>}
  /\ IF op[c].tags = {t}
     THEN Return(c) /\ done' = done \cup {op[c].write}
     ELSE op' = [op EXCEPT ![c].tags = @ \ {t}] /\ UNCHANGED done
  /\ UNCHANGED <<kv, writes, labels, disturbed, flushed>>

StartFlush(c, tags) ==
  /\ op[c] = Idle
  /\ op' = [op EXCEPT ![c] = [Idle EXCEPT !.step = "members", !.tags = tags,
                                          !.doomed = {w \in done : labels[w] \cap tags # {}}]]
  /\ disturbed' = disturbed \cup Adding(tags)
  /\ UNCHANGED <<kv, sets, writes, labels, done, flushed>>

(* What SMEMBERS answers.                                                  *)
Members(t) == {k \in Keys : <<t, k>> \in sets}

(* SMEMBERS of the next tag; the keys it answers are deleted later.  While *)
(* the tag is worked on it is the call's key.                              *)
ReadMembers(c, t) ==
  /\ op[c].step = "members" /\ t \in op[c].tags
  /\ op' = [op EXCEPT ![c].step = IF Members(t) = {} THEN "untag" ELSE "delete",
                      ![c].key = t, ![c].found = Members(t)]
  /\ UNCHANGED <<kv, sets, writes, labels, done, disturbed, flushed>>

(* Mutant of Without: the entries are blanked instead of deleted.          *)
WithoutBlank(keys) == [k \in Keys |-> IF k \in keys THEN 0 ELSE kv[k]]

(* Mutant of Without: the set's keys are prefixed twice and never found.   *)
WithoutPrefixedTwice(keys) == kv

(* The entries after a DEL of keys.                                        *)
Without(keys) == [k \in Keys |-> IF k \in keys THEN None ELSE kv[k]]

DeleteFound(c) ==
  /\ op[c].step = "delete"
  /\ kv' = Without(op[c].found)
  /\ op' = [op EXCEPT ![c].step = "untag", ![c].found = {}]
  /\ UNCHANGED <<sets, writes, labels, done, disturbed, flushed>>

(* Mutant of Untagged: the tag's set is kept.                              *)
UntaggedKept(t) == sets

(* The sets after a DEL of the tag's set.                                  *)
Untagged(t) == {p \in sets : p[1] # t}

(* DEL of the tag's set, whatever it holds by now; the flush goes on with  *)
(* the next tag or returns.                                                *)
DeleteTag(c) ==
  /\ op[c].step = "untag"
  /\ sets' = Untagged(op[c].key)
  /\ IF op[c].tags = {op[c].key}
     THEN Return(c) /\ flushed' = flushed \cup op[c].doomed
     ELSE /\ op' = [op EXCEPT ![c].step = "members", ![c].key = None,
                              ![c].tags = @ \ {op[c].key}]
          /\ UNCHANGED flushed
  /\ UNCHANGED <<kv, writes, labels, done, disturbed>>

Forget(c, k) == /\ op[c] = Idle
                /\ kv' = Without({k})
                /\ UNCHANGED <<sets, op, writes, labels, done, disturbed, flushed>>

(* flush empties the whole database, tags included.                        *)
Flush(c) == /\ op[c] = Idle
            /\ kv' = Without(Keys)
            /\ sets' = {}
            /\ flushed' = flushed \cup done
            /\ UNCHANGED <<op, writes, labels, done, disturbed>>

(* remember found nothing and awaits the caller's function.                *)
RememberMiss(c, k) ==
  /\ op[c] = Idle
  /\ kv[k] = None
  /\ op' = [op EXCEPT ![c] = [Idle EXCEPT !.step = "load", !.key = k]]
  /\ UNCHANGED <<kv, sets, writes, labels, done, disturbed, flushed>>

RememberStore(c) == /\ op[c].step = "load"
                    /\ Put(op[c].key, {})
                    /\ done' = done \cup {writes + 1}
                    /\ Return(c)

(* The caller's function rejects.                                          *)
RememberFails(c) == /\ op[c].step = "load"
                    /\ Return(c)
                    /\ UNCHANGED <<kv, sets, writes, labels, done, disturbed, flushed>>

(* A command of a call fails; the call rejects and what it did stays.      *)
CommandFails(c) == /\ CommandsFail
                   /\ op[c].step \notin {"idle", "load"}
                   /\ Return(c)
                   /\ UNCHANGED <<kv, sets, writes, labels, done, disturbed, flushed>>

(* Redis removes an expired entry.                                         *)
Expire(k) == /\ kv[k] # None
             /\ kv' = Without({k})
             /\ UNCHANGED <<sets, op, writes, labels, done, disturbed, flushed>>

(* A step of a call.                                                       *)
Call(c) ==
  \/ \E k \in Keys : \/ Set(c, k) \/ Forget(c, k) \/ RememberMiss(c, k)
                     \/ \E tags \in SUBSET Tags \ {{}} : TaggedSet(c, k, tags)
  \/ \E tags \in SUBSET Tags \ {{}} : StartFlush(c, tags)
  \/ \E t \in Tags : AddTag(c, t) \/ ReadMembers(c, t)
  \/ DeleteFound(c) \/ DeleteTag(c) \/ Flush(c)
  \/ RememberStore(c) \/ RememberFails(c)

Next ==
  \/ \E c \in Clients : /\ Call(c)
                        /\ alone' = (alone /\ \A d \in Clients \ {c} : op[d] = Idle)
  \/ \E c \in Clients : CommandFails(c) /\ alone' = FALSE
  \/ \E k \in Keys : Expire(k) /\ UNCHANGED alone

Spec == Init /\ [][Next]_vars

-----------------------------------------------------------------------------
(* The types of the tables and of the calls in progress.                   *)
TypeOK ==
  /\ kv \in [Keys -> (1..writes) \cup {None}]
  /\ sets \in SUBSET (Tags \X Keys)
  /\ op \in [Clients -> [step: {"idle", "tag", "members", "delete", "untag", "load"},
                         key: Keys \cup Tags \cup {None}, tags: SUBSET Tags,
                         write: 0..writes, found: SUBSET Keys, doomed: SUBSET done]]
  /\ writes \in 0..MaxWrites
  /\ labels \in [Writes -> SUBSET Tags]
  /\ done \in SUBSET (1..writes)
  /\ disturbed \in SUBSET (1..writes)
  /\ flushed \in SUBSET done
  /\ alone \in BOOLEAN

(* An entry whose set had returned before a flush of one of its tags began *)
(* is gone once that flush is over, and stays gone, whatever other calls   *)
(* did and whichever commands failed - if no flush of its tags was under   *)
(* way during its set.  (framework.md says it of every entry, disturbed    *)
(* ones included.  But a flush deletes a tag's set whole, with keys added  *)
(* since it read the members: no later flush finds those entries.)         *)
QuietFlushedStayGone == \A k \in Keys : kv[k] \notin flushed \ disturbed

-----------------------------------------------------------------------------
(* The in-memory store behind this one: a tagged set takes effect with its *)
(* SET, a flush when it begins.                                            *)
Pending(step) == {c \in Clients : op[c].step = step}

Flushers == {c \in Clients : Flushing(c)}

Entries ==
  [k \in Keys |->
     IF \E c \in Flushers : \/ k \in op[c].found
                            \/ /\ op[c].step = "members"
                               /\ \E t \in op[c].tags : k \in Members(t)
                            \/ /\ op[c].step # "members"
                               /\ \E t \in op[c].tags \ {op[c].key} : k \in Members(t)
     THEN None ELSE kv[k]]

Index == {p \in sets : \A c \in Flushers : p[1] \notin op[c].tags}
         \cup UNION {op[c].tags \X {op[c].key} : c \in Pending("tag")}

Loading == [c \in Clients |-> IF op[c].step = "load" THEN op[c].key ELSE None]

Removed == flushed \cup UNION {op[c].doomed : c \in Clients}

Memory == INSTANCE ArrayStore
            WITH cache <- Entries, tagIndex <- Index, loading <- Loading, flushed <- Removed

(* As long as calls do not overlap and no command fails, the Redis store,  *)
(* command by command, does what the in-memory store does.                 *)
AloneLikeArrayStore == Memory!Init /\ [][alone' => [Memory!Next]_(Memory!vars)]_vars
=============================================================================
