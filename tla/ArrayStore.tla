------------------------------ MODULE ArrayStore ------------------------------
(***************************************************************************)
(* The in-memory cache store of the framework (cache/stores/array-store).  *)
(*                                                                         *)
(* Its methods are async only in their signatures: each runs to its end in *)
(* one turn of the event loop, except remember, which awaits the caller's  *)
(* function between its lookup and its set.  Values are told apart by the  *)
(* number of the write that stored them; time is left out, so an entry     *)
(* with a TTL may be found expired at any moment.                          *)
(***************************************************************************)
EXTENDS Naturals

CONSTANTS Clients,    \* callers of remember at a time
          Keys, Tags,
          MaxWrites,  \* bound on the writes of a behaviour
          None        \* no entry, no key

ASSUME StoreAssumption == /\ MaxWrites \in Nat
                          /\ None \notin Keys
                          /\ None \notin Nat

VARIABLES cache,     \* key -> the write its entry holds, or None
          tagIndex,  \* pairs <<tag, key>>
          loading,   \* client -> the key its remember is loading, or None
          writes,    \* writes so far
          labels,    \* write -> the tags it was made under
          flushed    \* writes that a finished flush should have removed

vars == <<cache, tagIndex, loading, writes, labels, flushed>>

Writes == 1..MaxWrites

Init == /\ cache = [k \in Keys |-> None]
        /\ tagIndex = {}
        /\ loading = [c \in Clients |-> None]
        /\ writes = 0
        /\ labels = [w \in Writes |-> {}]
        /\ flushed = {}

(* rawSet.                                                                 *)
Store(k, tags) == /\ writes < MaxWrites
                  /\ writes' = writes + 1
                  /\ cache' = [cache EXCEPT ![k] = writes + 1]
                  /\ labels' = [labels EXCEPT ![writes + 1] = tags]
                  /\ UNCHANGED flushed

Set(k) == Store(k, {}) /\ UNCHANGED <<tagIndex, loading>>

(* Mutant of Tagged: the tag starts a new set of keys each time.           *)
TaggedAnew(k, tags) == {p \in tagIndex : p[1] \notin tags} \cup (tags \X {k})

(* The index once k has been stored under tags.                            *)
Tagged(k, tags) == tagIndex \cup (tags \X {k})

TaggedSet(k, tags) == /\ Store(k, tags)
                      /\ tagIndex' = Tagged(k, tags)
                      /\ UNCHANGED loading

(* The cache without these keys.                                           *)
Gone(keys) == [k \in Keys |-> IF k \in keys THEN None ELSE cache[k]]

(* forget keeps the key in the tags' sets.                                 *)
Forget(k) == /\ cache' = Gone({k})
             /\ UNCHANGED <<tagIndex, loading, writes, labels, flushed>>

(* An expired entry reads as missing, and the first read deletes it.       *)
Expire(k) == Forget(k)

Flush == /\ cache' = Gone(Keys)
         /\ tagIndex' = {}
         /\ flushed' = flushed \cup (1..writes)
         /\ UNCHANGED <<loading, writes, labels>>

(* tags(...).flush deletes the keys the tags' sets hold, and the sets.     *)
FlushTags(tags) ==
  /\ cache' = Gone({k \in Keys : \E t \in tags : <<t, k>> \in tagIndex})
  /\ tagIndex' = {p \in tagIndex : p[1] \notin tags}
  /\ flushed' = flushed \cup {w \in 1..writes : labels[w] \cap tags # {}}
  /\ UNCHANGED <<loading, writes, labels>>

(* remember found no entry and awaits the caller's function; other calls   *)
(* for the same key may be doing the same.                                 *)
RememberMiss(c, k) == /\ loading[c] = None
                      /\ cache[k] = None
                      /\ loading' = [loading EXCEPT ![c] = k]
                      /\ UNCHANGED <<cache, tagIndex, writes, labels, flushed>>

RememberStore(c) == /\ loading[c] # None
                    /\ Store(loading[c], {})
                    /\ loading' = [loading EXCEPT ![c] = None]
                    /\ UNCHANGED tagIndex

(* The caller's function rejects.                                          *)
RememberFails(c) == /\ loading[c] # None
                    /\ loading' = [loading EXCEPT ![c] = None]
                    /\ UNCHANGED <<cache, tagIndex, writes, labels, flushed>>

Next == \/ \E k \in Keys : \/ Set(k) \/ Forget(k) \/ Expire(k)
                           \/ \E tags \in SUBSET Tags : TaggedSet(k, tags)
                           \/ \E c \in Clients : RememberMiss(c, k)
        \/ Flush
        \/ \E tags \in SUBSET Tags : FlushTags(tags)
        \/ \E c \in Clients : RememberStore(c) \/ RememberFails(c)

Spec == Init /\ [][Next]_vars

-----------------------------------------------------------------------------
(* The types; an entry is a write that has been made.                      *)
TypeOK == /\ cache \in [Keys -> (1..writes) \cup {None}]
          /\ tagIndex \in SUBSET (Tags \X Keys)
          /\ loading \in [Clients -> Keys \cup {None}]
          /\ writes \in 0..MaxWrites
          /\ labels \in [Writes -> SUBSET Tags]
          /\ flushed \in SUBSET (1..writes)

(* Every entry is found through each tag it was set under, whatever was    *)
(* forgotten, expired, overwritten or flushed under other tags meanwhile.  *)
TagsFindEntries ==
  \A k \in Keys : cache[k] # None =>
    \A t \in labels[cache[k]] : <<t, k>> \in tagIndex

(* An entry set under a tag is gone once that tag has been flushed, and    *)
(* stays gone (framework.md: "Invalidate all entries tagged").             *)
FlushedStayGone == \A k \in Keys : cache[k] \notin flushed
=============================================================================
