-------------------------- MODULE ArrayStore_proofs --------------------------
(***************************************************************************)
(* What flushing a tag of the in-memory store promises holds for any keys, *)
(* tags, callers and number of writes.                                     *)
(***************************************************************************)
EXTENDS ArrayStore, TLAPS

(* The promise rests on the index: an entry leaves with its tag only       *)
(* because the tag's set names its key.                                    *)
Inv == TypeOK /\ TagsFindEntries /\ FlushedStayGone

(* No set of writes holds the mark of a missing entry.                     *)
LEMMA NoneIsNoWrite ==
  ASSUME NEW n \in 0..MaxWrites, NEW f \in SUBSET (1..n)
  PROVE  None \notin f
<1>1. 1..n \subseteq Nat
  BY StoreAssumption
<1> QED BY <1>1, StoreAssumption

(* A write gets a number no flush has met and no entry has.                *)
LEMMA StoreInv ==
  ASSUME Inv, NEW k \in Keys, NEW tags \in SUBSET Tags, Store(k, tags),
         tagIndex' = tagIndex \cup (tags \X {k}),
         loading' \in [Clients -> Keys \cup {None}]
  PROVE  Inv'
<1> USE StoreAssumption
<1> DEFINE w == writes + 1
<1>1. /\ w \in Writes /\ writes' = w /\ 1..writes \subseteq 1..w
      /\ w \notin 1..writes /\ w # None
  BY DEF Inv, TypeOK, Store, Writes
<1>2. /\ cache' \in [Keys -> (1..w) \cup {None}]
      /\ cache'[k] = w
      /\ \A j \in Keys : j # k => cache'[j] = cache[j]
  <2>1. cache' = [cache EXCEPT ![k] = w]
    BY DEF Store
  <2>2. cache \in [Keys -> (1..writes) \cup {None}] /\ w \in 1..w
    BY <1>1 DEF Inv, TypeOK
  <2> HIDE DEF w
  <2> QED BY <1>1, <2>1, <2>2
<1>3. /\ labels' \in [Writes -> SUBSET Tags]
      /\ labels'[w] = tags
      /\ \A v \in Writes : v # w => labels'[v] = labels[v]
  BY <1>1 DEF Inv, TypeOK, Store
<1>4. TypeOK'
  <2>1. tagIndex' \in SUBSET (Tags \X Keys)
    BY DEF Inv, TypeOK
  <2>2. flushed' \in SUBSET (1..writes')
    BY <1>1 DEF Inv, TypeOK, Store
  <2>3. writes' \in 0..MaxWrites
    BY <1>1 DEF Writes
  <2> QED BY <1>1, <1>2, <1>3, <2>1, <2>2, <2>3 DEF TypeOK
<1>5. TagsFindEntries'
  <2> SUFFICES ASSUME NEW j \in Keys, cache'[j] # None, NEW t \in labels'[cache'[j]]
               PROVE  <<t, j>> \in tagIndex'
    BY DEF TagsFindEntries
  <2>1. CASE j = k
    BY <2>1, <1>2, <1>3
  <2>2. CASE j # k
    <3>1. cache[j] \in Writes /\ cache[j] # w /\ cache'[j] = cache[j]
      BY <2>2, <1>1, <1>2 DEF Inv, TypeOK, Writes
    <3>2. t \in labels[cache[j]]
      BY <3>1, <1>3
    <3> QED BY <3>1, <3>2 DEF Inv, TagsFindEntries
  <2> QED BY <2>1, <2>2
<1>6. FlushedStayGone'
  <2>1. flushed' = flushed /\ w \notin flushed
    BY <1>1 DEF Inv, TypeOK, Store
  <2> HIDE DEF w
  <2> QED BY <1>2, <2>1 DEF Inv, FlushedStayGone
<1> QED BY <1>4, <1>5, <1>6 DEF Inv

(* Deleting entries never brings one back.                                 *)
LEMMA GoneInv ==
  ASSUME Inv, NEW keys, cache' = Gone(keys),
         UNCHANGED <<tagIndex, loading, writes, labels, flushed>>
  PROVE  Inv'
<1>1. \A k \in Keys : cache'[k] = None \/ cache'[k] = cache[k]
  BY DEF Gone
<1>2. TypeOK'
  BY DEF Inv, TypeOK, Gone
<1>3. TagsFindEntries'
  BY <1>1 DEF Inv, TagsFindEntries
<1>4. FlushedStayGone'
  <2>1. None \notin flushed
    BY NoneIsNoWrite DEF Inv, TypeOK
  <2> QED BY <1>1, <2>1 DEF Inv, FlushedStayGone
<1> QED BY <1>2, <1>3, <1>4 DEF Inv

(* A flush of tags finds every entry it owes through the index.            *)
LEMMA FlushTagsInv ==
  ASSUME Inv, NEW tags \in SUBSET Tags, FlushTags(tags)
  PROVE  Inv'
<1> USE StoreAssumption
<1> DEFINE hit == {k \in Keys : \E t \in tags : <<t, k>> \in tagIndex}
<1>1. /\ cache' = Gone(hit)
      /\ tagIndex' = {p \in tagIndex : p[1] \notin tags}
      /\ flushed' = flushed \cup {w \in 1..writes : labels[w] \cap tags # {}}
      /\ UNCHANGED <<loading, writes, labels>>
  BY DEF FlushTags
<1>2. \A k \in Keys : \/ cache'[k] = None
                      \/ k \notin hit /\ cache'[k] = cache[k]
  BY <1>1 DEF Gone
<1>3. \A k \in Keys : cache'[k] # None =>
        cache'[k] = cache[k] /\ labels[cache[k]] \cap tags = {}
  BY <1>2 DEF Inv, TagsFindEntries
<1>4. TypeOK'
  BY <1>1 DEF Inv, TypeOK, Gone
<1>5. TagsFindEntries'
  BY <1>1, <1>3 DEF Inv, TagsFindEntries
<1>6. FlushedStayGone'
  <2>1. None \notin flushed'
    BY <1>4, NoneIsNoWrite DEF TypeOK
  <2>2. ASSUME NEW k \in Keys, cache'[k] # None
        PROVE  cache'[k] \notin flushed'
    BY <1>1, <1>3, <2>2 DEF Inv, FlushedStayGone
  <2> QED BY <2>1, <2>2 DEF FlushedStayGone
<1> QED BY <1>4, <1>5, <1>6 DEF Inv

(* Flushing everything leaves nothing to find.                             *)
LEMMA FlushInv ==
  ASSUME Inv, Flush
  PROVE  Inv'
<1> USE StoreAssumption
<1>1. \A k \in Keys : cache'[k] = None
  BY DEF Flush, Gone
<1>2. TypeOK'
  BY DEF Inv, TypeOK, Flush, Gone
<1>3. None \notin flushed'
  BY <1>2, NoneIsNoWrite DEF TypeOK
<1>4. FlushedStayGone'
  BY <1>1, <1>3 DEF FlushedStayGone
<1> QED BY <1>1, <1>2, <1>4 DEF Inv, TagsFindEntries

(* Steps that leave the entries and their index alone.                     *)
LEMMA QuietInv ==
  ASSUME Inv, UNCHANGED <<cache, tagIndex, writes, labels, flushed>>,
         loading' \in [Clients -> Keys \cup {None}]
  PROVE  Inv'
BY DEF Inv, TypeOK, TagsFindEntries, FlushedStayGone

(* Every step keeps the invariant.                                         *)
LEMMA NextInv ==
  ASSUME Inv, [Next]_vars
  PROVE  Inv'
<1>0. loading \in [Clients -> Keys \cup {None}]
  BY DEF Inv, TypeOK
<1>1. ASSUME NEW k \in Keys, Set(k)  PROVE Inv'
  BY <1>0, <1>1, StoreInv DEF Set
<1>2. ASSUME NEW k \in Keys, Forget(k) \/ Expire(k)  PROVE Inv'
  BY <1>2, GoneInv DEF Forget, Expire
<1>3. ASSUME NEW k \in Keys, NEW tags \in SUBSET Tags, TaggedSet(k, tags)  PROVE Inv'
  BY <1>0, <1>3, StoreInv DEF TaggedSet, Tagged
<1>4. ASSUME NEW c \in Clients, NEW k \in Keys, RememberMiss(c, k)  PROVE Inv'
  BY <1>0, <1>4, QuietInv DEF RememberMiss
<1>5. CASE Flush
  BY <1>5, FlushInv
<1>6. ASSUME NEW tags \in SUBSET Tags, FlushTags(tags)  PROVE Inv'
  BY <1>6, FlushTagsInv
<1>7. ASSUME NEW c \in Clients, RememberStore(c)  PROVE Inv'
  BY <1>0, <1>7, StoreInv DEF RememberStore
<1>8. ASSUME NEW c \in Clients, RememberFails(c)  PROVE Inv'
  BY <1>0, <1>8, QuietInv DEF RememberFails
<1>9. CASE UNCHANGED vars
  BY <1>0, <1>9, QuietInv DEF vars
<1> QED BY <1>1, <1>2, <1>3, <1>4, <1>5, <1>6, <1>7, <1>8, <1>9 DEF Next

(* The store's invariant holds in every behaviour.                         *)
LEMMA StoreSafe == Spec => []Inv
<1>1. Init => Inv
  BY StoreAssumption DEF Init, Inv, TypeOK, TagsFindEntries, FlushedStayGone, Writes
<1>2. Inv /\ [Next]_vars => Inv'
  BY NextInv
<1> QED BY <1>1, <1>2, PTL DEF Spec

(* The entries are writes, indexed under keys and tags.                    *)
THEOREM TypeCorrect == Spec => []TypeOK
<1>1. Inv => TypeOK
  BY DEF Inv
<1> QED BY <1>1, StoreSafe, PTL

(* Every entry of the in-memory store is found through each tag it was set *)
(* under, whatever was forgotten, expired, overwritten or flushed.         *)
THEOREM TagsAlwaysFind == Spec => []TagsFindEntries
<1>1. Inv => TagsFindEntries
  BY DEF Inv
<1> QED BY <1>1, StoreSafe, PTL

(* An entry of the in-memory store set under a tag never shows again once  *)
(* that tag has been flushed.                                              *)
THEOREM FlushedNeverReturn == Spec => []FlushedStayGone
<1>1. Inv => FlushedStayGone
  BY DEF Inv
<1> QED BY <1>1, StoreSafe, PTL
=============================================================================
