-------------------------- MODULE NplexStoreProofs --------------------------
(***************************************************************************)
(* Proofs about store_t (NplexStore), for any finite set of keys, any      *)
(* users, any updates and snapshots.  Each theorem uses the ones before    *)
(* it: types, then the bounds on revisions, then the reference counters,   *)
(* the registered metadata and the users.                                  *)
(***************************************************************************)
EXTENDS NplexStore, FiniteSetTheorems, SequenceTheorems, TLAPS

-----------------------------------------------------------------------------
(* Maps: the empty one, one with a binding more and one with a key less    *)
(* are maps between the same sets.                                         *)
LEMMA EmptyMapIsMap ==
    ASSUME NEW S, NEW T
    PROVE  IsMap(EmptyMap, S, T) /\ DOMAIN EmptyMap = {}
BY DEF IsMap, EmptyMap

(* A map with a binding more is a map between the same sets.               *)
LEMMA PutIsMap ==
    ASSUME NEW S, NEW T, NEW m, IsMap(m, S, T), NEW k \in S, NEW v \in T
    PROVE  IsMap(Put(m, k, v), S, T)
BY DEF IsMap, Put

(* A map with a key less is a map between the same sets.                   *)
LEMMA DropIsMap ==
    ASSUME NEW S, NEW T, NEW m, IsMap(m, S, T), NEW k
    PROVE  IsMap(Drop(m, k), S, T)
BY DEF IsMap, Drop

(* The only map without keys is the empty one.                             *)
LEMMA EmptyDomain ==
    ASSUME NEW S, NEW T, NEW m, IsMap(m, S, T), DOMAIN m = {}
    PROVE  m = EmptyMap
BY DEF IsMap, EmptyMap

(* What the assumption on Update and Snapshot says of a message.           *)
LEMMA UpdateFields ==
    ASSUME NEW u \in Update
    PROVE  /\ u.rev \in Rev /\ u.user \in User
           /\ IsMap(u.upserts, Key, Data) /\ u.deletes \in SUBSET Key
           /\ DOMAIN u.upserts \cap u.deletes = {}
BY StoreAssumption DEF UpdateMsg, PartialFcn, IsMap

(* A snapshot has a revision within the bound and a sequence of updates.   *)
LEMMA SnapshotFields ==
    ASSUME NEW s \in Snapshot
    PROVE  s.rev \in 0 .. MaxRev /\ s.updates \in Seq(Update)
BY StoreAssumption

-----------------------------------------------------------------------------
(* A store_t just constructed has the declared types.                      *)
LEMMA InitTypeOK == Init => TypeOK
<1> SUFFICES ASSUME Init PROVE TypeOK
  OBVIOUS
<1>1. /\ IsMap(m_data, Key, Entry) /\ IsMap(upserts, Key, Data)
      /\ IsMap(changes, Key, Change)
  BY EmptyMapIsMap DEF Init
<1>2. rest \in Seq(Update)
  BY EmptySeq DEF Init
<1> QED
  BY <1>1, <1>2, StoreAssumption DEF Init, TypeOK, Rev

(* create_meta() and the first lines of update_internal().                 *)
LEMMA BeginUpdateTypeOK ==
    ASSUME TypeOK, NEW u \in Update, BeginUpdate(u),
           loading' = loading, rest' \in Seq(Update)
    PROVE  TypeOK'
<1>1. /\ u.rev \in Rev /\ u.user \in User
      /\ IsMap(u.upserts, Key, Data) /\ u.deletes \in SUBSET Key
  BY UpdateFields
<1>2. IsMap(EmptyMap, Key, Change)
  BY EmptyMapIsMap
<1>3. /\ owner' \in [Rev -> User \cup {NoUser}] /\ nrefs' \in [Rev -> Nat]
      /\ m_users' \in [User -> Nat]
  BY <1>1 DEF TypeOK, BeginUpdate, create_meta
<1>4. /\ m_rev' = u.rev /\ cur' = u.rev /\ upserts' = u.upserts /\ deletes' = u.deletes
      /\ changes' = EmptyMap /\ pc' = "upserts" /\ m_data' = m_data /\ m_metas' = m_metas
  BY DEF BeginUpdate
<1>5. u.rev \in 0 .. MaxRev /\ u.rev # 0
  BY <1>1, StoreAssumption DEF Rev
<1> QED
  BY <1>1, <1>2, <1>3, <1>4, <1>5 DEF TypeOK

(* release_meta() keeps the types, whatever revision it is called on.      *)
LEMMA ReleaseTypes ==
    ASSUME TypeOK, NEW r \in Rev
    PROVE  /\ NrefsAfterRelease(r) \in Nat
           /\ UsersAfterRelease(r) \in [User -> Nat]
           /\ MetasAfterRelease(r) \in SUBSET Rev
           /\ OwnerAfterRelease(r) \in [Rev -> User \cup {NoUser}]
<1>1. NrefsAfterRelease(r) \in Nat
  BY DEF TypeOK, NrefsAfterRelease
<1>2. UsersAfterRelease(r) \in [User -> Nat]
  <2> DEFINE n == IF m_users[owner[r]] > 1 THEN m_users[owner[r]] - 1 ELSE 0
             f == [m_users EXCEPT ![owner[r]] = n]
  <2>1. m_users \in [User -> Nat]
    BY DEF TypeOK
  <2>2. owner[r] \in User => n \in Nat
    BY <2>1
  <2>3. f \in [User -> Nat]
    BY <2>1, <2>2
  <2> QED
    BY <2>1, <2>3 DEF UsersAfterRelease
<1>3. MetasAfterRelease(r) \in SUBSET Rev
  BY DEF TypeOK, MetasAfterRelease
<1>4. OwnerAfterRelease(r) \in [Rev -> User \cup {NoUser}]
  BY DEF TypeOK, OwnerAfterRelease
<1> QED
  BY <1>1, <1>2, <1>3, <1>4

(* upsert_entry() keeps the types.                                         *)
LEMMA UpsertTypeOK ==
    ASSUME TypeOK, NEW k \in Key, UpsertEntry(k)
    PROVE  TypeOK'
<1>1. /\ cur \in Rev /\ upserts[k] \in Data
      /\ [data |-> upserts[k], meta |-> cur] \in Entry
  BY DEF TypeOK, UpsertEntry, Rev, IsMap, Entry
<1>2. IsMap(m_data', Key, Entry) /\ IsMap(upserts', Key, Data)
  BY <1>1, PutIsMap, DropIsMap DEF TypeOK, UpsertEntry
<1>3. CASE UpsertCreate(k)
  <2>1. [action |-> "CREATE", old |-> NoEntry] \in Change
    BY DEF Change
  <2>2. IsMap(changes', Key, Change)
    BY <1>3, <2>1, PutIsMap DEF TypeOK, UpsertCreate
  <2>3. nrefs' \in [Rev -> Nat]
    BY <1>1, <1>3 DEF TypeOK, UpsertCreate
  <2> QED
    BY <1>2, <1>3, <2>2, <2>3 DEF TypeOK, UpsertEntry, UpsertCreate
<1>4. CASE UpsertUpdate(k)
  <2>1. m_data[k] \in Entry /\ m_data[k].meta \in Rev
    BY <1>4 DEF TypeOK, UpsertUpdate, IsMap, Entry
  <2>2. [action |-> "UPDATE", old |-> m_data[k]] \in Change
    BY <2>1 DEF Change
  <2>3. IsMap(changes', Key, Change)
    BY <1>4, <2>2, PutIsMap DEF TypeOK, UpsertUpdate
  <2>4. /\ m_users' \in [User -> Nat] /\ m_metas' \in SUBSET Rev
        /\ owner' \in [Rev -> User \cup {NoUser}]
    BY <1>4, <2>1, ReleaseTypes DEF UpsertUpdate
  <2>5. nrefs' \in [Rev -> Nat]
    <3> DEFINE f == [nrefs EXCEPT ![m_data[k].meta] = NrefsAfterRelease(m_data[k].meta)]
    <3>1. f \in [Rev -> Nat]
      BY <2>1, ReleaseTypes DEF TypeOK
    <3>2. nrefs' = [f EXCEPT ![cur] = f[cur] + 1]
      BY <1>4 DEF UpsertUpdate
    <3> HIDE DEF f
    <3> QED
      BY <1>1, <3>1, <3>2
  <2> QED
    BY <1>2, <2>3, <2>4, <2>5 DEF TypeOK, UpsertEntry
<1> QED
  BY <1>3, <1>4 DEF UpsertEntry

(* delete_entry() keeps the types.                                         *)
LEMMA DeleteTypeOK ==
    ASSUME TypeOK, NEW k \in Key, DeleteEntry(k)
    PROVE  TypeOK'
<1>1. CASE DeleteAbsent(k)
  BY <1>1 DEF TypeOK, DeleteEntry, DeleteAbsent
<1>2. CASE DeletePresent(k)
  <2>1. m_data[k] \in Entry /\ m_data[k].meta \in Rev
    BY <1>2 DEF TypeOK, DeletePresent, IsMap, Entry
  <2>2. [action |-> "DELETE", old |-> m_data[k]] \in Change
    BY <2>1 DEF Change
  <2>3. IsMap(changes', Key, Change) /\ IsMap(m_data', Key, Entry)
    BY <1>2, <2>2, PutIsMap, DropIsMap DEF TypeOK, DeletePresent
  <2>4. /\ nrefs' \in [Rev -> Nat] /\ m_users' \in [User -> Nat]
        /\ m_metas' \in SUBSET Rev /\ owner' \in [Rev -> User \cup {NoUser}]
    BY <1>2, <2>1, ReleaseTypes DEF TypeOK, DeletePresent
  <2> QED
    BY <2>3, <2>4 DEF TypeOK, DeleteEntry
<1> QED
  BY <1>1, <1>2 DEF DeleteEntry

(* The clear() calls at the top of load() keep the types.                  *)
LEMMA LoadTypeOK ==
    ASSUME TypeOK, NEW s \in Snapshot \cup {NoSnapshot}, CallLoad(s)
    PROVE  TypeOK'
<1>1. IsMap(EmptyMap, Key, Entry) /\ IsMap(EmptyMap, Key, Data) /\ IsMap(EmptyMap, Key, Change)
  BY EmptyMapIsMap
<1>2. rest' \in Seq(Update)
  BY SnapshotFields, EmptySeq DEF CallLoad
<1> QED
  BY <1>1, <1>2, StoreAssumption DEF TypeOK, CallLoad, Rev

(* Every step of a call of store_t keeps the types.                        *)
LEMMA NextTypeOK == TypeOK /\ [Next]_vars => TypeOK'
<1> SUFFICES ASSUME TypeOK, [Next]_vars PROVE TypeOK'
  OBVIOUS
<1>1. ASSUME NEW u \in Update, CallUpdate(u) PROVE TypeOK'
  BY <1>1, BeginUpdateTypeOK DEF CallUpdate, TypeOK
<1>2. ASSUME Throw PROVE TypeOK'
  BY <1>2 DEF Throw, TypeOK
<1>3. ASSUME NEW s \in Snapshot \cup {NoSnapshot}, CallLoad(s) PROVE TypeOK'
  BY <1>3, LoadTypeOK
<1>4. ASSUME NEW k \in Key, UpsertEntry(k) PROVE TypeOK'
  BY <1>4, UpsertTypeOK
<1>5. ASSUME NEW k \in Key, DeleteEntry(k) PROVE TypeOK'
  BY <1>5, DeleteTypeOK
<1>6. CASE UpsertsDone
  BY <1>6 DEF UpsertsDone, TypeOK
<1>7. CASE EndUpdate
  BY <1>7, StoreAssumption DEF EndUpdate, TypeOK, Rev
<1>8. CASE LoadNext
  <2>1. Head(rest) \in Update /\ Tail(rest) \in Seq(Update)
    BY <1>8, HeadTailProperties DEF LoadNext, TypeOK
  <2> QED
    BY <1>8, <2>1, BeginUpdateTypeOK DEF LoadNext
<1>9. CASE LoadEnd
  BY <1>9, SnapshotFields DEF LoadEnd, TypeOK
<1>10. CASE UNCHANGED vars
  BY <1>10 DEF vars, TypeOK
<1> QED
  BY <1>1, <1>2, <1>3, <1>4, <1>5, <1>6, <1>7, <1>8, <1>9, <1>10
     DEF Next, CallUpdateStale, InvalidEntry, LoadThrow

(* Types: every member of store_t and every local of its calls keeps its   *)
(* type, in the middle of a call and after an exception too.               *)
THEOREM StoreTypeOK == Spec => []TypeOK
BY InitTypeOK, NextTypeOK, PTL DEF Spec

-----------------------------------------------------------------------------
(* The bounds on revisions and the locals of a call.                       *)
Bounds == TypeOK /\ NotNewer /\ CallLocals

(* The bounds hold in the empty store.                                     *)
LEMMA InitBounds == Init => Bounds
<1> SUFFICES ASSUME Init PROVE Bounds
  OBVIOUS
<1>1. DOMAIN EmptyMap = {}
  BY DEF EmptyMap
<1> QED
  BY <1>1, InitTypeOK DEF Init, Bounds, NotNewer, CallLocals

(* The first lines of update_internal(): the commit is newer than all of   *)
(* the store, so that none of the entries is of that commit.               *)
LEMMA BeginUpdateBounds ==
    ASSUME Bounds, NEW u \in Update, BeginUpdate(u), loading' = loading,
           loading # NoSnapshot => u.rev <= loading.rev
    PROVE  NotNewer' /\ CallLocals'
<1>1. u.rev \in Nat /\ m_rev \in Nat /\ DOMAIN u.upserts \cap u.deletes = {}
  BY UpdateFields, StoreAssumption DEF Bounds, TypeOK, Rev
<1>2. \A k \in DOMAIN m_data : m_data[k].meta \in Nat /\ m_data[k].meta <= m_rev
  BY DEF Bounds, NotNewer, TypeOK, IsMap, Entry, Rev
<1>3. /\ m_rev' = u.rev /\ cur' = u.rev /\ upserts' = u.upserts /\ deletes' = u.deletes
      /\ pc' = "upserts" /\ m_data' = m_data /\ u.rev > m_rev
  BY DEF BeginUpdate
<1>4. \A k \in DOMAIN m_data : m_data[k].meta < u.rev
  BY <1>1, <1>2, <1>3
<1> QED
  BY <1>1, <1>2, <1>3, <1>4 DEF NotNewer, CallLocals

(* upsert_entry() stamps its value with the current commit, which is the   *)
(* revision of the store, and takes the key off the entries to apply.      *)
LEMMA UpsertBounds ==
    ASSUME Bounds, NEW k \in Key, UpsertEntry(k)
    PROVE  NotNewer' /\ CallLocals'
<1>1. IsMap(m_data, Key, Entry) /\ IsMap(upserts, Key, Data)
  BY DEF Bounds, TypeOK
<1>2. cur = m_rev /\ m_rev \in Nat /\ [data |-> upserts[k], meta |-> cur] \in Entry
  BY <1>1 DEF Bounds, TypeOK, UpsertEntry, Rev, IsMap, Entry
<1>3. /\ DOMAIN m_data' = DOMAIN m_data \cup {k}
      /\ \A x \in DOMAIN m_data \cup {k} :
            m_data'[x] = IF x = k THEN [data |-> upserts[k], meta |-> cur] ELSE m_data[x]
  BY DEF UpsertEntry, Put
<1>4. DOMAIN upserts' = DOMAIN upserts \ {k}
  BY DEF UpsertEntry, Drop
<1>5. /\ m_rev' = m_rev /\ cur' = cur /\ deletes' = deletes /\ pc' = pc /\ pc = "upserts"
      /\ loading' = loading /\ k \in DOMAIN upserts
  BY DEF UpsertEntry
<1>6. NotNewer'
  BY <1>2, <1>3, <1>5 DEF Bounds, NotNewer
<1>7. CallLocals'
  <2>1. k \notin deletes
    BY <1>5 DEF Bounds, CallLocals
  <2> QED
    BY <1>3, <1>4, <1>5, <2>1 DEF Bounds, CallLocals
<1> QED
  BY <1>6, <1>7

(* delete_entry() only takes values and entries away.                      *)
LEMMA DeleteBounds ==
    ASSUME Bounds, NEW k \in Key, DeleteEntry(k)
    PROVE  NotNewer' /\ CallLocals'
<1>1. /\ DOMAIN m_data' \subseteq DOMAIN m_data
      /\ \A x \in DOMAIN m_data' : m_data'[x] = m_data[x]
  BY DEF DeleteEntry, DeleteAbsent, DeletePresent, Drop
<1>2. /\ m_rev' = m_rev /\ cur' = cur /\ upserts' = upserts /\ pc' = pc /\ pc = "deletes"
      /\ loading' = loading /\ deletes' \subseteq deletes
  BY DEF DeleteEntry
<1> QED
  BY <1>1, <1>2 DEF Bounds, NotNewer, CallLocals

(* Every step of a call of store_t keeps the bounds.                       *)
LEMMA NextBounds == Bounds /\ [Next]_vars => Bounds'
<1> SUFFICES ASSUME Bounds, [Next]_vars PROVE NotNewer' /\ CallLocals'
  BY NextTypeOK DEF Bounds
<1>1. ASSUME NEW u \in Update, CallUpdate(u) PROVE NotNewer' /\ CallLocals'
  BY <1>1, BeginUpdateBounds DEF CallUpdate, Bounds, CallLocals
<1>2. ASSUME Throw PROVE NotNewer' /\ CallLocals'
  BY <1>2 DEF Throw, Bounds, NotNewer, CallLocals
<1>3. ASSUME NEW s \in Snapshot \cup {NoSnapshot}, CallLoad(s)
      PROVE  NotNewer' /\ CallLocals'
  <2>1. DOMAIN EmptyMap = {}
    BY DEF EmptyMap
  <2>2. s # NoSnapshot => s.rev \in Nat
    BY SnapshotFields
  <2> QED
    BY <1>3, <2>1, <2>2 DEF CallLoad, NotNewer, CallLocals
<1>4. ASSUME NEW k \in Key, UpsertEntry(k) PROVE NotNewer' /\ CallLocals'
  BY <1>4, UpsertBounds
<1>5. ASSUME NEW k \in Key, DeleteEntry(k) PROVE NotNewer' /\ CallLocals'
  BY <1>5, DeleteBounds
<1>6. CASE UpsertsDone
  <2>1. upserts = EmptyMap
    BY <1>6, EmptyDomain DEF UpsertsDone, Bounds, TypeOK
  <2> QED
    BY <1>6, <2>1 DEF UpsertsDone, Bounds, NotNewer, CallLocals
<1>7. CASE EndUpdate
  BY <1>7 DEF EndUpdate, Bounds, NotNewer, CallLocals
<1>8. CASE LoadNext
  <2>1. Head(rest) \in Update
    BY <1>8, HeadTailProperties DEF LoadNext, Bounds, TypeOK
  <2> QED
    BY <1>8, <2>1, BeginUpdateBounds DEF LoadNext
<1>9. CASE LoadEnd
  <2>1. loading # NoSnapshot /\ m_rev <= loading.rev /\ m_rev \in Nat /\ loading.rev \in Nat
    BY <1>9, SnapshotFields, StoreAssumption DEF LoadEnd, Bounds, TypeOK, NotNewer
  <2>2. \A k \in DOMAIN m_data : m_data[k].meta \in Nat /\ m_data[k].meta <= m_rev
    BY DEF Bounds, NotNewer, TypeOK, IsMap, Entry, Rev
  <2>3. \A k \in DOMAIN m_data : m_data[k].meta <= loading.rev
    BY <2>1, <2>2
  <2> QED
    BY <1>9, <2>3 DEF LoadEnd, Bounds, NotNewer, CallLocals
<1>10. CASE UNCHANGED vars
  BY <1>10 DEF vars, Bounds, NotNewer, CallLocals
<1> QED
  BY <1>1, <1>2, <1>3, <1>4, <1>5, <1>6, <1>7, <1>8, <1>9, <1>10
     DEF Next, CallUpdateStale, InvalidEntry, LoadThrow

(* At every point of a call of update() or load(), no value of the store   *)
(* was written by a commit newer than m_rev, m_rev has not passed the      *)
(* revision of the snapshot being loaded, and no value under a key still   *)
(* to be applied is of the current commit.                                 *)
THEOREM StoreBounds == Spec => []Bounds
BY InitBounds, NextBounds, PTL DEF Spec

-----------------------------------------------------------------------------
(* The reference counters.                                                 *)
LEMMA RefsFinite ==
    ASSUME TypeOK, NEW r
    PROVE  IsFiniteSet(Refs(r)) /\ Cardinality(Refs(r)) \in Nat
<1>1. Refs(r) \in SUBSET Key
  BY DEF Refs, TypeOK, IsMap
<1> QED
  BY <1>1, StoreAssumption, FS_Subset, FS_CardinalityType

(* release_meta() is called on metadata that has at least one reference.   *)
LEMMA ReleaseCount ==
    ASSUME TypeOK, RefsExact, NEW k \in DOMAIN m_data, NEW r, r = m_data[k].meta
    PROVE  /\ r \in Rev /\ k \in Refs(r)
           /\ nrefs[r] > 0 /\ NrefsAfterRelease(r) = nrefs[r] - 1
           /\ Cardinality(Refs(r) \ {k}) = nrefs[r] - 1
<1>1. r \in Rev /\ k \in Refs(r)
  BY DEF TypeOK, IsMap, Entry, Refs
<1>2. /\ IsFiniteSet(Refs(r)) /\ nrefs[r] = Cardinality(Refs(r))
      /\ nrefs[r] \in Nat
  BY <1>1, RefsFinite DEF RefsExact
<1>3. nrefs[r] # 0
  BY <1>1, <1>2, FS_EmptySet
<1>4. Cardinality(Refs(r) \ {k}) = nrefs[r] - 1
  BY <1>1, <1>2, FS_RemoveElement
<1> QED
  BY <1>1, <1>2, <1>3, <1>4 DEF NrefsAfterRelease

(* upsert_entry() keeps the reference counters exact: the old commit of    *)
(* the key loses one, the current commit gains one.                        *)
LEMMA UpsertRefs ==
    ASSUME Bounds, RefsExact, NEW k \in Key, UpsertEntry(k)
    PROVE  RefsExact'
<1>1. TypeOK /\ cur \in Rev /\ k \in DOMAIN upserts
  BY DEF Bounds, TypeOK, UpsertEntry, Rev
<1>2. /\ DOMAIN m_data' = DOMAIN m_data \cup {k}
      /\ \A x \in DOMAIN m_data \cup {k} :
            m_data'[x].meta = IF x = k THEN cur ELSE m_data[x].meta
  BY DEF UpsertEntry, Put
<1>3. \A r \in Rev : Refs(r)' = IF r = cur THEN Refs(r) \cup {k} ELSE Refs(r) \ {k}
  BY <1>2 DEF Refs
<1>4. \A r \in Rev : /\ IsFiniteSet(Refs(r)) /\ nrefs[r] = Cardinality(Refs(r))
                     /\ nrefs[r] \in Nat
  BY <1>1, RefsFinite DEF RefsExact
<1>5. CASE UpsertCreate(k)
  <2>1. \A r \in Rev : k \notin Refs(r)
    BY <1>5 DEF UpsertCreate, Refs
  <2>2. \A r \in Rev : nrefs'[r] = IF r = cur THEN nrefs[r] + 1 ELSE nrefs[r]
    BY <1>1, <1>5 DEF UpsertCreate, TypeOK
  <2>3. \A r \in Rev : Cardinality(Refs(r) \cup {k}) = nrefs[r] + 1
    <3> TAKE r \in Rev
    <3>1. IsFiniteSet(Refs(r)) /\ k \notin Refs(r) /\ nrefs[r] = Cardinality(Refs(r))
      BY <1>4, <2>1
    <3> QED
      BY <3>1, FS_AddElement
  <2>4. \A r \in Rev : Refs(r) \ {k} = Refs(r)
    BY <2>1
  <2> QED
    BY <1>3, <1>4, <2>2, <2>3, <2>4 DEF RefsExact
<1>6. CASE UpsertUpdate(k)
  <2> DEFINE q == m_data[k].meta
  <2>1. k \in DOMAIN m_data /\ q # cur
    BY <1>1, <1>6 DEF UpsertUpdate, UpsertEntry, Bounds, CallLocals
  <2>2. /\ q \in Rev /\ NrefsAfterRelease(q) = nrefs[q] - 1
        /\ Cardinality(Refs(q) \ {k}) = nrefs[q] - 1
    BY <1>1, <2>1, ReleaseCount
  <2>3. \A r \in Rev : r # q => k \notin Refs(r)
    BY DEF Refs
  <2>4. nrefs' = [[nrefs EXCEPT ![q] = NrefsAfterRelease(q)] EXCEPT ![cur] = @ + 1]
    BY <1>6 DEF UpsertUpdate
  <2> HIDE DEF q
  <2>5. \A r \in Rev : nrefs'[r] = IF r = cur THEN nrefs[r] + 1
                                  ELSE IF r = q THEN nrefs[r] - 1 ELSE nrefs[r]
    BY <1>1, <2>1, <2>2, <2>4 DEF TypeOK
  <2>6. \A r \in Rev : r # q => Cardinality(Refs(r) \cup {k}) = nrefs[r] + 1
    <3> TAKE r \in Rev
    <3> HAVE r # q
    <3>1. IsFiniteSet(Refs(r)) /\ k \notin Refs(r) /\ nrefs[r] = Cardinality(Refs(r))
      BY <1>4, <2>3
    <3> QED
      BY <3>1, FS_AddElement
  <2>7. \A r \in Rev : r # q => Refs(r) \ {k} = Refs(r)
    BY <2>3
  <2> QED
    BY <1>3, <1>4, <2>1, <2>2, <2>5, <2>6, <2>7 DEF RefsExact
<1> QED
  BY <1>5, <1>6 DEF UpsertEntry

(* delete_entry() keeps the reference counters exact.                      *)
LEMMA DeleteRefs ==
    ASSUME Bounds, RefsExact, NEW k \in Key, DeleteEntry(k)
    PROVE  RefsExact'
<1>1. TypeOK
  BY DEF Bounds
<1>2. CASE DeleteAbsent(k)
  BY <1>2 DEF DeleteAbsent, RefsExact, Refs
<1>3. CASE DeletePresent(k)
  <2> DEFINE q == m_data[k].meta
  <2>1. /\ q \in Rev /\ NrefsAfterRelease(q) = nrefs[q] - 1
        /\ Cardinality(Refs(q) \ {k}) = nrefs[q] - 1
    BY <1>1, <1>3, ReleaseCount DEF DeletePresent
  <2>2. \A r \in Rev : Refs(r)' = Refs(r) \ {k}
    BY <1>3 DEF DeletePresent, Drop, Refs
  <2>3. \A r \in Rev : r # q => Refs(r) \ {k} = Refs(r)
    BY DEF Refs
  <2>4. nrefs' = [nrefs EXCEPT ![q] = NrefsAfterRelease(q)]
    BY <1>3 DEF DeletePresent
  <2> HIDE DEF q
  <2>5. \A r \in Rev : nrefs'[r] = IF r = q THEN nrefs[r] - 1 ELSE nrefs[r]
    BY <1>1, <2>1, <2>4 DEF TypeOK
  <2> QED
    BY <2>1, <2>2, <2>3, <2>5 DEF RefsExact
<1> QED
  BY <1>2, <1>3 DEF DeleteEntry

(* A commit newer than the store has no value in it yet.                   *)
LEMMA BeginUpdateRefs ==
    ASSUME Bounds, RefsExact, NEW u \in Update, BeginUpdate(u)
    PROVE  RefsExact' /\ nrefs[u.rev] = 0 /\ nrefs'[u.rev] = 0
<1>1. u.rev \in Rev /\ u.rev > m_rev /\ m_rev \in Nat /\ u.rev \in Nat
  BY UpdateFields, StoreAssumption DEF Bounds, TypeOK, Rev, BeginUpdate
<1>2. \A k \in DOMAIN m_data : m_data[k].meta \in Nat /\ m_data[k].meta <= m_rev
  BY DEF Bounds, NotNewer, TypeOK, IsMap, Entry, Rev
<1>3. Refs(u.rev) = {}
  BY <1>1, <1>2 DEF Refs
<1>4. nrefs[u.rev] = 0
  BY <1>1, <1>3, FS_EmptySet DEF RefsExact
<1>5. nrefs' = nrefs
  BY <1>1, <1>4 DEF BeginUpdate, create_meta, Bounds, TypeOK
<1> QED
  BY <1>1, <1>4, <1>5 DEF BeginUpdate, RefsExact, Refs

-----------------------------------------------------------------------------
(* The registries m_metas and m_users.                                     *)
Registries == MetasLive /\ OwnersKnown /\ UsersCounted
IInv == Bounds /\ RefsExact /\ Registries

(* The commits counted as references to their user, of user u.             *)
Owned(u) == {r \in Counted : owner[r] = u}

(* Finitely many commits count as references to a user.                    *)
LEMMA CountedFinite ==
    ASSUME NEW S, S \subseteq Rev
    PROVE  IsFiniteSet(S) /\ Cardinality(S) \in Nat
<1>1. IsFiniteSet(Rev)
  BY StoreAssumption, FS_Interval DEF Rev
<1> QED
  BY <1>1, FS_Subset, FS_CardinalityType

(* release_meta() on a commit q that is not the current one: if that was   *)
(* its last reference, q is not counted any more and its user loses one.   *)
LEMMA ReleaseRegistries ==
    ASSUME TypeOK, Registries, NEW q \in Rev, q # cur, nrefs[q] > 0,
           NrefsAfterRelease(q) = nrefs[q] - 1,
           m_users' = UsersAfterRelease(q), m_metas' = MetasAfterRelease(q),
           owner' = OwnerAfterRelease(q), cur' = cur, cur \in Rev,
           \A r \in Rev \ {cur} :
                nrefs'[r] = IF r = q THEN nrefs[r] - 1 ELSE nrefs[r]
    PROVE  Registries'
<1>1. q \in Live /\ q \in Counted /\ owner[q] \in User
  BY DEF Live, Counted, Registries, OwnersKnown
<1>2. nrefs \in [Rev -> Nat] /\ owner \in [Rev -> User \cup {NoUser}]
  BY DEF TypeOK
<1>3. CASE nrefs[q] = 1
  <2>1. Live' \ {cur} = (Live \ {cur}) \ {q}
    BY <1>2, <1>3 DEF Live
  <2>2. m_metas' = m_metas \ {q}
    BY <1>3 DEF MetasAfterRelease
  <2>3. MetasLive'
    BY <2>1, <2>2 DEF Registries, MetasLive
  <2>4. Counted' = Counted \ {q}
    BY <2>1 DEF Counted, Live
  <2>5. owner' = [owner EXCEPT ![q] = NoUser]
    BY <1>3 DEF OwnerAfterRelease
  <2>6. OwnersKnown'
    BY <1>2, <2>4, <2>5 DEF Registries, OwnersKnown, Counted, Live
  <2>7. \A u \in User : Owned(u)' = Owned(u) \ {q}
    BY <1>2, <2>4, <2>5, StoreAssumption DEF Owned, Counted, Live
  <2>8. m_users' = [m_users EXCEPT ![owner[q]] = IF @ > 1 THEN @ - 1 ELSE 0]
    BY <1>3 DEF UsersAfterRelease
  <2>9. ASSUME NEW u \in User PROVE m_users'[u] >= Cardinality(Owned(u)')
    <3>1. m_users[u] >= Cardinality(Owned(u)) /\ m_users[u] \in Nat
      BY DEF Registries, UsersCounted, Owned, TypeOK
    <3>2. Owned(u) \subseteq Rev /\ IsFiniteSet(Owned(u)) /\ Cardinality(Owned(u)) \in Nat
      BY CountedFinite DEF Owned, Counted, Live
    <3>3. CASE u = owner[q]
      <4>1. q \in Owned(u)
        BY <1>1, <3>3 DEF Owned
      <4>2. Cardinality(Owned(u)') = Cardinality(Owned(u)) - 1
        BY <2>7, <3>2, <4>1, FS_RemoveElement
      <4>3. m_users'[u] = IF m_users[u] > 1 THEN m_users[u] - 1 ELSE 0
        BY <2>8, <3>3 DEF TypeOK
      <4>4. Cardinality(Owned(u)) # 0
        BY <3>2, <4>1, FS_EmptySet
      <4> QED
        BY <3>1, <3>2, <4>2, <4>3, <4>4
    <3>4. CASE u # owner[q]
      <4>1. Owned(u)' = Owned(u)
        BY <2>7, <3>4 DEF Owned
      <4>2. m_users'[u] = m_users[u]
        BY <2>8, <3>4 DEF TypeOK
      <4> QED
        BY <3>1, <4>1, <4>2
    <3> QED
      BY <3>3, <3>4
  <2> QED
    BY <2>3, <2>6, <2>9 DEF Registries, UsersCounted, Owned
<1>4. CASE nrefs[q] # 1
  <2>1. NrefsAfterRelease(q) # 0
    BY <1>2, <1>4
  <2>2. m_metas' = m_metas /\ m_users' = m_users /\ owner' = owner
    BY <2>1 DEF MetasAfterRelease, UsersAfterRelease, OwnerAfterRelease
  <2>3. Live' \ {cur} = Live \ {cur}
    BY <1>2, <1>4 DEF Live
  <2>4. Counted' = Counted
    BY <2>3 DEF Counted, Live
  <2> QED
    BY <2>2, <2>3, <2>4 DEF Registries, MetasLive, OwnersKnown, UsersCounted
<1> QED
  BY <1>3, <1>4

(* upsert_entry() keeps m_metas and m_users in step with the counters.     *)
LEMMA UpsertRegistries ==
    ASSUME IInv, NEW k \in Key, UpsertEntry(k)
    PROVE  Registries'
<1>1. TypeOK /\ cur \in Rev /\ cur' = cur /\ Registries /\ nrefs \in [Rev -> Nat]
  BY DEF IInv, Bounds, TypeOK, UpsertEntry, Rev
<1>2. CASE UpsertCreate(k)
  <2>1. Live' \ {cur} = Live \ {cur}
    BY <1>1, <1>2 DEF UpsertCreate, Live
  <2>2. Counted' = Counted
    BY <1>1, <2>1 DEF Counted, Live
  <2> QED
    BY <1>1, <1>2, <2>1, <2>2
       DEF UpsertCreate, Registries, MetasLive, OwnersKnown, UsersCounted
<1>3. CASE UpsertUpdate(k)
  <2> DEFINE q == m_data[k].meta
  <2>1. k \in DOMAIN m_data /\ q # cur
    BY <1>3 DEF UpsertUpdate, UpsertEntry, IInv, Bounds, CallLocals
  <2>2. q \in Rev /\ NrefsAfterRelease(q) = nrefs[q] - 1 /\ nrefs[q] > 0
    BY <1>1, <2>1, ReleaseCount DEF IInv
  <2>3. /\ nrefs' = [[nrefs EXCEPT ![q] = NrefsAfterRelease(q)] EXCEPT ![cur] = @ + 1]
        /\ m_users' = UsersAfterRelease(q) /\ m_metas' = MetasAfterRelease(q)
        /\ owner' = OwnerAfterRelease(q)
    BY <1>3 DEF UpsertUpdate
  <2> HIDE DEF q
  <2>4. \A r \in Rev \ {cur} : nrefs'[r] = IF r = q THEN nrefs[r] - 1 ELSE nrefs[r]
    BY <1>1, <2>1, <2>2, <2>3
  <2> QED
    BY <1>1, <2>1, <2>2, <2>3, <2>4, ReleaseRegistries
<1> QED
  BY <1>2, <1>3 DEF UpsertEntry

(* delete_entry() keeps m_metas and m_users in step with the counters.     *)
LEMMA DeleteRegistries ==
    ASSUME IInv, NEW k \in Key, DeleteEntry(k)
    PROVE  Registries'
<1>1. TypeOK /\ cur \in Rev /\ cur' = cur /\ Registries /\ nrefs \in [Rev -> Nat]
  BY DEF IInv, Bounds, TypeOK, DeleteEntry, Rev
<1>2. CASE DeleteAbsent(k)
  BY <1>1, <1>2
     DEF DeleteAbsent, Registries, MetasLive, OwnersKnown, UsersCounted, Counted, Live
<1>3. CASE DeletePresent(k)
  <2> DEFINE q == m_data[k].meta
  <2>1. k \in DOMAIN m_data /\ q # cur
    BY <1>3 DEF DeletePresent, DeleteEntry, IInv, Bounds, CallLocals
  <2>2. q \in Rev /\ NrefsAfterRelease(q) = nrefs[q] - 1 /\ nrefs[q] > 0
    BY <1>1, <2>1, ReleaseCount DEF IInv
  <2>3. /\ nrefs' = [nrefs EXCEPT ![q] = NrefsAfterRelease(q)]
        /\ m_users' = UsersAfterRelease(q) /\ m_metas' = MetasAfterRelease(q)
        /\ owner' = OwnerAfterRelease(q)
    BY <1>3 DEF DeletePresent
  <2> HIDE DEF q
  <2>4. \A r \in Rev \ {cur} : nrefs'[r] = IF r = q THEN nrefs[r] - 1 ELSE nrefs[r]
    BY <1>1, <2>2, <2>3
  <2> QED
    BY <1>1, <2>1, <2>2, <2>3, <2>4, ReleaseRegistries
<1> QED
  BY <1>2, <1>3 DEF DeleteEntry

(* create_meta(): the new commit is one more reference to its user.        *)
LEMMA BeginUpdateRegistries ==
    ASSUME IInv, cur = 0, NEW u \in Update, BeginUpdate(u)
    PROVE  Registries'
<1>1. TypeOK /\ Registries /\ u.rev \in Rev /\ u.user \in User /\ 0 \notin Rev
  BY UpdateFields DEF IInv, Bounds, Rev
<1>2. nrefs[u.rev] = 0 /\ nrefs'[u.rev] = 0
  BY BeginUpdateRefs DEF IInv
<1>3. /\ nrefs' = [nrefs EXCEPT ![u.rev] = 0] /\ cur' = u.rev /\ m_metas' = m_metas
      /\ owner' = [owner EXCEPT ![u.rev] = u.user]
      /\ m_users' = [m_users EXCEPT ![u.user] = @ + 1]
  BY DEF BeginUpdate, create_meta
<1>4. Live' = Live /\ u.rev \notin Live /\ Live \subseteq Rev
  BY <1>1, <1>2, <1>3 DEF TypeOK, Live
<1>5. Counted = Live /\ Counted' = Live \cup {u.rev}
  BY <1>1, <1>3, <1>4 DEF Counted
<1>6. MetasLive'
  BY <1>1, <1>3, <1>4 DEF Registries, MetasLive, Live
<1>7. OwnersKnown'
  BY <1>1, <1>3, <1>4, <1>5 DEF Registries, OwnersKnown, TypeOK
<1>8. ASSUME NEW v \in User PROVE m_users'[v] >= Cardinality(Owned(v)')
  <2>1. /\ m_users[v] >= Cardinality(Owned(v)) /\ m_users[v] \in Nat
        /\ IsFiniteSet(Owned(v)) /\ Cardinality(Owned(v)) \in Nat
    BY <1>1, <1>4, <1>5, CountedFinite DEF Registries, UsersCounted, Owned, TypeOK
  <2>2. Owned(v)' = IF v = u.user THEN Owned(v) \cup {u.rev} ELSE Owned(v)
    BY <1>1, <1>3, <1>4, <1>5 DEF Owned, TypeOK
  <2>3. u.rev \notin Owned(v)
    BY <1>4, <1>5 DEF Owned
  <2>4. m_users'[v] = IF v = u.user THEN m_users[v] + 1 ELSE m_users[v]
    BY <1>1, <1>3 DEF TypeOK
  <2>5. Cardinality(Owned(v) \cup {u.rev}) = Cardinality(Owned(v)) + 1
    BY <2>1, <2>3, FS_AddElement
  <2> QED
    BY <2>1, <2>2, <2>4, <2>5
<1> QED
  BY <1>6, <1>7, <1>8 DEF Registries, UsersCounted, Owned

(* The end of update_internal(): metadata with references is registered,   *)
(* metadata without any is not counted any more.                           *)
LEMMA EndUpdateRegistries ==
    ASSUME IInv, EndUpdate
    PROVE  Registries'
<1>1. /\ TypeOK /\ Registries /\ cur \in Rev /\ cur' = 0 /\ 0 \notin Rev
      /\ nrefs' = nrefs /\ m_users' = m_users /\ nrefs[cur] \in Nat
  BY DEF IInv, Bounds, TypeOK, EndUpdate, Rev
<1>2. Live' = Live /\ Counted' = Live /\ Live \subseteq Rev
  BY <1>1 DEF Live, Counted
<1>3. CASE nrefs[cur] > 0
  <2>1. cur \in Live /\ Counted = Live
    BY <1>1, <1>3 DEF Live, Counted
  <2>2. owner' = owner /\ m_metas' = m_metas \cup {cur}
    BY <1>3 DEF EndUpdate
  <2>3. MetasLive'
    BY <1>1, <1>2, <2>1, <2>2 DEF Registries, MetasLive
  <2> QED
    BY <1>1, <1>2, <2>1, <2>2, <2>3 DEF Registries, OwnersKnown, UsersCounted
<1>4. CASE ~(nrefs[cur] > 0)
  <2>1. cur \notin Live /\ Counted = Live \cup {cur}
    BY <1>1, <1>4 DEF Live, Counted
  <2>2. owner' = [owner EXCEPT ![cur] = NoUser] /\ m_metas' = m_metas
    BY <1>4 DEF EndUpdate
  <2>3. MetasLive'
    BY <1>1, <1>2, <2>1, <2>2 DEF Registries, MetasLive
  <2>4. OwnersKnown'
    BY <1>1, <1>2, <2>1, <2>2 DEF Registries, OwnersKnown, TypeOK
  <2>5. ASSUME NEW v \in User PROVE m_users'[v] >= Cardinality(Owned(v)')
    <3>1. /\ m_users[v] >= Cardinality(Owned(v)) /\ m_users[v] \in Nat
          /\ IsFiniteSet(Owned(v)) /\ Cardinality(Owned(v)) \in Nat
      BY <1>1, <1>2, <2>1, CountedFinite DEF Registries, UsersCounted, Owned, TypeOK
    <3>2. Owned(v)' \subseteq Owned(v)
      BY <1>1, <1>2, <2>1, <2>2, StoreAssumption DEF Owned, TypeOK
    <3>3. IsFiniteSet(Owned(v)') /\ Cardinality(Owned(v)') <= Cardinality(Owned(v))
      BY <3>1, <3>2, FS_Subset
    <3>4. Cardinality(Owned(v)') \in Nat
      BY <3>3, FS_CardinalityType
    <3> QED
      BY <1>1, <3>1, <3>3, <3>4
  <2> QED
    BY <2>3, <2>4, <2>5 DEF Registries, UsersCounted, Owned
<1> QED
  BY <1>3, <1>4

(* An empty store: nothing is referenced and nothing is registered.        *)
LEMMA EmptyStore ==
    ASSUME m_data = EmptyMap, nrefs = [r \in Rev |-> 0], m_metas = {},
           m_users = [u \in User |-> 0], cur = 0
    PROVE  RefsExact /\ Registries
<1>1. \A r \in Rev : Refs(r) = {}
  BY DEF Refs, EmptyMap
<1>2. RefsExact
  BY <1>1, FS_EmptySet DEF RefsExact
<1>3. Live = {} /\ Counted = {}
  BY DEF Live, Counted, Rev
<1>4. \A u \in User : {r \in Counted : owner[r] = u} = {}
  BY <1>3
<1> QED
  BY <1>2, <1>3, <1>4, FS_EmptySet DEF Registries, MetasLive, OwnersKnown, UsersCounted

(* Every step of a call of store_t keeps the inductive invariant.          *)
LEMMA NextIInv == IInv /\ [Next]_vars => IInv'
<1> SUFFICES ASSUME IInv, [Next]_vars PROVE RefsExact' /\ Registries'
  BY NextBounds DEF IInv
<1>1. Bounds /\ RefsExact /\ Registries
  BY DEF IInv
<1>2. ASSUME NEW u \in Update, BeginUpdate(u), pc \in {"idle", "load"}
      PROVE  RefsExact' /\ Registries'
  <2>1. cur = 0
    BY <1>1, <1>2 DEF Bounds, CallLocals
  <2> QED
    BY <1>1, <1>2, <2>1, BeginUpdateRefs, BeginUpdateRegistries
<1>3. ASSUME NEW s \in Snapshot \cup {NoSnapshot}, CallLoad(s)
      PROVE  RefsExact' /\ Registries'
  <2>1. \A r \in Rev : Refs(r)' = {}
    BY <1>3 DEF CallLoad, Refs, EmptyMap
  <2>2. RefsExact'
    BY <1>3, <2>1, FS_EmptySet DEF CallLoad, RefsExact
  <2>3. Live' = {} /\ Counted' = {} /\ m_metas' = {} /\ m_users' = [u \in User |-> 0]
    BY <1>3 DEF CallLoad, Live, Counted, Rev
  <2>4. \A u \in User : Owned(u)' = {}
    BY <2>3 DEF Owned
  <2> QED
    BY <2>2, <2>3, <2>4, FS_EmptySet
       DEF Registries, MetasLive, OwnersKnown, UsersCounted, Owned
<1>4. ASSUME NEW k \in Key, UpsertEntry(k) PROVE RefsExact' /\ Registries'
  BY <1>1, <1>4, UpsertRefs, UpsertRegistries
<1>5. ASSUME NEW k \in Key, DeleteEntry(k) PROVE RefsExact' /\ Registries'
  BY <1>1, <1>5, DeleteRefs, DeleteRegistries
<1>6. CASE EndUpdate
  <2>1. RefsExact'
    BY <1>1, <1>6 DEF EndUpdate, RefsExact, Refs
  <2> QED
    BY <1>6, <2>1, EndUpdateRegistries
<1>7. ASSUME UNCHANGED <<m_data, nrefs, owner, m_metas, m_users, cur>>
      PROVE  RefsExact' /\ Registries'
  BY <1>1, <1>7 DEF RefsExact, Refs, Registries, MetasLive, OwnersKnown, UsersCounted,
                    Counted, Live
<1>8. CASE LoadNext
  <2>1. Head(rest) \in Update
    BY <1>1, <1>8, HeadTailProperties DEF LoadNext, Bounds, TypeOK
  <2> QED
    BY <1>2, <1>8, <2>1 DEF LoadNext
<1>9. ASSUME NEW u \in Update, CallUpdate(u) PROVE RefsExact' /\ Registries'
  BY <1>2, <1>9 DEF CallUpdate
<1> QED
  BY <1>3, <1>4, <1>5, <1>6, <1>7, <1>8, <1>9
     DEF Next, CallUpdateStale, InvalidEntry, LoadThrow, Throw, UpsertsDone, LoadEnd, vars

(* The empty store satisfies the inductive invariant.                      *)
LEMMA InitIInv == Init => IInv
BY InitBounds, EmptyStore DEF Init, IInv

(* The inductive invariant holds at every point of every sequence of calls *)
(* of update() and load(): types, bounds, exact reference counters, and    *)
(* registries in step with them.                                           *)
THEOREM StoreInvariant == Spec => []IInv
BY InitIInv, NextIInv, PTL DEF Spec

(* The inductive invariant that TLC checks on the small instance.          *)
THEOREM StoreInvHolds == Spec => []StoreInv
<1>1. IInv => StoreInv
  BY DEF IInv, Bounds, Registries, StoreInv
<1> QED
  BY <1>1, StoreInvariant, PTL

(* Reference counting in store_t is exact: at every point of update() and  *)
(* load(), the points where an exception may leave them included, the      *)
(* counter of a commit's metadata is the number of keys it wrote last.     *)
THEOREM StoreRefsExact == Spec => []RefsExact
<1>1. IInv => RefsExact
  BY DEF IInv
<1> QED
  BY <1>1, StoreInvariant, PTL

(* Between two calls m_metas holds the metadata of the values of the store *)
(* and nothing else.                                                       *)
THEOREM StoreMetasExact == Spec => []MetasExact
<1>1. IInv => MetasExact
  <2> SUFFICES ASSUME IInv, pc = "idle"
               PROVE  m_metas = {m_data[k].meta : k \in DOMAIN m_data}
    BY DEF MetasExact
  <2>1. TypeOK /\ RefsExact /\ cur = 0 /\ 0 \notin Rev
    BY DEF IInv, Bounds, CallLocals, Rev
  <2>2. m_metas = Live
    BY <2>1 DEF IInv, Registries, MetasLive, Live
  <2>3. \A r \in Rev : nrefs[r] > 0 <=> Refs(r) # {}
    BY <2>1, RefsFinite, FS_EmptySet DEF RefsExact
  <2>4. \A k \in DOMAIN m_data : m_data[k].meta \in Rev
    BY <2>1 DEF TypeOK, IsMap, Entry
  <2> QED
    BY <2>2, <2>3, <2>4 DEF Live, Refs
<1> QED
  BY <1>1, StoreInvariant, PTL

(* Between two calls every user with a value in the store is in m_users,   *)
(* with a reference for each commit of theirs that is live.                *)
THEOREM StoreUsersCover == Spec => []UsersCover
<1>1. IInv => UsersCover
  <2> SUFFICES ASSUME IInv, pc = "idle", NEW u \in User
               PROVE  m_users[u] >= Cardinality({r \in Live : owner[r] = u})
    BY DEF UsersCover
  <2>1. cur = 0 /\ 0 \notin Rev
    BY DEF IInv, Bounds, CallLocals, Rev
  <2>2. Counted = Live
    BY <2>1 DEF Counted, Live
  <2> QED
    BY <2>2 DEF IInv, Registries, UsersCounted
<1> QED
  BY <1>1, StoreInvariant, PTL

-----------------------------------------------------------------------------
(* The refinement: store_t implements the abstract replica KvReplica.      *)
(* Whoever looks at the store between two calls sees whole commits and     *)
(* whole snapshots only, each value stamped with the commit that wrote it. *)
(* And the changes that update() returns describe it exactly: they undo it.*)

(* The abstract content, key by key.                                       *)
AbsKeys == (DOMAIN m_data \cup DOMAIN upserts) \ deletes
AbsValue(k) ==
    IF k \in DOMAIN upserts THEN Stamped(upserts[k], cur)
    ELSE Stamped(m_data[k].data, m_data[k].meta)

(* The abstract content is a function given by its keys and its values.    *)
LEMMA AbsContentDef == AbsContent = [k \in AbsKeys |-> AbsValue(k)]
BY DEF AbsContent, Patch, AbsKeys, AbsValue, Stamped

(* A step that keeps the keys and the values keeps the abstract content.   *)
LEMMA AbsContentSame ==
    ASSUME AbsKeys' = AbsKeys, \A k \in AbsKeys : AbsValue(k)' = AbsValue(k)
    PROVE  AbsContent' = AbsContent
<1>1. AbsContent' = [k \in AbsKeys' |-> AbsValue(k)']
  BY DEF AbsContent, Patch, AbsKeys, AbsValue, Stamped
<1> QED
  BY <1>1, AbsContentDef

(* Outside of an exception, the abstract content is well formed.           *)
LEMMA AbsContentType ==
    ASSUME IInv, pc # "thrown"
    PROVE  Abs!IsContent(AbsContent)
<1>1. TypeOK /\ OwnersKnown /\ RefsExact
  BY DEF IInv, Bounds, Registries
<1>2. AbsKeys \subseteq Key
  BY <1>1 DEF AbsKeys, TypeOK, IsMap
<1>3. ASSUME NEW k \in AbsKeys PROVE AbsValue(k) \in Abs!ValueRec
  <2>1. CASE k \in DOMAIN upserts
    <3>1. upserts # EmptyMap
      BY <2>1 DEF EmptyMap
    <3>2. pc = "upserts"
      BY <1>1, <3>1 DEF IInv, Bounds, CallLocals, TypeOK
    <3>3. cur \in Rev /\ cur \in Nat \ {0}
      BY <1>1, <3>2, StoreAssumption DEF TypeOK, Rev
    <3>4. owner[cur] \in User /\ upserts[k] \in Data
      BY <1>1, <2>1, <3>3 DEF OwnersKnown, Counted, TypeOK, IsMap
    <3> QED
      BY <2>1, <3>3, <3>4 DEF AbsValue, Stamped, Abs!ValueRec
  <2>2. CASE k \notin DOMAIN upserts
    <3>1. k \in DOMAIN m_data
      BY <2>2 DEF AbsKeys
    <3>2. /\ m_data[k].meta \in Rev /\ m_data[k].data \in Data
          /\ m_data[k].meta \in Nat \ {0}
      BY <1>1, <3>1 DEF TypeOK, IsMap, Entry, Rev
    <3>3. nrefs[m_data[k].meta] > 0
      BY <1>1, <3>1, ReleaseCount
    <3>4. owner[m_data[k].meta] \in User
      BY <1>1, <3>2, <3>3 DEF OwnersKnown, Counted, Live
    <3> QED
      BY <2>2, <3>2, <3>4 DEF AbsValue, Stamped, Abs!ValueRec
  <2> QED
    BY <2>1, <2>2
<1> QED
  BY <1>2, <1>3, AbsContentDef DEF Abs!IsContent, Abs!IsMap

(* The same, after a step.                                                 *)
LEMMA AbsContentTypeNext == (IInv /\ pc # "thrown" => Abs!IsContent(AbsContent))'
<1>1. IInv /\ pc # "thrown" => Abs!IsContent(AbsContent)
  BY AbsContentType
<1> QED
  BY <1>1, PTL

-----------------------------------------------------------------------------
(* A step inside of update_internal() is invisible: what is applied to     *)
(* m_data is what is taken from the entries still to be applied, and the   *)
(* metadata that is released is of no value any more.                      *)
LEMMA ReleasedOwner ==
    ASSUME TypeOK, RefsExact, NEW k \in DOMAIN m_data, NEW q, q = m_data[k].meta,
           NEW x \in DOMAIN m_data, x # k, owner' = OwnerAfterRelease(q)
    PROVE  owner'[m_data[x].meta] = owner[m_data[x].meta]
<1>1. /\ q \in Rev /\ k \in Refs(q) /\ NrefsAfterRelease(q) = nrefs[q] - 1
      /\ Cardinality(Refs(q) \ {k}) = nrefs[q] - 1
  BY ReleaseCount
<1>2. CASE NrefsAfterRelease(q) = 0
  <2>1. IsFiniteSet(Refs(q) \ {k})
    BY RefsFinite, FS_RemoveElement
  <2>2. Refs(q) \ {k} = {}
    BY <1>1, <1>2, <2>1, FS_EmptySet
  <2>3. m_data[x].meta # q
    BY <2>2 DEF Refs
  <2> QED
    BY <1>1, <2>3 DEF OwnerAfterRelease, TypeOK
<1>3. CASE NrefsAfterRelease(q) # 0
  BY <1>3 DEF OwnerAfterRelease
<1> QED
  BY <1>2, <1>3

(* upsert_entry() does not change the abstract content.                    *)
LEMMA UpsertInvisible ==
    ASSUME IInv, NEW k \in Key, UpsertEntry(k)
    PROVE  AbsContent' = AbsContent
<1>1. TypeOK /\ RefsExact /\ cur \in Rev
  BY DEF IInv, Bounds, TypeOK, UpsertEntry, Rev
<1>2. /\ DOMAIN m_data' = DOMAIN m_data \cup {k}
      /\ m_data'[k] = [data |-> upserts[k], meta |-> cur]
      /\ \A x \in DOMAIN m_data \ {k} : m_data'[x] = m_data[x]
      /\ DOMAIN upserts' = DOMAIN upserts \ {k}
      /\ \A x \in DOMAIN upserts \ {k} : upserts'[x] = upserts[x]
      /\ deletes' = deletes /\ cur' = cur /\ k \in DOMAIN upserts
  BY DEF UpsertEntry, Put, Drop
<1>3. AbsKeys' = AbsKeys
  BY <1>2 DEF AbsKeys
<1>4. owner'[cur] = owner[cur]
  <2>1. CASE UpsertCreate(k)
    BY <2>1 DEF UpsertCreate
  <2>2. CASE UpsertUpdate(k)
    <3>1. m_data[k].meta # cur
      BY <1>2, <2>2 DEF UpsertUpdate, UpsertEntry, IInv, Bounds, CallLocals
    <3> QED
      BY <1>1, <2>2, <3>1 DEF UpsertUpdate, OwnerAfterRelease, TypeOK
  <2> QED
    BY <2>1, <2>2 DEF UpsertEntry
<1>5. \A x \in DOMAIN m_data \ {k} : owner'[m_data[x].meta] = owner[m_data[x].meta]
  <2>1. CASE UpsertCreate(k)
    BY <2>1 DEF UpsertCreate
  <2>2. CASE UpsertUpdate(k)
    BY <1>1, <2>2, ReleasedOwner DEF UpsertUpdate
  <2> QED
    BY <2>1, <2>2 DEF UpsertEntry
<1>6. ASSUME NEW x \in AbsKeys PROVE AbsValue(x)' = AbsValue(x)
  <2>1. CASE x = k
    BY <1>2, <1>4, <2>1 DEF AbsValue, Stamped
  <2>2. CASE x # k
    BY <1>2, <1>4, <1>5, <2>2 DEF AbsKeys, AbsValue, Stamped
  <2> QED
    BY <2>1, <2>2
<1> QED
  BY <1>3, <1>6, AbsContentSame

(* delete_entry() does not change the abstract content.                    *)
LEMMA DeleteInvisible ==
    ASSUME IInv, NEW k \in Key, DeleteEntry(k)
    PROVE  AbsContent' = AbsContent
<1>1. TypeOK /\ RefsExact
  BY DEF IInv, Bounds
<1>2. /\ DOMAIN m_data' = DOMAIN m_data \ {k}
      /\ \A x \in DOMAIN m_data' : m_data'[x] = m_data[x]
      /\ deletes' = deletes \ {k} /\ cur' = cur /\ upserts' = upserts /\ k \in deletes
  BY DEF DeleteEntry, DeleteAbsent, DeletePresent, Drop
<1>3. DOMAIN upserts = {}
  BY DEF IInv, Bounds, CallLocals, DeleteEntry, EmptyMap
<1>4. AbsKeys' = AbsKeys
  BY <1>2, <1>3 DEF AbsKeys
<1>5. \A x \in DOMAIN m_data \ {k} : owner'[m_data[x].meta] = owner[m_data[x].meta]
  <2>1. CASE DeleteAbsent(k)
    BY <2>1 DEF DeleteAbsent
  <2>2. CASE DeletePresent(k)
    BY <1>1, <2>2, ReleasedOwner DEF DeletePresent
  <2> QED
    BY <2>1, <2>2 DEF DeleteEntry
<1>6. ASSUME NEW x \in AbsKeys PROVE AbsValue(x)' = AbsValue(x)
  BY <1>2, <1>3, <1>5 DEF AbsKeys, AbsValue, Stamped
<1> QED
  BY <1>4, <1>6, AbsContentSame

(* The end of update_internal() does not change the abstract content.      *)
LEMMA EndUpdateInvisible ==
    ASSUME IInv, EndUpdate
    PROVE  AbsContent' = AbsContent
<1>1. TypeOK /\ RefsExact /\ cur \in Rev
  BY DEF IInv, Bounds, TypeOK, EndUpdate, Rev
<1>2. DOMAIN upserts = {}
  BY DEF IInv, Bounds, CallLocals, EndUpdate, EmptyMap
<1>3. AbsKeys' = AbsKeys
  BY DEF EndUpdate, AbsKeys
<1>4. \A x \in DOMAIN m_data : owner'[m_data[x].meta] = owner[m_data[x].meta]
  <2> TAKE x \in DOMAIN m_data
  <2>1. nrefs[m_data[x].meta] > 0 /\ m_data[x].meta \in Rev
    BY <1>1, ReleaseCount
  <2> QED
    BY <1>1, <2>1 DEF EndUpdate, TypeOK
<1>5. ASSUME NEW x \in AbsKeys PROVE AbsValue(x)' = AbsValue(x)
  BY <1>2, <1>4 DEF EndUpdate, AbsKeys, AbsValue, Stamped
<1> QED
  BY <1>3, <1>5, AbsContentSame

-----------------------------------------------------------------------------
(* Between two calls there is nothing to be applied.                       *)
LEMMA IdleContent ==
    ASSUME IInv, pc \in {"idle", "load"}
    PROVE  AbsKeys = DOMAIN m_data /\ DOMAIN upserts = {} /\ cur = 0
BY DEF IInv, Bounds, CallLocals, AbsKeys, EmptyMap

(* A commit that update_internal() begins is applied to the abstract       *)
(* content as a whole.                                                     *)
LEMMA BeginUpdatePatches ==
    ASSUME IInv, NEW u \in Update, BeginUpdate(u), pc \in {"idle", "load"}
    PROVE  AbsContent' = Patch(AbsContent, u.upserts, u.deletes, u.rev, u.user)
<1>1. TypeOK /\ RefsExact /\ AbsKeys = DOMAIN m_data /\ DOMAIN upserts = {}
  BY IdleContent DEF IInv, Bounds
<1>2. /\ u.rev \in Rev /\ nrefs[u.rev] = 0
  BY <1>1, UpdateFields, BeginUpdateRefs DEF IInv
<1>3. /\ u.rev > m_rev /\ m_rev' = u.rev /\ cur' = u.rev /\ m_data' = m_data
      /\ upserts' = u.upserts /\ deletes' = u.deletes
      /\ owner' = [owner EXCEPT ![u.rev] = u.user]
  BY DEF BeginUpdate, create_meta
<1>4. owner'[u.rev] = u.user
  BY <1>1, <1>2, <1>3 DEF TypeOK
<1>5. \A x \in DOMAIN m_data : owner'[m_data[x].meta] = owner[m_data[x].meta]
  <2> TAKE x \in DOMAIN m_data
  <2>1. nrefs[m_data[x].meta] > 0 /\ m_data[x].meta \in Rev
    BY <1>1, ReleaseCount
  <2> QED
    BY <1>1, <1>2, <1>3, <2>1 DEF TypeOK
<1>6. AbsContent' = [k \in (DOMAIN m_data \cup DOMAIN u.upserts) \ u.deletes |->
                        IF k \in DOMAIN u.upserts
                        THEN [data |-> u.upserts[k], rev |-> u.rev, user |-> u.user]
                        ELSE AbsContent[k]]
  <2>1. AbsContent' = [k \in AbsKeys' |-> AbsValue(k)']
    BY DEF AbsContent, Patch, AbsKeys, AbsValue, Stamped
  <2>2. AbsKeys' = (DOMAIN m_data \cup DOMAIN u.upserts) \ u.deletes
    BY <1>3 DEF AbsKeys
  <2>3. \A k \in DOMAIN m_data :
            AbsContent[k] = Stamped(m_data[k].data, m_data[k].meta)
    BY <1>1, AbsContentDef DEF AbsValue
  <2>4. \A k \in AbsKeys' :
            AbsValue(k)' = IF k \in DOMAIN u.upserts
                           THEN [data |-> u.upserts[k], rev |-> u.rev, user |-> u.user]
                           ELSE AbsContent[k]
    BY <1>3, <1>4, <1>5, <2>2, <2>3 DEF AbsValue, Stamped
  <2> QED
    BY <2>1, <2>2, <2>4
<1>7. DOMAIN AbsContent = DOMAIN m_data
  BY <1>1, AbsContentDef
<1> QED
  BY <1>6, <1>7 DEF Patch

(* update() on a store that is between two calls is the abstract Apply.    *)
LEMMA UpdateApplies ==
    ASSUME IInv, NEW u \in Update, CallUpdate(u)
    PROVE  Abs!Apply(u)
<1>1. /\ loading = NoSnapshot /\ pc = "idle" /\ BeginUpdate(u) /\ loading' = loading
      /\ u.rev > m_rev /\ m_rev' = u.rev /\ pc' = "upserts"
  BY DEF IInv, Bounds, CallLocals, CallUpdate, BeginUpdate
<1>2. AbsContent' = Patch(AbsContent, u.upserts, u.deletes, u.rev, u.user)
  BY <1>1, BeginUpdatePatches
<1> QED
  BY <1>1, <1>2 DEF Abs!Apply, Abs!Patch, Patch

(* An empty store shows an empty content.                                  *)
LEMMA EmptyAbsContent ==
    ASSUME m_data = EmptyMap, upserts = EmptyMap, deletes = {}
    PROVE  AbsContent = EmptyMap
BY AbsContentDef DEF AbsKeys, EmptyMap

(* So does load(), to begin with.                                          *)
LEMMA LoadEmpties ==
    ASSUME NEW s \in Snapshot \cup {NoSnapshot}, CallLoad(s)
    PROVE  AbsContent' = EmptyMap
<1>1. AbsContent' = [k \in AbsKeys' |-> AbsValue(k)']
  BY DEF AbsContent, Patch, AbsKeys, AbsValue, Stamped
<1>2. AbsKeys' = {}
  BY DEF CallLoad, AbsKeys, EmptyMap
<1> QED
  BY <1>1, <1>2 DEF EmptyMap

(* The top of load() empties the copy; unless it stops there, the copy     *)
(* cannot be used until the snapshot is in.                                *)
LEMMA LoadResetsOrInvalidates ==
    ASSUME NEW s \in Snapshot \cup {NoSnapshot}, CallLoad(s)
    PROVE  Abs!Reset \/ Abs!Invalidate
<1>1. AbsContent' = EmptyMap
  BY LoadEmpties
<1>2. m_rev' = 0 /\ loading' = s /\ pc' # "thrown"
  BY DEF CallLoad
<1>3. CASE s = NoSnapshot
  BY <1>1, <1>2, <1>3 DEF Abs!Reset, Abs!EmptyMap, EmptyMap
<1>4. CASE s # NoSnapshot
  <2>1. Abs!IsContent(AbsContent')
    BY <1>1 DEF Abs!IsContent, Abs!IsMap, EmptyMap
  <2> QED
    BY <1>2, <1>4, <2>1 DEF Abs!Invalidate
<1> QED
  BY <1>3, <1>4

-----------------------------------------------------------------------------
(* What the commits of a snapshot make of an empty content.                *)
LEMMA LastIsUnique ==
    ASSUME NEW us, NEW n \in Nat, NEW k, NEW i, Abs!Last(us, n, k, i)
    PROVE  Abs!LastOf(us, n, k) = i
<1>1. i \in 1 .. n
  BY DEF Abs!Last
<1>2. \A j \in 1 .. n : Abs!Last(us, n, k, j) => j = i
  BY <1>1 DEF Abs!Last
<1> QED
  BY <1>1, <1>2 DEF Abs!LastOf

(* Before the first commit there is nothing.                               *)
LEMMA NoCommitsNoContent ==
    ASSUME NEW us
    PROVE  Abs!ContentOf(us, 0) = EmptyMap
<1>1. {x \in Key : Abs!Present(us, 0, x)} = {}
  BY DEF Abs!Present
<1> QED
  BY <1>1 DEF Abs!ContentOf, EmptyMap

(* One commit more decides the keys it names and leaves the others.        *)
LEMMA LastMoves ==
    ASSUME NEW us, NEW n \in Nat, NEW k
    PROVE  /\ Abs!Names(us[n + 1], k) => Abs!Last(us, n + 1, k, n + 1)
           /\ ~Abs!Names(us[n + 1], k) =>
                \A i : Abs!Last(us, n + 1, k, i) <=> Abs!Last(us, n, k, i)
<1>1. Abs!Names(us[n + 1], k) => Abs!Last(us, n + 1, k, n + 1)
  BY DEF Abs!Last
<1>2. ASSUME ~Abs!Names(us[n + 1], k), NEW i
      PROVE  Abs!Last(us, n + 1, k, i) <=> Abs!Last(us, n, k, i)
  <2>1. ASSUME Abs!Last(us, n + 1, k, i) PROVE Abs!Last(us, n, k, i)
    <3>1. i \in 1 .. n + 1 /\ i # n + 1
      BY <1>2, <2>1 DEF Abs!Last
    <3> QED BY <2>1, <3>1 DEF Abs!Last
  <2>2. ASSUME Abs!Last(us, n, k, i) PROVE Abs!Last(us, n + 1, k, i)
    <3>1. i \in 1 .. n
      BY <2>2 DEF Abs!Last
    <3>2. \A j \in i + 1 .. n + 1 : j \in i + 1 .. n \/ j = n + 1
      BY <3>1
    <3> QED BY <1>2, <2>2, <3>1, <3>2 DEF Abs!Last
  <2> QED BY <2>1, <2>2
<1> QED BY <1>1, <1>2

LEMMA ContentOfNext ==
    ASSUME NEW us, NEW n \in Nat, NEW u, u = us[n + 1], DOMAIN u.upserts \subseteq Key,
           DOMAIN u.upserts \cap u.deletes = {}
    PROVE  Abs!ContentOf(us, n + 1)
                = Patch(Abs!ContentOf(us, n), u.upserts, u.deletes, u.rev, u.user)
<1> DEFINE P(m) == {x \in Key : Abs!Present(us, m, x)}
           V(m, k) == [data |-> us[Abs!LastOf(us, m, k)].upserts[k],
                       rev |-> us[Abs!LastOf(us, m, k)].rev,
                       user |-> us[Abs!LastOf(us, m, k)].user]
           W(k) == IF k \in DOMAIN u.upserts
                   THEN [data |-> u.upserts[k], rev |-> u.rev, user |-> u.user]
                   ELSE V(n, k)
<1>1. /\ Abs!ContentOf(us, n + 1) = [k \in P(n + 1) |-> V(n + 1, k)]
      /\ Abs!ContentOf(us, n) = [k \in P(n) |-> V(n, k)]
  BY DEF Abs!ContentOf
<1>2. ASSUME NEW k, Abs!Names(u, k)
      PROVE  /\ Abs!Present(us, n + 1, k) <=> k \in DOMAIN u.upserts
             /\ Abs!LastOf(us, n + 1, k) = n + 1
  <2>1. Abs!Last(us, n + 1, k, n + 1) /\ n + 1 \in Nat /\ n + 1 \in 1 .. n + 1
    BY <1>2, LastMoves
  <2>2. \A i : Abs!Last(us, n + 1, k, i) => i = n + 1
    BY <2>1, LastIsUnique
  <2> QED BY <2>1, <2>2, LastIsUnique DEF Abs!Present
<1>3. ASSUME NEW k, ~Abs!Names(u, k)
      PROVE  /\ Abs!Present(us, n + 1, k) <=> Abs!Present(us, n, k)
             /\ Abs!Present(us, n, k) => Abs!LastOf(us, n + 1, k) = Abs!LastOf(us, n, k)
  <2>1. \A i : Abs!Last(us, n + 1, k, i) <=> Abs!Last(us, n, k, i)
    BY <1>3, LastMoves
  <2>2. \A i : Abs!Last(us, n, k, i) => i \in 1 .. n /\ i \in 1 .. n + 1
    BY DEF Abs!Last
  <2>3. Abs!Present(us, n + 1, k) <=> Abs!Present(us, n, k)
    BY <2>1, <2>2 DEF Abs!Present
  <2>4. ASSUME NEW i, Abs!Last(us, n, k, i)
        PROVE  Abs!LastOf(us, n + 1, k) = Abs!LastOf(us, n, k)
    <3>1. Abs!LastOf(us, n, k) = i
      BY <2>4, LastIsUnique
    <3>2. Abs!LastOf(us, n + 1, k) = i
      BY <2>1, <2>4, LastIsUnique
    <3> QED BY <3>1, <3>2
  <2> QED BY <2>3, <2>4 DEF Abs!Present
<1>4. P(n + 1) = (P(n) \cup DOMAIN u.upserts) \ u.deletes
  <2>1. ASSUME NEW k \in Key
        PROVE  k \in P(n + 1) <=> k \in (P(n) \cup DOMAIN u.upserts) \ u.deletes
    <3>1. CASE Abs!Names(u, k)
      BY <1>2, <3>1 DEF Abs!Names
    <3>2. CASE ~Abs!Names(u, k)
      BY <1>3, <3>2 DEF Abs!Names
    <3> QED BY <3>1, <3>2
  <2> QED BY <2>1
<1>5. ASSUME NEW k \in P(n + 1) PROVE V(n + 1, k) = W(k)
  <2>1. CASE k \in DOMAIN u.upserts
    <3>1. Abs!LastOf(us, n + 1, k) = n + 1
      BY <1>2, <2>1 DEF Abs!Names
    <3> QED BY <2>1, <3>1
  <2>2. CASE k \notin DOMAIN u.upserts
    <3>1. ~Abs!Names(u, k) /\ k \in P(n)
      BY <1>4, <2>2 DEF Abs!Names
    <3>2. Abs!LastOf(us, n + 1, k) = Abs!LastOf(us, n, k)
      BY <1>3, <3>1
    <3> QED BY <2>2, <3>2
  <2> QED BY <2>1, <2>2
<1>6. ASSUME NEW c, c = Abs!ContentOf(us, n)
      PROVE  Patch(c, u.upserts, u.deletes, u.rev, u.user)
                = [k \in (P(n) \cup DOMAIN u.upserts) \ u.deletes |-> W(k)]
  <2> HIDE DEF P, V
  <2> QED BY <1>1, <1>6 DEF Patch
<1> HIDE DEF P, V, W
<1> QED BY <1>1, <1>4, <1>5, <1>6

(* While load() goes on, the content is what the commits of the snapshot   *)
(* that have been applied make, and the others are still to come.          *)
Taken(n) ==
    /\ Len(rest) = Len(loading.updates) - n
    /\ \A i \in 1 .. Len(rest) : rest[i] = loading.updates[n + i]
    /\ Abs!InOrder(loading, n) /\ \A i \in 1 .. n : loading.updates[i].rev <= m_rev
    /\ AbsContent = Abs!ContentOf(loading.updates, n)
LoadedSoFar ==
    loading # NoSnapshot /\ pc # "thrown" => \E n \in 0 .. Len(loading.updates) : Taken(n)

(* A step that leaves the load and the content alone.                      *)
LEMMA LoadedSoFarSame ==
    ASSUME LoadedSoFar, AbsContent' = AbsContent, UNCHANGED <<rest, loading, m_rev>>,
           pc # "thrown"
    PROVE  LoadedSoFar'
<1>1. ASSUME loading # NoSnapshot
      PROVE  \E n \in 0 .. Len(loading.updates)' : Taken(n)'
  <2>1. PICK n \in 0 .. Len(loading.updates) : Taken(n)
    BY <1>1 DEF LoadedSoFar
  <2>2. Taken(n)'
    BY <2>1 DEF Taken, Abs!InOrder
  <2> QED BY <2>1, <2>2
<1> QED BY <1>1 DEF LoadedSoFar

(* The next commit of the snapshot is applied.                             *)
LEMMA LoadNextTakes ==
    ASSUME IInv, LoadedSoFar, LoadNext
    PROVE  LoadedSoFar'
<1> DEFINE us == loading.updates  u == Head(rest)
<1>1. /\ pc = "load" /\ rest # <<>> /\ u.rev <= loading.rev /\ BeginUpdate(u)
      /\ rest' = Tail(rest) /\ loading' = loading /\ u.rev > m_rev /\ m_rev' = u.rev
  BY DEF LoadNext, BeginUpdate
<1>2. /\ loading # NoSnapshot /\ loading \in Snapshot /\ rest \in Seq(Update) /\ m_rev \in Nat
  BY <1>1, StoreAssumption DEF IInv, Bounds, TypeOK
<1>3. us \in Seq(Update)
  BY <1>2, StoreAssumption
<1>4. PICK n \in 0 .. Len(us) : Taken(n)
  BY <1>1, <1>2 DEF LoadedSoFar
<1>5. /\ u \in Update /\ u = rest[1] /\ Len(rest) > 0 /\ Len(rest) \in Nat
      /\ Len(rest') = Len(rest) - 1 /\ \A i \in 1 .. Len(rest') : rest'[i] = rest[i + 1]
  BY <1>1, <1>2
<1>6. n \in Nat /\ n + 1 \in 1 .. Len(us) /\ u = us[n + 1]
  <2>1. Len(us) \in Nat /\ Len(rest) = Len(us) - n /\ \A i \in 1 .. Len(rest) : rest[i] = us[n + i]
    BY <1>3, <1>4 DEF Taken
  <2>2. 1 \in 1 .. Len(rest)
    BY <1>5
  <2>3. rest[1] = us[n + 1]
    BY <2>1, <2>2
  <2> QED BY <1>5, <2>1, <2>3
<1>7. /\ u.rev \in Nat /\ DOMAIN u.upserts \subseteq Key /\ DOMAIN u.upserts \cap u.deletes = {}
  BY <1>5, UpdateFields DEF Rev, IsMap
<1>8. AbsContent' = Abs!ContentOf(us, n + 1)
  <2>1. AbsContent' = Patch(AbsContent, u.upserts, u.deletes, u.rev, u.user)
    BY <1>1, <1>5, BeginUpdatePatches
  <2>2. AbsContent = Abs!ContentOf(us, n)
    BY <1>4 DEF Taken
  <2> QED BY <1>6, <1>7, <2>1, <2>2, ContentOfNext
<1>9. \A i \in 1 .. n + 1 : i \in 1 .. n \/ i = n + 1
  BY <1>6
<1>10. \A i \in 1 .. n : us[i].rev \in Nat /\ us[i].rev <= m_rev
  <2> TAKE i \in 1 .. n
  <2>1. us[i] \in Update
    BY <1>3, <1>6
  <2> QED BY <1>4, <2>1, UpdateFields DEF Taken, Rev
<1>11. Abs!InOrder(loading, n + 1) /\ \A i \in 1 .. n + 1 : us[i].rev <= u.rev
  <2>1. \A i \in 1 .. n : us[i].rev < u.rev
    BY <1>1, <1>2, <1>7, <1>10
  <2>2. \A i \in 1 .. n + 1 : us[i].rev <= u.rev
    BY <1>6, <1>7, <1>9, <1>10, <2>1
  <2>3. ASSUME NEW i \in 1 .. n + 1
        PROVE  us[i].rev <= loading.rev /\ \A j \in 1 .. i - 1 : us[j].rev < us[i].rev
    <3>1. CASE i \in 1 .. n
      BY <1>4, <3>1 DEF Taken, Abs!InOrder
    <3>2. CASE i = n + 1
      BY <1>1, <1>6, <2>1, <3>2
    <3> QED BY <1>9, <3>1, <3>2
  <2> QED BY <2>2, <2>3 DEF Abs!InOrder
<1>12. Len(rest') = Len(us) - (n + 1) /\ \A i \in 1 .. Len(rest') : rest'[i] = us[n + 1 + i]
  <2>1. Len(rest) = Len(us) - n /\ \A i \in 1 .. Len(rest) : rest[i] = us[n + i]
    BY <1>4 DEF Taken
  <2>2. ASSUME NEW i \in 1 .. Len(rest') PROVE rest'[i] = us[n + 1 + i]
    <3>1. i + 1 \in 1 .. Len(rest) /\ n + (i + 1) = n + 1 + i
      BY <1>5, <1>6
    <3> QED BY <1>5, <2>1, <3>1
  <2> QED BY <1>3, <1>5, <1>6, <2>1, <2>2
<1>13. Taken(n + 1)'
  BY <1>1, <1>8, <1>11, <1>12 DEF Taken, Abs!InOrder
<1> QED
  BY <1>1, <1>6, <1>13 DEF LoadedSoFar

(* load() keeps track of the snapshot.                                     *)
LEMMA NextLoadedSoFar == IInv /\ LoadedSoFar /\ [Next]_vars => LoadedSoFar'
<1> SUFFICES ASSUME IInv, LoadedSoFar, [Next]_vars PROVE LoadedSoFar'
  OBVIOUS
<1>1. ASSUME NEW u \in Update, CallUpdate(u) PROVE LoadedSoFar'
  BY <1>1 DEF CallUpdate, IInv, Bounds, CallLocals, LoadedSoFar
<1>2. CASE Throw
  BY <1>2 DEF Throw, LoadedSoFar
<1>3. ASSUME NEW s \in Snapshot \cup {NoSnapshot}, CallLoad(s) PROVE LoadedSoFar'
  <2>1. CASE s = NoSnapshot
    BY <1>3, <2>1 DEF CallLoad, LoadedSoFar
  <2>2. CASE s # NoSnapshot
    <3>1. loading' = s /\ rest' = s.updates /\ s \in Snapshot
      BY <1>3, <2>2 DEF CallLoad
    <3>2. s.updates \in Seq(Update)
      BY <3>1, StoreAssumption
    <3>3. AbsContent' = Abs!ContentOf(s.updates, 0)
      BY <1>3, LoadEmpties, NoCommitsNoContent
    <3>4. Taken(0)'
      BY <3>1, <3>2, <3>3 DEF Taken, Abs!InOrder
    <3> QED BY <3>1, <3>2, <3>4 DEF LoadedSoFar
  <2> QED BY <2>1, <2>2
<1>4. ASSUME NEW k \in Key, UpsertEntry(k) PROVE LoadedSoFar'
  BY <1>4, UpsertInvisible, LoadedSoFarSame DEF UpsertEntry
<1>5. ASSUME NEW k \in Key, DeleteEntry(k) PROVE LoadedSoFar'
  BY <1>5, DeleteInvisible, LoadedSoFarSame DEF DeleteEntry
<1>6. CASE UpsertsDone
  <2>1. AbsContent' = AbsContent
    BY <1>6 DEF UpsertsDone, AbsContent, Patch, Stamped
  <2> QED BY <1>6, <2>1, LoadedSoFarSame DEF UpsertsDone
<1>7. CASE EndUpdate
  BY <1>7, EndUpdateInvisible, LoadedSoFarSame DEF EndUpdate
<1>8. CASE LoadNext
  BY <1>8, LoadNextTakes
<1>9. CASE LoadEnd
  BY <1>9 DEF LoadEnd, LoadedSoFar
<1>10. CASE UNCHANGED vars
  <2>1. AbsContent' = AbsContent
    BY <1>10 DEF vars, AbsContent, Patch, Stamped
  <2> QED BY <1>10, <2>1, LoadedSoFarSame DEF vars, LoadedSoFar
<1> QED
  BY <1>1, <1>2, <1>3, <1>4, <1>5, <1>6, <1>7, <1>8, <1>9, <1>10
     DEF Next, CallUpdateStale, InvalidEntry, LoadThrow

(* The end of load() is the abstract Loaded: the copy is the snapshot.     *)
LEMMA LoadEndLoads ==
    ASSUME IInv, LoadedSoFar, LoadEnd
    PROVE  \E s \in Snapshot : Abs!Loaded(s)
<1> DEFINE us == loading.updates
<1>1. /\ pc = "load" /\ rest = <<>> /\ m_rev' = loading.rev /\ loading' = NoSnapshot
      /\ pc' = "idle" /\ AbsContent' = AbsContent
  BY DEF LoadEnd, AbsContent, Patch, Stamped
<1>2. loading # NoSnapshot /\ loading \in Snapshot
  BY <1>1 DEF IInv, Bounds, TypeOK
<1>3. us \in Seq(Update)
  BY <1>2, StoreAssumption
<1>4. PICK n \in 0 .. Len(us) : Taken(n)
  BY <1>1, <1>2 DEF LoadedSoFar
<1>5. n = Len(us)
  BY <1>1, <1>3, <1>4 DEF Taken
<1>6. Abs!InOrder(loading, Len(us)) /\ AbsContent = Abs!ContentOf(us, Len(us))
  BY <1>4, <1>5 DEF Taken
<1> QED
  BY <1>1, <1>2, <1>6 DEF Abs!Loaded

(* Every step of a call of store_t is a step of the abstract replica, or   *)
(* leaves it alone.                                                        *)
LEMMA StepRefines ==
    ASSUME IInv, IInv', LoadedSoFar, [Next]_vars
    PROVE  [Abs!Next]_Abs!vars
<1>1. ASSUME NEW u \in Update, CallUpdate(u) PROVE Abs!Next
  BY <1>1, UpdateApplies DEF Abs!Next
<1>2. ASSUME Throw, pc # "thrown" PROVE Abs!Next
  <2>1. AbsContent' = AbsContent /\ m_rev' \in Nat /\ pc' = "thrown"
    BY <1>2, StoreAssumption
       DEF Throw, AbsContent, Patch, Stamped, IInv, Bounds, TypeOK
  <2>2. Abs!IsContent(AbsContent)
    BY <1>2, AbsContentType
  <2> QED
    BY <2>1, <2>2 DEF Abs!Next, Abs!Invalidate
<1>3. ASSUME NEW s \in Snapshot \cup {NoSnapshot}, CallLoad(s) PROVE Abs!Next
  BY <1>3, LoadResetsOrInvalidates DEF Abs!Next
<1>4. ASSUME NEW k \in Key, UpsertEntry(k) PROVE UNCHANGED Abs!vars
  BY <1>4, UpsertInvisible DEF UpsertEntry, Abs!vars
<1>5. ASSUME NEW k \in Key, DeleteEntry(k) PROVE UNCHANGED Abs!vars
  BY <1>5, DeleteInvisible DEF DeleteEntry, Abs!vars
<1>6. CASE UpsertsDone
  <2>1. AbsContent' = AbsContent
    BY <1>6 DEF UpsertsDone, AbsContent, Patch, Stamped
  <2> QED
    BY <1>6, <2>1 DEF UpsertsDone, Abs!vars
<1>7. CASE EndUpdate
  BY <1>7, EndUpdateInvisible DEF EndUpdate, Abs!vars
<1>8. CASE LoadNext
  <2>1. Abs!IsContent(AbsContent)'
    <3>1. pc' # "thrown"
      BY <1>8 DEF LoadNext, BeginUpdate
    <3> QED
      BY <3>1, AbsContentTypeNext
  <2>2. m_rev' \in Nat /\ loading' # NoSnapshot
    BY <1>8, StoreAssumption DEF LoadNext, IInv, Bounds, TypeOK
  <2> QED
    BY <2>1, <2>2 DEF Abs!Next, Abs!Invalidate
<1>9. CASE LoadEnd
  BY <1>9, LoadEndLoads DEF Abs!Next
<1>10. CASE UNCHANGED vars
  <2>1. AbsContent' = AbsContent
    BY <1>10 DEF vars, AbsContent, Patch, Stamped
  <2> QED
    BY <1>10, <2>1 DEF vars, Abs!vars
<1> QED
  BY <1>1, <1>2, <1>3, <1>4, <1>5, <1>6, <1>7, <1>8, <1>9, <1>10
     DEF Next, CallUpdateStale, InvalidEntry, LoadThrow

(* Every call of store_t is one atomic step of the abstract replica.       *)
THEOREM StoreImplementsReplica == Spec => ImplementsReplica
<1>1. Init => Abs!Init /\ LoadedSoFar
  <2> SUFFICES ASSUME Init PROVE Abs!Init /\ LoadedSoFar
    OBVIOUS
  <2>1. AbsContent = EmptyMap
    BY EmptyAbsContent DEF Init
  <2>2. LoadedSoFar
    BY DEF Init, LoadedSoFar
  <2> QED
    BY <2>1, <2>2 DEF Init, Abs!Init, Abs!EmptyMap, EmptyMap
<1>2. IInv /\ LoadedSoFar /\ [Next]_vars => LoadedSoFar'
  BY NextLoadedSoFar
<1>3. IInv /\ IInv' /\ LoadedSoFar /\ [Next]_vars => [Abs!Next]_Abs!vars
  BY StepRefines
<1> QED
  BY <1>1, <1>2, <1>3, StoreInvariant, PTL DEF Spec, ImplementsReplica, Abs!Spec

-----------------------------------------------------------------------------
(* What update() returns.  An entry still to be applied is not among the   *)
(* changes yet: no key is reported twice.                                  *)
ChangesFresh ==
    pc \in {"upserts", "deletes"} => DOMAIN changes \cap (DOMAIN upserts \cup deletes) = {}

(* Every step of a call keeps that.                                        *)
LEMMA NextChangesFresh == IInv /\ ChangesFresh /\ [Next]_vars => ChangesFresh'
<1> SUFFICES ASSUME IInv, ChangesFresh, [Next]_vars PROVE ChangesFresh'
  OBVIOUS
<1>1. ASSUME NEW u, BeginUpdate(u) PROVE ChangesFresh'
  BY <1>1 DEF BeginUpdate, ChangesFresh, EmptyMap
<1>2. ASSUME NEW k \in Key, UpsertEntry(k) PROVE ChangesFresh'
  <2>1. /\ DOMAIN changes' = DOMAIN changes \cup {k} /\ DOMAIN upserts' = DOMAIN upserts \ {k}
        /\ deletes' = deletes /\ pc = "upserts" /\ k \in DOMAIN upserts
    BY <1>2 DEF UpsertEntry, UpsertCreate, UpsertUpdate, Put, Drop
  <2>2. k \notin deletes
    BY <2>1 DEF IInv, Bounds, CallLocals
  <2> QED
    BY <2>1, <2>2 DEF ChangesFresh
<1>3. ASSUME NEW k \in Key, DeleteEntry(k) PROVE ChangesFresh'
  <2>1. /\ DOMAIN changes' \subseteq DOMAIN changes \cup {k} /\ upserts' = upserts
        /\ deletes' = deletes \ {k} /\ pc = "deletes" /\ k \in deletes
    BY <1>3 DEF DeleteEntry, DeleteAbsent, DeletePresent, Put
  <2>2. k \notin DOMAIN upserts
    BY <2>1 DEF IInv, Bounds, CallLocals
  <2> QED
    BY <2>1, <2>2 DEF ChangesFresh
<1>4. ASSUME pc' \notin {"upserts", "deletes"} PROVE ChangesFresh'
  BY <1>4 DEF ChangesFresh
<1>5. CASE UpsertsDone
  BY <1>5 DEF UpsertsDone, ChangesFresh
<1>6. CASE UNCHANGED vars
  BY <1>6 DEF vars, ChangesFresh
<1>7. CASE EndUpdate
  BY <1>7, <1>4 DEF EndUpdate
<1>8. ASSUME NEW s, CallLoad(s) PROVE ChangesFresh'
  BY <1>8, <1>4 DEF CallLoad
<1> QED
  BY <1>1, <1>2, <1>3, <1>4, <1>5, <1>6, <1>7, <1>8
     DEF Next, CallUpdate, CallUpdateStale, InvalidEntry, LoadNext, LoadThrow, LoadEnd, Throw

(* Undone is a function given by its keys and its values.                  *)
UndoneKeys == {x \in DOMAIN m_data \cup DOMAIN changes :
                    x \in DOMAIN changes => changes[x].action # "CREATE"}
UndoneValue(k) == IF k \in DOMAIN changes THEN changes[k].old ELSE m_data[k]

(* A step that keeps its keys and its values keeps what Undone gives.      *)
LEMMA UndoneSame ==
    ASSUME UndoneKeys' = UndoneKeys, \A k \in UndoneKeys : UndoneValue(k)' = UndoneValue(k)
    PROVE  Undone(m_data', changes') = Undone(m_data, changes)
<1>1. Undone(m_data, changes) = [k \in UndoneKeys |-> UndoneValue(k)]
  BY DEF Undone, UndoneKeys, UndoneValue
<1>2. Undone(m_data', changes') = [k \in UndoneKeys' |-> UndoneValue(k)']
  BY DEF Undone, UndoneKeys, UndoneValue
<1> QED
  BY <1>1, <1>2

(* upsert_entry() reports the change it makes.                             *)
LEMMA UpsertUndone ==
    ASSUME ChangesFresh, NEW k \in Key, UpsertEntry(k)
    PROVE  Undone(m_data', changes') = Undone(m_data, changes)
<1>1. k \notin DOMAIN changes
  BY DEF ChangesFresh, UpsertEntry
<1>2. /\ DOMAIN m_data' = DOMAIN m_data \cup {k}
      /\ \A x \in DOMAIN m_data \ {k} : m_data'[x] = m_data[x]
  BY DEF UpsertEntry, Put
<1>3. /\ DOMAIN changes' = DOMAIN changes \cup {k}
      /\ \A x \in DOMAIN changes : x # k => changes'[x] = changes[x]
      /\ IF k \in DOMAIN m_data
         THEN changes'[k].action # "CREATE" /\ changes'[k].old = m_data[k]
         ELSE changes'[k].action = "CREATE"
  BY DEF UpsertEntry, UpsertCreate, UpsertUpdate, Put
<1>4. UndoneKeys' = UndoneKeys
  BY <1>1, <1>2, <1>3 DEF UndoneKeys
<1>5. \A x \in UndoneKeys : UndoneValue(x)' = UndoneValue(x)
  BY <1>1, <1>2, <1>3 DEF UndoneKeys, UndoneValue
<1> QED
  BY <1>4, <1>5, UndoneSame

(* delete_entry() reports the change it makes, and none if there is none.  *)
LEMMA DeleteUndone ==
    ASSUME ChangesFresh, NEW k \in Key, DeleteEntry(k)
    PROVE  Undone(m_data', changes') = Undone(m_data, changes)
<1>1. CASE DeleteAbsent(k)
  BY <1>1 DEF DeleteAbsent
<1>2. CASE DeletePresent(k)
  <2>1. k \notin DOMAIN changes /\ k \in DOMAIN m_data
    BY <1>2 DEF ChangesFresh, DeleteEntry, DeletePresent
  <2>2. /\ DOMAIN m_data' = DOMAIN m_data \ {k}
        /\ \A x \in DOMAIN m_data \ {k} : m_data'[x] = m_data[x]
        /\ DOMAIN changes' = DOMAIN changes \cup {k}
        /\ \A x \in DOMAIN changes : x # k => changes'[x] = changes[x]
        /\ changes'[k].action # "CREATE" /\ changes'[k].old = m_data[k]
    BY <1>2 DEF DeletePresent, Put, Drop
  <2>3. UndoneKeys' = UndoneKeys
    BY <2>1, <2>2 DEF UndoneKeys
  <2>4. \A x \in UndoneKeys : UndoneValue(x)' = UndoneValue(x)
    BY <2>1, <2>2 DEF UndoneKeys, UndoneValue
  <2> QED
    BY <2>3, <2>4, UndoneSame
<1> QED
  BY <1>1, <1>2 DEF DeleteEntry

(* At every step of update_internal() the changes collected so far turn    *)
(* the content back into the one the call found.                           *)
THEOREM StoreChangesUndo == Spec => ChangesUndo
<1>1. Init => ChangesFresh
  BY DEF Init, ChangesFresh
<1>2. ASSUME IInv, ChangesFresh, Next, pc \in {"upserts", "deletes"}, pc' # "thrown"
      PROVE  Undone(m_data', changes') = Undone(m_data, changes)
  BY <1>2, UpsertUndone, DeleteUndone
     DEF Next, CallUpdate, CallUpdateStale, CallLoad, InvalidEntry, Throw, UpsertsDone,
         EndUpdate, LoadNext, LoadThrow, LoadEnd
<1>3. IInv /\ ChangesFresh /\ [Next]_vars =>
        [(pc \in {"upserts", "deletes"} /\ pc' # "thrown") =>
            Undone(m_data', changes') = Undone(m_data, changes)]_vars
  BY <1>2
<1> QED
  BY <1>1, <1>3, NextChangesFresh, StoreInvariant, PTL DEF Spec, ChangesUndo
=============================================================================
