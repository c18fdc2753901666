----------------------- MODULE NplexTransactionsProofs -----------------------
(***************************************************************************)
(* Theorems about NplexTransactions: types, the submit protocol between    *)
(* client and server, and the copy of the database.                        *)
(***************************************************************************)
EXTENDS NplexTransactions, LoopTheorems, SequenceTheorems

-----------------------------------------------------------------------------
(* Maps.                                                                   *)
LEMMA MapIs ==
    ASSUME NEW S, NEW T, NEW m PROVE m \in PartialFcn(S, T) <=> IsMap(m, S, T)
BY DEF PartialFcn, IsMap

LEMMA PutMap ==
    ASSUME NEW S, NEW T, NEW m, IsMap(m, S, T), NEW k \in S, NEW v \in T
    PROVE  IsMap(Put(m, k, v), S, T)
BY DEF IsMap, Put

LEMMA EmptyIsMap ==
    ASSUME NEW S, NEW T PROVE IsMap(EmptyMap, S, T)
BY DEF IsMap, EmptyMap

LEMMA MapsExcept ==
    ASSUME NEW S, NEW T, NEW f, AreMaps(f, S, T), NEW t \in Tx, NEW m, IsMap(m, S, T)
    PROVE  AreMaps([f EXCEPT ![t] = m], S, T)
<1> DEFINE g == [f EXCEPT ![t] = m]
<1>1. DOMAIN f = Tx
  BY DEF AreMaps
<1>2. g = [u \in Tx |-> g[u]]
  BY <1>1
<1>3. ASSUME NEW u \in Tx PROVE IsMap(g[u], S, T)
  <2>1. g[u] = IF u = t THEN m ELSE f[u]
    BY <1>1
  <2> QED BY <2>1 DEF AreMaps
<1> QED BY <1>2, <1>3 DEF AreMaps

-----------------------------------------------------------------------------
(* Types.                                                                  *)
ContentOK ==
    /\ AreMaps(items, Key, ItemRec)
    /\ AreMaps(seen, Key, ValueOrNull) /\ AreMaps(touched, Key, Nat)
    /\ ensures \in [Tx -> SUBSET Key] /\ dirty \in [Tx -> BOOLEAN]

(* The updates in flight are commits of the log.                           *)
UpdatesKnown ==
    \A i \in 1 .. Len(toClient) : toClient[i].type = "update" => toClient[i].rev \in 1 .. Len(log)

TypeInv == TypeOK /\ UpdatesKnown

LEMMA StoreValueType ==
    ASSUME TypeOK, NEW k \in Key PROVE StoreValue(k) \in ValueOrNull
BY DEF TypeOK, StoreValue, IsMap, ValueOrNull

LEMMA TouchType ==
    ASSUME TypeOK, NEW t \in Tx, NEW ks \in SUBSET Key, TouchAll(t, ks)
    PROVE  AreMaps(touched', Key, Nat)
<1>1. BaseRev(t) \in Nat
  BY DEF TypeOK, BaseRev
<1>2. IsMap(touched[t], Key, Nat)
  BY DEF TypeOK, AreMaps
<1> DEFINE m == [k \in DOMAIN touched[t] \cup ks |->
                    IF k \in DOMAIN touched[t] THEN touched[t][k] ELSE BaseRev(t)]
<1>3. IsMap(m, Key, Nat)
  BY <1>1, <1>2 DEF IsMap
<1>4. touched' = [touched EXCEPT ![t] = m]
  BY DEF TouchAll
<1> QED BY <1>3, <1>4, MapsExcept DEF TypeOK

LEMMA SeeType ==
    ASSUME TypeOK, NEW t \in Tx, NEW k \in Key, NEW v \in ValueOrNull, See(t, k, v)
    PROVE  AreMaps(seen', Key, ValueOrNull)
<1>1. IsMap(seen[t], Key, ValueOrNull)
  BY DEF TypeOK, AreMaps
<1> DEFINE m == IF k \in DOMAIN seen[t] THEN seen[t] ELSE Put(seen[t], k, v)
<1>2. IsMap(m, Key, ValueOrNull)
  BY <1>1, PutMap
<1>3. seen' = [seen EXCEPT ![t] = m]
  BY DEF See
<1> QED BY <1>2, <1>3, MapsExcept DEF TypeOK

LEMMA SetItemType ==
    ASSUME TypeOK, NEW t \in Tx, NEW k \in Key, NEW a, NEW v, Item(a, v) \in ItemRec,
           SetItem(t, k, a, v)
    PROVE  AreMaps(items', Key, ItemRec)
<1>1. IsMap(items[t], Key, ItemRec)
  BY DEF TypeOK, AreMaps
<1>2. IsMap(Put(items[t], k, Item(a, v)), Key, ItemRec)
  BY <1>1, PutMap
<1> QED BY <1>2, MapsExcept DEF TypeOK, SetItem

LEMMA ItemTypes ==
    /\ \A v \in ValueOrNull : Item("READ", v) \in ItemRec /\ Item("SNAPSHOT", v) \in ItemRec
    /\ \A d \in Data : Item("UPSERT", Own(d)) \in ItemRec
    /\ Item("DELETE", Null) \in ItemRec
BY DEF Item, ItemRec, ValueOrNull, Value, Own

(* The values of an entry.                                                 *)
LEMMA ItemFields ==
    ASSUME NEW it \in ItemRec
    PROVE  /\ it.value \in ValueOrNull
           /\ it = Item(it.action, it.value)
           /\ it.action \in {"READ", "SNAPSHOT", "UPSERT", "DELETE"}
           /\ it.action = "UPSERT" => it.value \in Value
           /\ it.action = "DELETE" => it.value = Null
BY DEF Item, ItemRec, ValueOrNull

LEMMA ReadContent ==
    ASSUME TypeOK, NEW t \in Tx, NEW k \in Key, NEW e \in BOOLEAN, Read(t, k, e)
    PROVE  ContentOK'
<1>1. IsMap(items[t], Key, ItemRec) /\ AreMaps(items, Key, ItemRec)
  BY DEF TypeOK, AreMaps
<1>2. CASE ReadItem(t, k, e)
  <2> DEFINE it == items[t][k]
  <2>1. it \in ItemRec /\ it.value \in ValueOrNull /\ k \in DOMAIN items[t]
    BY <1>1, <1>2, ItemFields DEF IsMap, ReadItem
  <2>2. AreMaps(items', Key, ItemRec)
    <3>1. CASE items' = items
      BY <1>1, <3>1
    <3>2. CASE items' = [items EXCEPT ![t][k].action = "READ"]
      <4> DEFINE m == [items[t] EXCEPT ![k] = Item("READ", it.value)]
      <4>0. it.action = "SNAPSHOT" \/ items' = items
        BY <1>2 DEF ReadItem
      <4>1. Item("READ", it.value) \in ItemRec
        BY <2>1, ItemTypes
      <4>2. IsMap(m, Key, ItemRec)
        BY <1>1, <2>1, <4>1 DEF IsMap
      <4>3. [it EXCEPT !.action = "READ"] = Item("READ", it.value)
        BY <2>1 DEF ItemRec, Item
      <4>4. items' = [items EXCEPT ![t] = m]
        BY <3>2, <4>3
      <4> QED BY <1>1, <4>2, <4>4, MapsExcept
    <3> QED BY <1>2, <3>1, <3>2 DEF ReadItem
  <2>3. AreMaps(seen', Key, ValueOrNull) /\ AreMaps(touched', Key, Nat)
    <3>1. CASE UNCHANGED <<seen, touched>>
      BY <3>1 DEF TypeOK
    <3>2. CASE See(t, k, it.value) /\ TouchAll(t, {k})
      BY <2>1, <3>2, SeeType, TouchType
    <3> QED BY <1>2, <3>1, <3>2 DEF ReadItem
  <2>4. ensures' \in [Tx -> SUBSET Key]
    BY <1>2 DEF ReadItem, TypeOK
  <2>5. dirty' \in [Tx -> BOOLEAN]
    BY <1>2 DEF ReadItem, TypeOK
  <2> QED BY <2>2, <2>3, <2>4, <2>5 DEF ContentOK
<1>3. CASE ReadStore(t, k, e)
  <2>1. StoreValue(k) \in ValueOrNull
    BY StoreValueType
  <2>2. Item("READ", StoreValue(k)) \in ItemRec
    BY <2>1, ItemTypes
  <2>3. ensures' \in [Tx -> SUBSET Key] /\ dirty' \in [Tx -> BOOLEAN]
    BY <1>3 DEF ReadStore, TypeOK
  <2>4. CASE SetItem(t, k, "READ", StoreValue(k)) /\ See(t, k, StoreValue(k)) /\ TouchAll(t, {k})
    BY <2>1, <2>2, <2>3, <2>4, SetItemType, SeeType, TouchType DEF ContentOK
  <2>5. CASE UNCHANGED <<items, seen, touched>>
    BY <2>3, <2>5 DEF ContentOK, TypeOK
  <2> QED BY <1>3, <2>4, <2>5 DEF ReadStore
<1> QED BY <1>2, <1>3 DEF Read

LEMMA UpsertContent ==
    ASSUME TypeOK, NEW t \in Tx, NEW k \in Key, NEW d \in Data, NEW f \in BOOLEAN,
           Upsert(t, k, d, f)
    PROVE  ContentOK'
<1>1. AreMaps(seen', Key, ValueOrNull) /\ ensures' \in [Tx -> SUBSET Key]
  BY DEF Upsert, TypeOK
<1>2. dirty' \in [Tx -> BOOLEAN]
  BY DEF Upsert, UpsertItem, UpsertStore, TypeOK
<1>3. \/ UNCHANGED <<items, touched>>
      \/ SetItem(t, k, "UPSERT", Own(d)) /\ TouchAll(t, {k})
      \/ k \in DOMAIN m_data /\ SetItem(t, k, "READ", m_data[k]) /\ TouchAll(t, {k})
  BY DEF Upsert, UpsertItem, UpsertStore
<1>4. k \in DOMAIN m_data => Item("READ", m_data[k]) \in ItemRec
  BY ItemTypes DEF TypeOK, IsMap, ValueOrNull
<1>5. AreMaps(items', Key, ItemRec) /\ AreMaps(touched', Key, Nat)
  <2>1. CASE UNCHANGED <<items, touched>>
    BY <2>1 DEF TypeOK
  <2>2. CASE SetItem(t, k, "UPSERT", Own(d)) /\ TouchAll(t, {k})
    BY <2>2, ItemTypes, SetItemType, TouchType
  <2>3. CASE k \in DOMAIN m_data /\ SetItem(t, k, "READ", m_data[k]) /\ TouchAll(t, {k})
    BY <2>3, <1>4, SetItemType, TouchType
  <2> QED BY <1>3, <2>1, <2>2, <2>3
<1> QED BY <1>1, <1>2, <1>5 DEF ContentOK

LEMMA RemoveContent ==
    ASSUME TypeOK, NEW t \in Tx, NEW k \in Key, RemoveKey(t, k)
    PROVE  ContentOK'
BY ItemTypes, SetItemType, TouchType DEF RemoveKey, ContentOK, TypeOK

LEMMA VisitedType ==
    ASSUME TypeOK, NEW t \in Tx, NEW p \in SUBSET Key
    PROVE  IsMap(VisitedItems(t, p), Key, ItemRec)
<1>1. IsMap(items[t], Key, ItemRec)
  BY DEF TypeOK, AreMaps
<1>2. \A k \in DOMAIN items[t] : VisitItem(items[t][k]) \in ItemRec
  BY <1>1, ItemTypes, ItemFields DEF IsMap, VisitItem
<1>3. \A k \in DOMAIN m_data : k \in Key /\ Item("READ", m_data[k]) \in ItemRec
  BY ItemTypes DEF TypeOK, IsMap, ValueOrNull
<1> QED BY <1>1, <1>2, <1>3 DEF VisitedItems, IsMap

LEMMA VisibleType ==
    ASSUME TypeOK, NEW t \in Tx, NEW k \in Key
    PROVE  Visible(t, k) \in ValueOrNull
<1>1. IsMap(items[t], Key, ItemRec)
  BY DEF TypeOK, AreMaps
<1>2. k \in DOMAIN items[t] => items[t][k].value \in ValueOrNull
  BY <1>1, ItemFields DEF IsMap
<1> QED BY <1>2, StoreValueType DEF Visible, ValueOrNull

LEMMA ForEachContent ==
    ASSUME TypeOK, NEW t \in Tx, NEW p \in SUBSET Key, ForEach(t, p)
    PROVE  ContentOK'
<1> DEFINE new == {k \in Listed(t, p) : ~OwnWrite(t, k) /\ Pins(t)}
           m == [k \in DOMAIN seen[t] \cup new |->
                    IF k \in DOMAIN seen[t] THEN seen[t][k] ELSE Visible(t, k)]
<1>1. new \in SUBSET Key
  BY DEF Listed
<1>2. AreMaps(touched', Key, Nat)
  <2>1. TouchAll(t, new)
    BY DEF ForEach
  <2> QED BY <1>1, <2>1, TouchType
<1>3. IsMap(seen[t], Key, ValueOrNull)
  BY DEF TypeOK, AreMaps
<1>4. \A k \in new : k \in Key /\ Visible(t, k) \in ValueOrNull
  BY <1>1, VisibleType
<1>5. seen' = [seen EXCEPT ![t] = m]
  BY DEF ForEach
<1>6. IsMap(m, Key, ValueOrNull)
  <2> HIDE DEF new
  <2> QED BY <1>3, <1>4 DEF IsMap
<1>7. AreMaps(seen', Key, ValueOrNull)
  <2> HIDE DEF m
  <2> QED BY <1>5, <1>6, MapsExcept DEF TypeOK
<1>8. AreMaps(items', Key, ItemRec)
  BY VisitedType, MapsExcept DEF TypeOK, ForEach
<1>9. ensures' \in [Tx -> SUBSET Key] /\ dirty' \in [Tx -> BOOLEAN]
  BY DEF ForEach, TypeOK, VisitSpoils
<1> QED BY <1>2, <1>7, <1>8, <1>9 DEF ContentOK

LEMMA RemovePatternContent ==
    ASSUME TypeOK, NEW t \in Tx, NEW p \in SUBSET Key, RemovePattern(t, p)
    PROVE  ContentOK'
<1>1. PICK ks \in SUBSET {k \in Listed(t, p) : is_authorized({"DELETE"}, k)} :
        /\ items' = [items EXCEPT ![t] =
              [k \in DOMAIN VisitedItems(t, p) \cup ks |->
                  IF k \in ks THEN Item("DELETE", Null) ELSE VisitedItems(t, p)[k]]]
        /\ TouchAll(t, IF Pins(t) THEN Listed(t, p) ELSE ks)
  BY DEF RemovePattern
<1>2. ks \in SUBSET Key /\ Listed(t, p) \in SUBSET Key
  BY DEF Listed
<1>3. AreMaps(touched', Key, Nat)
  <2>1. (IF Pins(t) THEN Listed(t, p) ELSE ks) \in SUBSET Key
    BY <1>2
  <2> QED BY <1>1, <2>1, TouchType
<1> DEFINE v == VisitedItems(t, p)
           m == [k \in DOMAIN v \cup ks |-> IF k \in ks THEN Item("DELETE", Null) ELSE v[k]]
<1>4. IsMap(v, Key, ItemRec)
  BY VisitedType
<1>5. IsMap(m, Key, ItemRec)
  <2> HIDE DEF v
  <2> QED BY <1>2, <1>4, ItemTypes DEF IsMap
<1>6. AreMaps(items', Key, ItemRec)
  <2>1. items' = [items EXCEPT ![t] = m]
    BY <1>1
  <2> HIDE DEF m
  <2> QED BY <1>5, <2>1, MapsExcept DEF TypeOK
<1>7. ensures' \in [Tx -> SUBSET Key] /\ dirty' \in [Tx -> BOOLEAN] /\ AreMaps(seen', Key, ValueOrNull)
  BY DEF RemovePattern, TypeOK, VisitSpoils
<1> QED BY <1>3, <1>6, <1>7 DEF ContentOK

LEMMA EnsureContent ==
    ASSUME TypeOK, NEW t \in Tx, NEW p \in SUBSET Key, Ensure(t, p)
    PROVE  ContentOK'
BY DEF Ensure, ContentOK, TypeOK

(* The operations of users that only change what a transaction holds.      *)
ContentOp(t) ==
    \/ \E k \in Key : RemoveKey(t, k) \/ \E e \in Ensuring : Read(t, k, e)
    \/ \E k \in Key, d \in Data, f \in BOOLEAN : Upsert(t, k, d, f)
    \/ \E p \in Pattern : ForEach(t, p) \/ RemovePattern(t, p) \/ Ensure(t, p)

LEMMA UserSteps ==
    ASSUME UserStep
    PROVE  \E t \in Tx : \/ ContentOp(t)
                         \/ \E level \in Levels[t] : CreateTx(t, level)
                         \/ Discard(t) \/ DropHandle(t)
                         \/ \E f \in Forcing : Submit(t, f)
<1>1. PICK t \in Tx :
        \/ \E level \in Levels[t] : CreateTx(t, level)
        \/ Discard(t) \/ DropHandle(t)
        \/ \E k \in Key : RemoveKey(t, k) \/ \E e \in Ensuring : Read(t, k, e)
        \/ \E k \in Key, d \in Data, f \in BOOLEAN : Upsert(t, k, d, f)
        \/ \E p \in Pattern : ForEach(t, p) \/ RemovePattern(t, p) \/ Ensure(t, p)
        \/ \E f \in Forcing : Submit(t, f)
  BY Zenon DEF UserStep
<1> QED BY <1>1, Zenon DEF ContentOp

LEMMA ContentOpFrame ==
    ASSUME NEW t \in Tx, ContentOp(t) PROVE UserOp(t)
BY DEF ContentOp, RemoveKey, Read, Upsert, ForEach, RemovePattern, Ensure

LEMMA ContentOpType ==
    ASSUME TypeInv, NEW t \in Tx, ContentOp(t) PROVE TypeInv'
<1>0. TypeOK /\ Pattern \subseteq SUBSET Key /\ Ensuring \subseteq BOOLEAN
  BY TxAssumption DEF TypeInv
<1>1. ContentOK'
  <2>1. CASE \E k \in Key : RemoveKey(t, k)
    BY <1>0, <2>1, RemoveContent
  <2>2. CASE \E k \in Key, e \in Ensuring : Read(t, k, e)
    BY <1>0, <2>2, ReadContent
  <2>3. CASE \E k \in Key, d \in Data, f \in BOOLEAN : Upsert(t, k, d, f)
    BY <1>0, <2>3, UpsertContent
  <2>4. CASE \E p \in Pattern : ForEach(t, p)
    BY <1>0, <2>4, ForEachContent
  <2>5. CASE \E p \in Pattern : RemovePattern(t, p)
    BY <1>0, <2>5, RemovePatternContent
  <2>6. CASE \E p \in Pattern : Ensure(t, p)
    BY <1>0, <2>6, EnsureContent
  <2> QED BY <2>1, <2>2, <2>3, <2>4, <2>5, <2>6 DEF ContentOp
<1>2. UNCHANGED <<server, client, state, created, future, held, missed>>
  BY ContentOpFrame DEF UserOp
<1> QED BY <1>1, <1>2 DEF TypeInv, TypeOK, UpdatesKnown, ContentOK, server, client, created

LEMMA InitType == Init => TypeInv
<1> SUFFICES ASSUME Init PROVE TypeInv
  OBVIOUS
<1> USE TxAssumption
<1>1. IsMap(InitialData, Key, Data)
  OBVIOUS
<1>2. log \in Seq(CommitRec) /\ Len(log) = 1
  <2>1. InitialData \in PartialFcn(Key, Data)
    BY <1>1, MapIs
  <2>2. Commit(Other, Null, FALSE, InitialData, {}) \in CommitRec
    BY <2>1 DEF Commit, CommitRec
  <2> DEFINE c == Commit(Other, Null, FALSE, InitialData, {})
  <2>3. log = <<c>>
    BY DEF Init
  <2>4. c \in CommitRec
    BY <2>2
  <2> HIDE DEF c
  <2> QED BY <2>3, <2>4
<1>3. IsMap(m_data, Key, Value)
  <2>1. m_data = Patch(EmptyMap, InitialData, {}, 1, Other)
    BY DEF Init
  <2> QED BY <1>1, <2>1 DEF Patch, IsMap, EmptyMap, Value
<1>4. AreMaps(items, Key, ItemRec) /\ AreMaps(seen, Key, ValueOrNull) /\ AreMaps(touched, Key, Nat)
  BY EmptyIsMap DEF Init, AreMaps
<1>5. /\ loop \in LoopRec(loop.changes) /\ IsMap(loop.changes, Key, ValueOrNull)
      /\ loop.pc = "update" <=> loop.tx # Null
  BY EmptyIsMap DEF Init, Idle, LoopRec
<1>6. /\ state \in [Tx -> State] /\ future \in [Tx -> Result]
      /\ ensures \in [Tx -> SUBSET Key] /\ dirty \in [Tx -> BOOLEAN]
      /\ isolation \in [Tx -> Level] /\ rev_creation \in [Tx -> Nat] /\ missed \in [Tx -> SUBSET Nat]
  BY DEF Init, State, Result, Level
<1>7. /\ pushed \in Nat /\ toServer \in Seq(SubmitRec) /\ toClient \in Seq(ClientMsg)
      /\ m_con \in BOOLEAN /\ m_rev \in Nat /\ m_correlation \in Nat
      /\ m_transactions \in SUBSET Tx /\ held \in SUBSET Tx
      /\ m_commands \in Seq([tx : Tx, force : BOOLEAN])
      /\ m_requests \in Seq([cid : Nat, tx : Tx])
      /\ m_accepted \in Seq([tx : Tx, erev : Nat])
  BY DEF Init
<1>8. UpdatesKnown
  BY DEF Init, UpdatesKnown
<1> QED BY <1>2, <1>3, <1>4, <1>5, <1>6, <1>7, <1>8 DEF TypeInv, TypeOK

LEMMA CreateTxType ==
    ASSUME TypeInv, NEW t \in Tx, NEW level \in Levels[t], CreateTx(t, level)
    PROVE  TypeInv'
<1>1. level \in Level
  BY TxAssumption
<1>2. isolation' \in [Tx -> Level] /\ rev_creation' \in [Tx -> Nat]
  BY <1>1 DEF CreateTx, TypeInv, TypeOK
<1>3. state' \in [Tx -> State]
  BY DEF CreateTx, TypeInv, TypeOK, Destroyed, State, Closed
<1>4. m_transactions' \in SUBSET Tx /\ held' \in SUBSET Tx
  BY DEF CreateTx, TypeInv, TypeOK
<1>5. UNCHANGED <<server, m_con, m_rev, m_data, m_commands, m_requests, m_accepted,
                   m_correlation, loop, content, future, missed>>
  BY DEF CreateTx
<1> QED BY <1>2, <1>3, <1>4, <1>5 DEF TypeInv, TypeOK, UpdatesKnown, server, content

LEMMA DiscardType ==
    ASSUME TypeInv, NEW t \in Tx, Discard(t) \/ DropHandle(t) PROVE TypeInv'
<1>1. state' \in [Tx -> State] /\ held' \in SUBSET Tx
  BY DEF Discard, DropHandle, TypeInv, TypeOK, State, Closed
<1>2. future' \in [Tx -> Result]
  BY DEF Discard, DropHandle, TypeInv, TypeOK, Result
<1>3. UNCHANGED <<server, client, content, created, missed>>
  BY DEF Discard, DropHandle
<1> QED BY <1>1, <1>2, <1>3 DEF TypeInv, TypeOK, UpdatesKnown, server, client, content, created

LEMMA OutcomeType ==
    ASSUME NEW t, NEW f
    PROVE  SubmitOutcome(t, f).state \in State /\ SubmitOutcome(t, f).future \in Result
BY DEF SubmitOutcome, State, Result, Closed

LEMMA SubmitType ==
    ASSUME TypeInv, NEW t \in Tx, NEW f \in Forcing, Submit(t, f) PROVE TypeInv'
<1>1. state' \in [Tx -> State] /\ future' \in [Tx -> Result]
  BY OutcomeType DEF Submit, TypeInv, TypeOK
<1>2. m_commands' \in Seq([tx : Tx, force : BOOLEAN])
  <2> DEFINE R == [tx : Tx, force : BOOLEAN]  c == [tx |-> t, force |-> f]
  <2>1. f \in BOOLEAN
    <3>1. Forcing \subseteq BOOLEAN
      BY TxAssumption, Zenon
    <3> QED BY <3>1, Zenon
  <2>2. c \in R
    BY <2>1, Zenon
  <2>3. m_commands \in Seq(R) /\ (m_commands' = m_commands \/ m_commands' = Append(m_commands, c))
    BY DEF Submit, TypeInv, TypeOK
  <2> HIDE DEF R, c
  <2>4. m_commands' \in Seq(R)
    BY <2>2, <2>3
  <2> QED BY <2>4 DEF R
<1>3. UNCHANGED <<server, m_con, m_rev, m_data, m_transactions, m_requests, m_accepted,
                   m_correlation, loop, content, created, held, missed>>
  BY DEF Submit
<1> QED BY <1>1, <1>2, <1>3 DEF TypeInv, TypeOK, UpdatesKnown, server, content, created

(* A loop record with some of its fields changed.                          *)
LEMMA LoopExcept ==
    ASSUME NEW c, NEW l \in LoopRec(c)
    PROVE  /\ l.changes = c
           /\ \A x \in {"idle", "updated", "visit", "update"} : \A s \in SUBSET Tx :
                  [l EXCEPT !.pc = x, !.todo = s] \in LoopRec(c)
           /\ \A x \in Tx : \A s \in SUBSET Tx :
                  [l EXCEPT !.pc = "update", !.tx = x, !.todo = s] \in LoopRec(c)
           /\ \A s \in SUBSET Tx, b \in BOOLEAN :
                  [l EXCEPT !.todo = s, !.purge = b] \in LoopRec(c)
           /\ [l EXCEPT !.pc = "visit", !.tx = Null] \in LoopRec(c)
<1>1. l.changes = c
  BY DEF LoopRec
<1>2. \A x \in {"idle", "updated", "visit", "update"} : \A s \in SUBSET Tx :
                  [l EXCEPT !.pc = x, !.todo = s] \in LoopRec(c)
  BY DEF LoopRec
<1>3. \A x \in Tx : \A s \in SUBSET Tx :
                  [l EXCEPT !.pc = "update", !.tx = x, !.todo = s] \in LoopRec(c)
  BY DEF LoopRec
<1>4. \A s \in SUBSET Tx, b \in BOOLEAN : [l EXCEPT !.todo = s, !.purge = b] \in LoopRec(c)
  BY DEF LoopRec
<1>5. [l EXCEPT !.pc = "visit", !.tx = Null] \in LoopRec(c)
  BY DEF LoopRec
<1> QED BY <1>1, <1>2, <1>3, <1>4, <1>5

(* What is left of a queue after its first n entries.                      *)
LEMMA SubSeqType ==
    ASSUME NEW S, NEW q \in Seq(S), NEW n \in 0 .. Len(q)
    PROVE  /\ SubSeq(q, n + 1, Len(q)) \in Seq(S)
           /\ n = 0 => SubSeq(q, n + 1, Len(q)) = q
<1>1. \A i \in n + 1 .. Len(q) : q[i] \in S
  BY ElementOfSeq
<1>2. n + 1 \in Int /\ Len(q) \in Int
  OBVIOUS
<1>3. SubSeq(q, n + 1, Len(q)) \in Seq(S)
  BY <1>1, <1>2, SubSeqProperties
<1>4. ASSUME n = 0 PROVE SubSeq(q, n + 1, Len(q)) = q
  BY <1>4
<1> QED BY <1>3, <1>4

LEMMA MessageFields ==
    ASSUME NEW m \in ClientMsg
    PROVE  /\ m.type \in {"submit", "update"} /\ m.cid \in Nat /\ m.erev \in Nat /\ m.rev \in Nat
           /\ m.type = "submit" <=> m.code \in Code
           /\ m.type = "update" => m.code = ""
<1>1. CASE m \in [type : {"submit"}, cid : Nat, code : Code, erev : Nat, rev : {0}]
  <2>1. m.type = "submit" /\ m.cid \in Nat /\ m.code \in Code /\ m.erev \in Nat /\ m.rev = 0
    BY <1>1
  <2> QED BY <2>1
<1>2. CASE m \in [type : {"update"}, cid : {0}, code : {""}, erev : {0}, rev : Nat]
  <2>1. m.type = "update" /\ m.cid = 0 /\ m.code = "" /\ m.erev = 0 /\ m.rev \in Nat
    BY <1>2
  <2>2. "" \notin Code /\ "update" # "submit"
    BY DEF Code
  <2>3. 0 \in Nat
    OBVIOUS
  <2> QED BY <2>1, <2>2, <2>3, Zenon
<1> QED BY <1>1, <1>2 DEF ClientMsg

LEMMA TailKnown ==
    ASSUME NEW q \in Seq(ClientMsg), q # <<>>
    PROVE  /\ Tail(q) \in Seq(ClientMsg) /\ Len(Tail(q)) = Len(q) - 1 /\ Len(q) \in Nat
           /\ 1 \in 1 .. Len(q) /\ Head(q) = q[1] /\ q[1] \in ClientMsg
           /\ \A i \in 1 .. Len(Tail(q)) : i + 1 \in 1 .. Len(q) /\ Tail(q)[i] = q[i + 1]
<1>1. Len(q) \in Nat /\ Len(q) > 0
  BY EmptySeq
<1> QED BY <1>1

LEMMA ProcessUpdateType ==
    ASSUME TypeInv, ProcessUpdate PROVE TypeInv'
<1> DEFINE r == Head(toClient).rev  c == log[r]
<1>1. toClient' \in Seq(ClientMsg) /\ Len(toClient') = Len(toClient) - 1 /\ r \in 1 .. Len(log)
      /\ \A i \in 1 .. Len(toClient') : i + 1 \in 1 .. Len(toClient) /\ toClient'[i] = toClient[i + 1]
  BY TailKnown DEF ProcessUpdate, TypeInv, TypeOK, UpdatesKnown
<1>2. c \in CommitRec /\ r \in Nat
  BY <1>1 DEF TypeInv, TypeOK
<1>3. IsMap(c.upserts, Key, Data) /\ c.deletes \subseteq Key /\ c.user \in User
  BY <1>2, MapIs DEF CommitRec
<1>4. m_rev' = r /\ m_data' = Patch(m_data, c.upserts, c.deletes, r, c.user)
      /\ loop' = [Idle EXCEPT !.pc = "updated", !.changes = Changes(c)]
  BY DEF ProcessUpdate
<1>5. PICK n \in 0 .. Len(m_accepted) : m_accepted' = SubSeq(m_accepted, n + 1, Len(m_accepted))
  BY DEF ProcessUpdate
<1>6. m_accepted' \in Seq([tx : Tx, erev : Nat])
  BY <1>5, SubSeqType DEF TypeInv, TypeOK
<1>7. IsMap(Changes(c), Key, ValueOrNull)
  <2>1. \A k \in DOMAIN c.upserts \cup (c.deletes \cap DOMAIN m_data) :
            k \in Key /\ StoreValue(k) \in ValueOrNull
    BY <1>3, StoreValueType DEF TypeInv, IsMap
  <2> QED BY <2>1 DEF Changes, IsMap
<1> HIDE DEF r, c
<1>8. IsMap(m_data', Key, Value)
  <2>1. IsMap(m_data, Key, Value)
    BY DEF TypeInv, TypeOK
  <2>2. \A k \in DOMAIN c.upserts : k \in Key /\ [data |-> c.upserts[k], rev |-> r, user |-> c.user] \in Value
    BY <1>2, <1>3 DEF IsMap, Value
  <2> QED BY <1>4, <2>1, <2>2 DEF Patch, IsMap
<1>9. /\ loop' \in LoopRec(loop'.changes) /\ IsMap(loop'.changes, Key, ValueOrNull)
      /\ loop'.pc = "update" <=> loop'.tx # Null
  BY <1>4, <1>7 DEF Idle, LoopRec
<1>10. UNCHANGED <<log, pushed, toServer, m_con, m_transactions, m_commands, m_requests,
                   m_correlation, txvars>>
  BY DEF ProcessUpdate
<1>11. UpdatesKnown'
  BY <1>1, <1>10 DEF TypeInv, UpdatesKnown
<1>12. m_rev' \in Nat
  BY <1>2, <1>4
<1> QED BY <1>1, <1>12, <1>6, <1>8, <1>9, <1>10, <1>11 DEF TypeInv, TypeOK, txvars, content, created

LEMMA LockTransactionsType ==
    ASSUME TypeInv, LockTransactions PROVE TypeInv'
<1>1. loop' = [loop EXCEPT !.pc = "visit", !.todo = m_transactions]
  BY DEF LockTransactions
<1>0. loop \in LoopRec(loop.changes) /\ m_transactions \in SUBSET Tx
  BY Zenon DEF TypeInv, TypeOK
<1>2. loop' \in LoopRec(loop.changes)
  BY <1>0, <1>1, LoopExcept, ZenonT(30)
<1>5. loop'.changes = loop.changes /\ loop'.pc = "visit" /\ loop'.tx = loop.tx
  BY <1>0, <1>1 DEF LoopRec
<1>3. loop.tx = Null
  BY DEF LockTransactions, TypeInv, TypeOK
<1>4. UNCHANGED <<server, m_con, m_rev, m_data, m_transactions, m_commands, m_requests,
                   m_accepted, m_correlation, txvars>>
  BY DEF LockTransactions
<1> QED BY <1>2, <1>3, <1>4, <1>5 DEF TypeInv, TypeOK, UpdatesKnown, server, txvars, content, created

LEMMA VisitTxType ==
    ASSUME TypeInv, NEW t \in Tx, VisitTx(t) PROVE TypeInv'
<1>0. loop \in LoopRec(loop.changes) /\ loop.todo \in SUBSET Tx /\ loop.purge \in BOOLEAN
      /\ loop.pc = "visit" /\ loop.tx = Null
  BY DEF TypeInv, TypeOK, LoopRec, VisitTx
<1>1. CASE VisitOpen(t)
  <2>1. loop' = [loop EXCEPT !.pc = "update", !.tx = t, !.todo = loop.todo \ {t}] /\ missed' = missed
    BY <1>1 DEF VisitOpen
  <2>2. loop' \in LoopRec(loop.changes)
    <3>1. loop.todo \ {t} \in SUBSET Tx
      BY <1>0
    <3> QED BY <1>0, <2>1, <3>1, LoopExcept, ZenonT(30)
  <2>3. loop'.pc = "update" /\ loop'.tx # Null /\ loop'.changes = loop.changes
    BY <1>0, <2>1, TxAssumption DEF LoopRec
  <2>4. UNCHANGED <<server, m_con, m_rev, m_data, m_transactions, m_commands, m_requests,
                   m_accepted, m_correlation, content, state, created, future, held>>
    BY DEF VisitTx
  <2> QED BY <2>1, <2>2, <2>3, <2>4 DEF TypeInv, TypeOK, UpdatesKnown, server, content, created
<1>2. CASE VisitOther(t)
  <2>1. loop' = [loop EXCEPT !.todo = loop.todo \ {t}, !.purge = loop.purge \/ t \in Unused]
    BY <1>2 DEF VisitOther
  <2>2. loop' \in LoopRec(loop.changes)
    <3> DEFINE b == loop.purge \/ t \in Unused
    <3>1. b \in BOOLEAN /\ loop.todo \ {t} \in SUBSET Tx
      BY <1>0
    <3>2. loop' = [loop EXCEPT !.todo = loop.todo \ {t}, !.purge = b]
      BY <2>1
    <3> HIDE DEF b
    <3> QED BY <1>0, <3>1, <3>2, LoopExcept, ZenonT(30)
  <2>3. loop'.pc = "visit" /\ loop'.tx = Null /\ loop'.changes = loop.changes
    BY <1>0, <2>1 DEF LoopRec
  <2>4. missed' \in [Tx -> SUBSET Nat]
    BY <1>2 DEF VisitOther, TypeInv, TypeOK
  <2>5. UNCHANGED <<server, m_con, m_rev, m_data, m_transactions, m_commands, m_requests,
                   m_accepted, m_correlation, content, state, created, future, held>>
    BY DEF VisitTx
  <2> QED BY <2>2, <2>3, <2>4, <2>5, SMTT(40) DEF TypeInv, TypeOK, UpdatesKnown, server, content, created
<1> QED BY <1>1, <1>2 DEF VisitTx

LEMMA UpdateTxType ==
    ASSUME TypeInv, UpdateTx PROVE TypeInv'
<1> DEFINE t == loop.tx
<1>0. t \in Tx /\ loop \in LoopRec(loop.changes) /\ IsMap(loop.changes, Key, ValueOrNull)
  BY DEF UpdateTx, TypeInv, TypeOK, LoopRec
<1>1. IsMap(items[t], Key, ItemRec)
  BY <1>0 DEF TypeInv, TypeOK, AreMaps
<1>2. IsMap(UpdatedItems(t, loop.changes), Key, ItemRec)
  BY <1>0, <1>1, ItemTypes DEF UpdatedItems, UpdateSerializable, IsMap
<1>3. AreMaps(items', Key, ItemRec)
  BY <1>0, <1>2, MapsExcept DEF UpdateTx, TypeInv, TypeOK
<1>4. dirty' \in [Tx -> BOOLEAN]
  BY <1>0 DEF UpdateTx, TypeInv, TypeOK, Invalidates
<1>5. missed' \in [Tx -> SUBSET Nat]
  <2>1. missed \in [Tx -> SUBSET Nat] /\ m_rev \in Nat
    BY Zenon DEF TypeInv, TypeOK
  <2>2. missed' = missed \/ missed' = [missed EXCEPT ![t] = missed[t] \cup {m_rev}]
    BY DEF UpdateTx
  <2> HIDE DEF t
  <2> QED BY <1>0, <2>1, <2>2
<1>6. loop' = [loop EXCEPT !.pc = "visit", !.tx = Null]
  BY DEF UpdateTx
<1>7. loop' \in LoopRec(loop.changes) /\ loop'.changes = loop.changes
  BY <1>0, <1>6, LoopExcept, ZenonT(30)
<1>8. loop'.pc = "visit" /\ loop'.tx = Null
  BY <1>0, <1>6 DEF LoopRec
<1>9. UNCHANGED <<server, m_con, m_rev, m_data, m_transactions, m_commands, m_requests,
                   m_accepted, m_correlation, ensures, seen, touched, state, created,
                   future, held>>
  BY DEF UpdateTx
<1> QED BY <1>0, <1>3, <1>4, <1>5, <1>7, <1>8, <1>9 DEF TypeInv, TypeOK, UpdatesKnown, server, created

LEMMA ConfirmCommitType ==
    ASSUME TypeInv, ConfirmCommit PROVE TypeInv'
<1>1. loop' \in LoopRec(loop'.changes) /\ IsMap(loop'.changes, Key, ValueOrNull)
      /\ (loop'.pc = "update" <=> loop'.tx # Null)
  BY EmptyIsMap DEF ConfirmCommit, Idle, LoopRec
<1>2. m_transactions' \in SUBSET Tx
  BY DEF ConfirmCommit, TypeInv, TypeOK
<1>3. m_accepted' \in Seq([tx : Tx, erev : Nat])
  BY DEF ConfirmCommit, Confirmed, TypeInv, TypeOK
<1> DEFINE purged == IF loop.purge THEN Destroyed(state) ELSE state
           u == Head(m_accepted).tx
<1>4. purged \in [Tx -> State]
  BY DEF Destroyed, TypeInv, TypeOK, State, Closed
<1>5. state' = purged \/ state' = [purged EXCEPT ![u] = "COMMITTED"]
  BY DEF ConfirmCommit
<1>6. future' = future \/ future' = [future EXCEPT ![u] = "COMMITTED"]
  BY DEF ConfirmCommit
<1> HIDE DEF purged, u
<1>7. state' \in [Tx -> State]
  BY <1>4, <1>5 DEF State, Closed
<1>8. future' \in [Tx -> Result]
  BY <1>6 DEF Result, TypeInv, TypeOK
<1>9. UNCHANGED <<server, m_con, m_rev, m_data, m_commands, m_requests, m_correlation,
                   content, created, held, missed>>
  BY DEF ConfirmCommit
<1> QED BY <1>1, <1>2, <1>3, <1>7, <1>8, <1>9 DEF TypeInv, TypeOK, UpdatesKnown, server, content, created

LEMMA AbortType ==
    ASSUME TypeOK, NEW ts, Abort(ts) PROVE state' \in [Tx -> State] /\ future' \in [Tx -> Result]
BY DEF TypeOK, Abort, State, Result, Closed

LEMMA SubmitMsgType ==
    ASSUME TypeOK, NEW t \in Tx, NEW cid \in Nat, NEW f \in BOOLEAN
    PROVE  SubmitMsg(t, cid, f) \in SubmitRec
<1> DEFINE up == [k \in {x \in DOMAIN items[t] : items[t][x].action = "UPSERT"} |->
                      items[t][k].value.data]
           del == {k \in DOMAIN items[t] : items[t][k].action = "DELETE"}
<1>1. IsMap(items[t], Key, ItemRec)
  BY DEF TypeOK, AreMaps
<1>2. \A k \in DOMAIN items[t] : k \in Key /\ (items[t][k].action = "UPSERT" => items[t][k].value \in Value)
  BY <1>1, ItemFields DEF IsMap
<1>3. \A v \in Value : v.data \in Data
  BY DEF Value
<1>4. IsMap(up, Key, Data)
  BY <1>2, <1>3 DEF IsMap
<1>5. up \in PartialFcn(Key, Data)
  BY <1>4, MapIs
<1>6. del \in SUBSET Key
  BY <1>2
<1>7. (IF isolation[t] = "SERIALIZABLE" THEN rev_creation[t] ELSE m_rev) \in Nat
  BY DEF TypeOK
<1>8. ensures[t] \in SUBSET Key
  BY DEF TypeOK
<1> HIDE DEF up, del
<1> QED BY <1>5, <1>6, <1>7, <1>8 DEF SubmitMsg, SubmitRec, up, del

LEMMA ProcessSubmitCmdType ==
    ASSUME TypeInv, ProcessSubmitCmd PROVE TypeInv'
<1> DEFINE cmd == Head(m_commands)
<1>1. cmd \in [tx : Tx, force : BOOLEAN] /\ m_commands' \in Seq([tx : Tx, force : BOOLEAN])
  <2> DEFINE R == [tx : Tx, force : BOOLEAN]
  <2>1. m_commands \in Seq(R) /\ m_commands # <<>> /\ m_commands' = Tail(m_commands)
    BY DEF ProcessSubmitCmd, TypeInv, TypeOK
  <2> HIDE DEF R
  <2>2. cmd \in R /\ m_commands' \in Seq(R)
    BY <2>1
  <2> QED BY <2>2 DEF R
<1>2. UNCHANGED <<log, pushed, toClient, m_con, m_rev, m_data, m_transactions, m_accepted,
                   loop, content, created, held, missed>>
  BY DEF ProcessSubmitCmd
<1>3. CASE Abort({cmd.tx}) /\ UNCHANGED <<toServer, m_requests, m_correlation>>
  <2>1. state' \in [Tx -> State] /\ future' \in [Tx -> Result]
    BY <1>3, AbortType DEF TypeInv
  <2> QED BY <1>1, <1>2, <1>3, <2>1 DEF TypeInv, TypeOK, UpdatesKnown, content, created
<1>4. CASE /\ toServer' = Append(toServer, SubmitMsg(cmd.tx, m_correlation, cmd.force))
           /\ m_requests' = Append(m_requests, [cid |-> m_correlation, tx |-> cmd.tx])
           /\ m_correlation' = m_correlation + 1
           /\ UNCHANGED <<state, future>>
  <2>1. cmd.tx \in Tx /\ cmd.force \in BOOLEAN /\ m_correlation \in Nat
    BY <1>1 DEF TypeInv, TypeOK
  <2>2. SubmitMsg(cmd.tx, m_correlation, cmd.force) \in SubmitRec
    BY <2>1, SubmitMsgType DEF TypeInv
  <2>3. toServer' \in Seq(SubmitRec)
    BY <1>4, <2>2 DEF TypeInv, TypeOK
  <2>4. m_requests' \in Seq([cid : Nat, tx : Tx]) /\ m_correlation' \in Nat
    BY <1>4, <2>1 DEF TypeInv, TypeOK
  <2> QED BY <1>1, <1>2, <1>4, <2>3, <2>4 DEF TypeInv, TypeOK, UpdatesKnown, content, created
<1> QED BY <1>3, <1>4 DEF ProcessSubmitCmd

LEMMA SubmitResultType ==
    ASSUME NEW c PROVE SubmitResult(c).state \in State /\ SubmitResult(c).future \in Result
BY DEF SubmitResult, State, Result, Closed

LEMMA ProcessSubmitRespType ==
    ASSUME TypeInv, ProcessSubmitResp PROVE TypeInv'
<1> DEFINE resp == Head(toClient)  Req == [cid : Nat, tx : Tx]  Acc == [tx : Tx, erev : Nat]
<1>1. /\ toClient' \in Seq(ClientMsg) /\ Len(toClient') = Len(toClient) - 1 /\ resp \in ClientMsg
      /\ \A i \in 1 .. Len(toClient') : i + 1 \in 1 .. Len(toClient) /\ toClient'[i] = toClient[i + 1]
  BY TailKnown DEF ProcessSubmitResp, TypeInv, TypeOK
<1>2. UNCHANGED <<log, pushed, toServer, m_con, m_rev, m_data, m_transactions, m_commands,
                   m_correlation, loop, content, created, held, missed>>
  BY DEF ProcessSubmitResp
<1>3. UpdatesKnown'
  BY <1>1, <1>2 DEF TypeInv, UpdatesKnown
<1>4. PICK n \in 0 .. Len(m_requests) :
        LET left == SubSeq(m_requests, n + 1, Len(m_requests)) IN
        \/ m_requests' = left /\ UNCHANGED <<m_accepted, state, future>>
        \/ LET t == Head(left).tx IN
           /\ left # <<>>
           /\ m_requests' = Tail(left)
           /\ m_accepted' = IF resp.code = "ACCEPTED"
                            THEN Append(m_accepted, [tx |-> t, erev |-> resp.erev])
                            ELSE m_accepted
           /\ IF state[t] = "SUBMITTED"
              THEN /\ state' = [state EXCEPT ![t] = SubmitResult(resp.code).state]
                   /\ future' = [future EXCEPT ![t] = SubmitResult(resp.code).future]
              ELSE UNCHANGED <<state, future>>
  BY DEF ProcessSubmitResp
<1> DEFINE left == SubSeq(m_requests, n + 1, Len(m_requests))  t == Head(left).tx
<1>5. left \in Seq(Req)
  BY SubSeqType DEF TypeInv, TypeOK
<1>6. CASE m_requests' = left /\ UNCHANGED <<m_accepted, state, future>>
  BY <1>1, <1>2, <1>3, <1>5, <1>6 DEF TypeInv, TypeOK, content, created
<1>7. CASE /\ left # <<>> /\ m_requests' = Tail(left)
           /\ m_accepted' = IF resp.code = "ACCEPTED"
                            THEN Append(m_accepted, [tx |-> t, erev |-> resp.erev])
                            ELSE m_accepted
           /\ IF state[t] = "SUBMITTED"
              THEN /\ state' = [state EXCEPT ![t] = SubmitResult(resp.code).state]
                   /\ future' = [future EXCEPT ![t] = SubmitResult(resp.code).future]
              ELSE UNCHANGED <<state, future>>
  <2>0. left # <<>> /\ m_requests' = Tail(left)
    BY <1>7
  <2>a. resp.code = "ACCEPTED" => m_accepted' = Append(m_accepted, [tx |-> t, erev |-> resp.erev])
    BY <1>7
  <2>b. resp.code # "ACCEPTED" => m_accepted' = m_accepted
    BY <1>7
  <2>c. \/ /\ state' = [state EXCEPT ![t] = SubmitResult(resp.code).state]
           /\ future' = [future EXCEPT ![t] = SubmitResult(resp.code).future]
        \/ UNCHANGED <<state, future>>
    BY <1>7
  <2> HIDE DEF left, Req, Acc
  <2>1. m_requests' \in Seq(Req) /\ Head(left) \in Req
    BY <1>5, <2>0
  <2>2. t \in Tx /\ resp.erev \in Nat
    BY <1>1, <2>1, MessageFields DEF Req
  <2> HIDE DEF t, resp
  <2>3. m_accepted' \in Seq(Acc)
    <3>1. [tx |-> t, erev |-> resp.erev] \in Acc /\ m_accepted \in Seq(Acc)
      BY <2>2 DEF TypeInv, TypeOK, Acc
    <3>2. CASE resp.code = "ACCEPTED"
      BY <2>a, <3>1, <3>2, AppendProperties
    <3>3. CASE resp.code # "ACCEPTED"
      BY <2>b, <3>1, <3>3
    <3> QED BY <3>2, <3>3
  <2>4. state' \in [Tx -> State] /\ future' \in [Tx -> Result]
    <3>1. SubmitResult(resp.code).state \in State /\ SubmitResult(resp.code).future \in Result
      BY SubmitResultType
    <3> QED BY <2>c, <2>2, <3>1 DEF TypeInv, TypeOK
  <2> QED BY <1>1, <1>2, <1>3, <2>1, <2>3, <2>4 DEF TypeInv, TypeOK, content, created, Req, Acc
<1> QED BY <1>4, <1>6, <1>7

LEMMA ConnectionClosedType ==
    ASSUME TypeInv, ConnectionClosed PROVE TypeInv'
<1>1. state' \in [Tx -> State] /\ future' \in [Tx -> Result]
  BY AbortType DEF ConnectionClosed, TypeInv
<1>2. /\ toServer' \in Seq(SubmitRec) /\ toClient' \in Seq(ClientMsg) /\ m_con' \in BOOLEAN
      /\ m_requests' \in Seq([cid : Nat, tx : Tx]) /\ m_accepted' \in Seq([tx : Tx, erev : Nat])
      /\ Len(toClient') = 0
  <2>1. /\ toServer' = <<>> /\ toClient' = <<>> /\ m_requests' = <<>> /\ m_accepted' = <<>>
        /\ m_con' = FALSE
    BY DEF ConnectionClosed
  <2>2. m_con' \in BOOLEAN
    BY <2>1, Zenon
  <2>3. \A S : <<>> \in Seq(S)
    OBVIOUS
  <2>4. Len(<<>>) = 0
    OBVIOUS
  <2> QED BY <2>1, <2>2, <2>3, <2>4, Zenon
<1>3. UNCHANGED <<log, pushed, m_rev, m_data, m_transactions, m_commands, m_correlation,
                   loop, content, created, held, missed>>
  BY DEF ConnectionClosed
<1> QED BY <1>1, <1>2, <1>3 DEF TypeInv, TypeOK, UpdatesKnown, content, created

LEMMA ReconnectedType ==
    ASSUME TypeInv, Reconnected PROVE TypeInv'
BY DEF Reconnected, TypeInv, TypeOK, UpdatesKnown, txvars, content, created

(* A commit is appended to the log, a message to the queue.                *)
LEMMA AppendKnown ==
    ASSUME TypeInv, NEW c \in CommitRec, NEW m \in ClientMsg,
           log' = log \/ log' = Append(log, c),
           toClient' = toClient \/ toClient' = Append(toClient, m),
           m.type = "update" => m.rev \in 1 .. Len(log)
    PROVE  log' \in Seq(CommitRec) /\ toClient' \in Seq(ClientMsg) /\ UpdatesKnown'
<1>1. log \in Seq(CommitRec) /\ toClient \in Seq(ClientMsg) /\ Len(log) \in Nat /\ Len(toClient) \in Nat
  BY DEF TypeInv, TypeOK
<1>2. log' \in Seq(CommitRec) /\ Len(log') \in Nat /\ Len(log') >= Len(log)
  BY <1>1
<1>3. toClient' \in Seq(ClientMsg)
      /\ \A i \in 1 .. Len(toClient') : toClient'[i] = m \/ (i \in 1 .. Len(toClient) /\ toClient'[i] = toClient[i])
  BY <1>1
<1>4. \A r : r \in 1 .. Len(log) => r \in 1 .. Len(log')
  BY <1>1, <1>2
<1>5. UpdatesKnown'
  <2> SUFFICES ASSUME NEW i \in 1 .. Len(toClient'), toClient'[i].type = "update"
               PROVE  toClient'[i].rev \in 1 .. Len(log')
    BY DEF UpdatesKnown
  <2>1. toClient'[i].rev \in 1 .. Len(log)
    BY <1>3 DEF TypeInv, UpdatesKnown
  <2> QED BY <1>4, <2>1
<1> QED BY <1>2, <1>3, <1>5

AnswerMsg(q, code, erev) ==
    [type |-> "submit", cid |-> q.cid, code |-> code, erev |-> erev, rev |-> 0]

(* What the server does with a request.                                    *)
LEMMA ServerSubmitIs ==
    ASSUME TypeInv, ServerSubmit
    PROVE  LET q == Head(toServer) IN
           /\ toServer # <<>> /\ toServer' = Tail(toServer) /\ q \in SubmitRec
           /\ UNCHANGED <<pushed, client, txvars>>
           /\ \/ /\ log' = log
                 /\ \E code \in Code \ {"ACCEPTED"} : toClient' = Append(toClient, AnswerMsg(q, code, 0))
              \/ /\ Verdict(q) = "ACCEPTED"
                 /\ log' = Append(log, Commit(Me, q.tx, q.force, q.upserts, q.deletes))
                 /\ toClient' = Append(toClient, AnswerMsg(q, "ACCEPTED", Len(log) + 1))
<1> DEFINE q == Head(toServer)
<1>1. /\ toServer # <<>> /\ toServer' = Tail(toServer)
      /\ UNCHANGED <<pushed, client, txvars>>
  BY DEF ServerSubmit
<1>2. q \in SubmitRec
  BY <1>1 DEF TypeInv, TypeOK
<1>3. \/ toClient' = Append(toClient, AnswerMsg(q, "TRY_LATER", 0)) /\ log' = log
      \/ /\ Verdict(q) # "ACCEPTED" /\ log' = log
         /\ toClient' = Append(toClient, AnswerMsg(q, Verdict(q), 0))
      \/ /\ Verdict(q) = "ACCEPTED"
         /\ log' = Append(log, Commit(Me, q.tx, q.force, q.upserts, q.deletes))
         /\ toClient' = Append(toClient, AnswerMsg(q, "ACCEPTED", Len(log) + 1))
  BY DEF ServerSubmit, Answer, AnswerMsg
<1>4. Verdict(q) \in Code
  BY DEF Verdict, Code
<1>5. "TRY_LATER" \in Code \ {"ACCEPTED"}
  BY DEF Code
<1> HIDE DEF q
<1> QED BY <1>1, <1>2, <1>3, <1>4, <1>5, Zenon DEF q

LEMMA AnswerType ==
    ASSUME NEW q \in SubmitRec, NEW code \in Code, NEW erev \in Nat
    PROVE  AnswerMsg(q, code, erev) \in ClientMsg
BY DEF AnswerMsg, ClientMsg, SubmitRec

LEMMA CommitType ==
    ASSUME NEW q \in SubmitRec
    PROVE  Commit(Me, q.tx, q.force, q.upserts, q.deletes) \in CommitRec
BY TxAssumption DEF Commit, CommitRec, SubmitRec

LEMMA ServerSubmitType ==
    ASSUME TypeInv, ServerSubmit PROVE TypeInv'
<1> DEFINE q == Head(toServer)  c == Commit(Me, q.tx, q.force, q.upserts, q.deletes)
<1>1. /\ toServer # <<>> /\ toServer' = Tail(toServer) /\ q \in SubmitRec
      /\ UNCHANGED <<pushed, client, txvars>>
  BY ServerSubmitIs
<1>2. c \in CommitRec
  BY <1>1, CommitType
<1>3. \E m \in ClientMsg : m.type # "update" /\ toClient' = Append(toClient, m)
  <2>1. Len(log) + 1 \in Nat /\ 0 \in Nat /\ "ACCEPTED" \in Code
    BY DEF TypeInv, TypeOK, Code
  <2>2. \A code, erev : AnswerMsg(q, code, erev).type # "update"
    BY DEF AnswerMsg
  <2>3. \E code \in Code, erev \in Nat : toClient' = Append(toClient, AnswerMsg(q, code, erev))
    BY <2>1, ServerSubmitIs
  <2> QED BY <1>1, <2>2, <2>3, AnswerType
<1>4. log' = log \/ log' = Append(log, c)
  BY ServerSubmitIs
<1> HIDE DEF c
<1>5. log' \in Seq(CommitRec) /\ toClient' \in Seq(ClientMsg) /\ UpdatesKnown'
  BY <1>2, <1>3, <1>4, AppendKnown
<1>6. toServer' \in Seq(SubmitRec)
  BY <1>1 DEF TypeInv, TypeOK
<1> QED BY <1>1, <1>5, <1>6 DEF TypeInv, TypeOK, client, txvars, content, created

LEMMA ServerCommitType ==
    ASSUME TypeInv, ServerCommit PROVE TypeInv'
<1>1. PICK c \in OtherCommit : log' = Append(log, Commit(Other, Null, FALSE, c.upserts, c.deletes))
  BY DEF ServerCommit
<1> DEFINE d == Commit(Other, Null, FALSE, c.upserts, c.deletes)
<1>2. c.upserts \in PartialFcn(Key, Data) /\ c.deletes \subseteq Key
  BY TxAssumption, MapIs
<1>3. d \in CommitRec
  BY <1>2, TxAssumption DEF Commit, CommitRec
<1>4. UNCHANGED <<pushed, toServer, toClient, client, txvars>>
  BY DEF ServerCommit
<1>5. \E m \in ClientMsg : m.type # "update"
  <2>1. [type |-> "submit", cid |-> 0, code |-> "ACCEPTED", erev |-> 0, rev |-> 0] \in ClientMsg
    BY DEF ClientMsg, Code
  <2> QED BY <2>1
<1> HIDE DEF d
<1>6. log' \in Seq(CommitRec) /\ toClient' \in Seq(ClientMsg) /\ UpdatesKnown'
  BY <1>1, <1>3, <1>4, <1>5, AppendKnown DEF d
<1> QED BY <1>4, <1>6 DEF TypeInv, TypeOK, client, txvars, content, created

UpdateMessage(r) == [type |-> "update", cid |-> 0, code |-> "", erev |-> 0, rev |-> r]

LEMMA ServerPushType ==
    ASSUME TypeInv, ServerPush PROVE TypeInv'
<1> DEFINE m == UpdateMessage(pushed + 1)
<1>0. Len(log) \in Nat /\ pushed \in Nat
  BY LenProperties DEF TypeInv, TypeOK
<1>1. pushed + 1 \in 1 .. Len(log) /\ pushed' = pushed + 1 /\ pushed' \in Nat
  <2>1. pushed < Len(log) /\ pushed' = pushed + 1
    BY DEF ServerPush
  <2> QED BY <1>0, <2>1
<1>2. m \in ClientMsg /\ m.rev = pushed + 1 /\ toClient' = Append(toClient, m)
  BY <1>1 DEF ServerPush, UpdateMessage, ClientMsg
<1>3. UNCHANGED <<log, toServer, client, txvars>>
  BY DEF ServerPush
<1>4. \E c : c \in CommitRec
  <2>1. log[pushed + 1] \in CommitRec
    BY <1>1 DEF TypeInv, TypeOK
  <2> QED BY <2>1
<1> HIDE DEF m
<1>5. log' \in Seq(CommitRec) /\ toClient' \in Seq(ClientMsg) /\ UpdatesKnown'
  BY <1>1, <1>2, <1>3, <1>4, AppendKnown
<1> QED BY <1>1, <1>3, <1>5 DEF TypeInv, TypeOK, client, txvars, content, created

LEMMA StutterType == ASSUME TypeInv, UNCHANGED vars PROVE TypeInv'
BY DEF TypeInv, TypeOK, UpdatesKnown, vars, server, client, txvars, content, created

LEMMA NextType == ASSUME TypeInv, [Next]_vars PROVE TypeInv'
<1>1. CASE UserStep
  <2>1. PICK t \in Tx : \/ ContentOp(t)
                        \/ \E level \in Levels[t] : CreateTx(t, level)
                        \/ Discard(t) \/ DropHandle(t)
                        \/ \E f \in Forcing : Submit(t, f)
    BY <1>1, UserSteps
  <2> QED BY <2>1, ContentOpType, CreateTxType, DiscardType, SubmitType
<1>2. CASE LoopStep
  BY <1>2, ProcessUpdateType, LockTransactionsType, UpdateTxType, ConfirmCommitType, VisitTxType,
     ProcessSubmitCmdType, ProcessSubmitRespType DEF LoopStep
<1>3. CASE ServerStep
  BY <1>3, ServerSubmitType, ServerCommitType, ServerPushType DEF ServerStep
<1>4. CASE ConnectionClosed \/ Reconnected
  BY <1>4, ConnectionClosedType, ReconnectedType
<1>5. CASE UNCHANGED vars
  BY <1>5, StutterType
<1> QED BY <1>1, <1>2, <1>3, <1>4, <1>5 DEF Next

(* The types of NplexTransactions: every field of the client, of its       *)
(* transactions and of the messages in flight keeps its range, through all *)
(* operations, answers, updates and losses of the connection.              *)
THEOREM TransactionsTypeInv == Spec => []TypeInv
<1>1. Init => TypeInv
  BY InitType
<1>2. TypeInv /\ [Next]_vars => TypeInv'
  BY NextType
<1> QED BY <1>1, <1>2, PTL DEF Spec

(* TypeOK, as the runs check it: the members of client_impl and            *)
(* transaction_impl keep their types.                                      *)
THEOREM TransactionsTypeOK == Spec => []TypeOK
<1>1. TypeInv => TypeOK
  BY DEF TypeInv
<1> QED BY <1>1, TransactionsTypeInv, PTL

-----------------------------------------------------------------------------
(* The messages of one type in a queue.                                    *)
Selects(q, ty, n, s) ==
    /\ s \in [0 .. n -> Seq(ClientMsg)] /\ s[0] = <<>>
    /\ \A i \in 1 .. n : s[i] = IF q[i].type = ty THEN Append(s[i - 1], q[i]) ELSE s[i - 1]

LEMMA SelectsUnique ==
    ASSUME NEW q, NEW ty, NEW n \in Nat, NEW s, Selects(q, ty, n, s),
           NEW r, r[0] = <<>>,
           \A i \in 1 .. n : r[i] = IF q[i].type = ty THEN Append(r[i - 1], q[i]) ELSE r[i - 1]
    PROVE  r[n] = s[n]
<1> DEFINE P == {i \in 0 .. n : r[i] = s[i]}
<1>1. 0 \in P
  BY DEF Selects
<1>2. ASSUME NEW i \in 1 .. n, i - 1 \in P PROVE i \in P
  <2>1. r[i - 1] = s[i - 1] /\ i \in 0 .. n
    BY <1>2
  <2>2. s[i] = IF q[i].type = ty THEN Append(s[i - 1], q[i]) ELSE s[i - 1]
    BY DEF Selects
  <2>3. r[i] = IF q[i].type = ty THEN Append(r[i - 1], q[i]) ELSE r[i - 1]
    OBVIOUS
  <2> QED BY <2>1, <2>2, <2>3, Zenon
<1> HIDE DEF P
<1>3. P \in SUBSET (0 .. n) /\ \A i \in 1 .. n : i - 1 \in P => i \in P
  BY <1>2 DEF P
<1>4. P = 0 .. n
  BY <1>1, <1>3, UpTo, Zenon
<1>5. n \in P
  BY <1>4
<1> QED BY <1>5 DEF P

LEMMA SelectsExists ==
    ASSUME NEW q \in Seq(ClientMsg), NEW ty
    PROVE  \E s : Selects(q, ty, Len(q), s)
<1> DEFINE n == Len(q)  S == Seq(ClientMsg)
           body == [i \in 1 .. n |-> [x \in S |-> IF q[i].type = ty THEN Append(x, q[i]) ELSE x]]
<1>0. n \in Nat /\ \A i \in 1 .. n : q[i] \in ClientMsg
  BY LenProperties, ElementOfSeq
<1>1. body \in [1 .. n -> [S -> S]]
  <2>1. ASSUME NEW i \in 1 .. n, NEW x \in S PROVE Append(x, q[i]) \in S
    BY <1>0, AppendProperties
  <2> QED BY <2>1
<1>2. <<>> \in S
  OBVIOUS
<1> HIDE DEF body, S, n
<1>3. PICK f \in [0 .. n -> S] : IsLoop(f, n, <<>>, body)
  BY <1>0, <1>1, <1>2, LoopExists
<1>4. ASSUME NEW i \in 1 .. n PROVE f[i] = IF q[i].type = ty THEN Append(f[i - 1], q[i]) ELSE f[i - 1]
  <2>1. f[i] = body[i][f[i - 1]]
    BY <1>3, Zenon DEF IsLoop
  <2>2. f[i - 1] \in S
    BY <1>0
  <2> QED BY <2>1, <2>2 DEF body
<1>5. Selects(q, ty, n, f)
  BY <1>3, <1>4 DEF Selects, IsLoop, S
<1> QED BY <1>5 DEF n

LEMMA OfTypeIs ==
    ASSUME NEW q \in Seq(ClientMsg), NEW ty, NEW s, Selects(q, ty, Len(q), s)
    PROVE  OfType(q, ty) = s[Len(q)] /\ OfType(q, ty) \in Seq(ClientMsg)
<1> DEFINE n == Len(q)
           F(f) == [i \in 0 .. n |->
                IF i = 0 THEN <<>>
                ELSE IF q[i].type = ty THEN Append(f[i - 1], q[i]) ELSE f[i - 1]]
           sel == CHOOSE f : f = F(f)
<1>0. n \in Nat
  OBVIOUS
<1>1. s = F(s)
  <2>1. s \in [0 .. n -> Seq(ClientMsg)]
    BY DEF Selects
  <2>2. ASSUME NEW i \in 0 .. n PROVE s[i] = F(s)[i]
    <3>1. CASE i = 0
      BY <3>1 DEF Selects
    <3>2. CASE i # 0
      <4>1. i \in 1 .. n
        BY <1>0, <3>2
      <4> QED BY <3>2, <4>1 DEF Selects
    <3> QED BY <3>1, <3>2
  <2> QED BY <2>1, <2>2
<1>2. sel = F(sel)
  BY <1>1, Zenon
<1>3. OfType(q, ty) = sel[n]
  BY DEF OfType
<1> HIDE DEF sel
<1>4. sel[0] = <<>>
  BY <1>0, <1>2
<1>5. ASSUME NEW i \in 1 .. n
      PROVE  sel[i] = IF q[i].type = ty THEN Append(sel[i - 1], q[i]) ELSE sel[i - 1]
  <2>1. sel[i] = F(sel)[i]
    BY <1>2, Zenon
  <2>2. i \in 0 .. n /\ i # 0
    BY <1>0
  <2>3. F(sel)[i] = IF q[i].type = ty THEN Append(sel[i - 1], q[i]) ELSE sel[i - 1]
    BY <2>2
  <2> HIDE DEF F
  <2> QED BY <2>1, <2>3, Zenon
<1> HIDE DEF F, n
<1>6. Selects(q, ty, n, s)
  BY DEF n
<1>7. sel[n] = s[n]
  BY <1>0, <1>4, <1>5, <1>6, SelectsUnique
<1>8. s[n] \in Seq(ClientMsg)
  BY <1>0, <1>6 DEF Selects
<1> QED BY <1>3, <1>7, <1>8 DEF n

LEMMA OfTypeSeq ==
    ASSUME NEW q \in Seq(ClientMsg), NEW ty PROVE OfType(q, ty) \in Seq(ClientMsg)
BY SelectsExists, OfTypeIs

LEMMA OfTypeEmpty ==
    ASSUME NEW ty PROVE OfType(<<>>, ty) = <<>>
<1> DEFINE s == [i \in 0 .. 0 |-> <<>>]
<1>1. <<>> \in Seq(ClientMsg) /\ Len(<<>>) = 0
  OBVIOUS
<1>2. Selects(<<>>, ty, 0, s)
  BY <1>1 DEF Selects
<1>3. s[0] = <<>>
  OBVIOUS
<1> HIDE DEF s
<1> QED BY <1>1, <1>2, <1>3, OfTypeIs

LEMMA OfTypeAppend ==
    ASSUME NEW q \in Seq(ClientMsg), NEW ty, NEW m \in ClientMsg
    PROVE  OfType(Append(q, m), ty) =
                IF m.type = ty THEN Append(OfType(q, ty), m) ELSE OfType(q, ty)
<1> DEFINE n == Len(q)  p == Append(q, m)
<1>0. n \in Nat /\ p \in Seq(ClientMsg) /\ Len(p) = n + 1 /\ p[n + 1] = m /\ \A i \in 1 .. n : p[i] = q[i]
  BY AppendProperties
<1>1. PICK s : Selects(q, ty, n, s)
  BY SelectsExists
<1>2. OfType(q, ty) = s[n]
  BY <1>1, OfTypeIs
<1> HIDE DEF n, p
<1> DEFINE x == IF m.type = ty THEN Append(s[n], m) ELSE s[n]
           r == [i \in 0 .. n + 1 |-> IF i = n + 1 THEN x ELSE s[i]]
<1>3. s \in [0 .. n -> Seq(ClientMsg)] /\ s[0] = <<>> /\ s[n] \in Seq(ClientMsg)
  BY <1>0, <1>1 DEF Selects
<1>4. x \in Seq(ClientMsg)
  BY <1>3, AppendProperties
<1> HIDE DEF x
<1>5. r \in [0 .. n + 1 -> Seq(ClientMsg)] /\ r[0] = <<>> /\ r[n + 1] = x
  BY <1>0, <1>3, <1>4
<1>6. ASSUME NEW i \in 1 .. n + 1
      PROVE  r[i] = IF p[i].type = ty THEN Append(r[i - 1], p[i]) ELSE r[i - 1]
  <2>1. CASE i = n + 1
    <3>1. p[i] = m /\ r[i - 1] = s[n] /\ r[i] = x
      BY <1>0, <2>1
    <3> QED BY <3>1 DEF x
  <2>2. CASE i # n + 1
    <3>1. i \in 1 .. n /\ r[i] = s[i] /\ r[i - 1] = s[i - 1]
      BY <1>0, <2>2
    <3>2. p[i] = q[i]
      BY <1>0, <3>1
    <3>3. s[i] = IF q[i].type = ty THEN Append(s[i - 1], q[i]) ELSE s[i - 1]
      BY <1>1, <3>1 DEF Selects
    <3> QED BY <3>1, <3>2, <3>3, Zenon
  <2> QED BY <2>1, <2>2
<1> HIDE DEF r
<1>7. Selects(p, ty, n + 1, r)
  BY <1>5, <1>6 DEF Selects
<1>8. OfType(p, ty) = x
  BY <1>0, <1>5, <1>7, OfTypeIs
<1> QED BY <1>2, <1>8 DEF p, x

(* A message put in front.                                                 *)
LEMMA FrontAppend ==
    ASSUME NEW S, NEW h \in Seq(S), NEW x \in Seq(S), NEW m \in S
    PROVE  h \o Append(x, m) = Append(h \o x, m)
BY AppendProperties, ConcatProperties

LEMMA OfTypeTail ==
    ASSUME NEW q \in Seq(ClientMsg), q # <<>>, NEW ty
    PROVE  OfType(q, ty) = (IF q[1].type = ty THEN <<q[1]>> ELSE <<>>) \o OfType(Tail(q), ty)
<1> DEFINE n == Len(q)  p == Tail(q)  h == IF q[1].type = ty THEN <<q[1]>> ELSE <<>>
<1>0. /\ n \in Nat /\ n > 0 /\ p \in Seq(ClientMsg) /\ Len(p) = n - 1 /\ q[1] \in ClientMsg
      /\ \A i \in 1 .. n - 1 : p[i] = q[i + 1]
  BY TailKnown
<1>1. PICK s : Selects(p, ty, n - 1, s)
  BY <1>0, SelectsExists
<1>2. OfType(p, ty) = s[n - 1]
  BY <1>0, <1>1, OfTypeIs
<1>3. h \in Seq(ClientMsg) /\ h \o <<>> = h
  <2>1. <<q[1]>> \in Seq(ClientMsg) /\ <<>> \in Seq(ClientMsg)
    BY <1>0
  <2>2. h \in Seq(ClientMsg)
    BY <2>1
  <2> HIDE DEF h
  <2> QED BY <2>2, ConcatEmptySeq
<1>4. h = IF q[1].type = ty THEN Append(<<>>, q[1]) ELSE <<>>
  OBVIOUS
<1>a. s \in [0 .. n - 1 -> Seq(ClientMsg)] /\ s[0] = <<>>
  BY <1>1 DEF Selects
<1> HIDE DEF n, p, h
<1> DEFINE r == [i \in 0 .. n |-> IF i = 0 THEN <<>> ELSE h \o s[i - 1]]
<1>5. r \in [0 .. n -> Seq(ClientMsg)] /\ r[0] = <<>> /\ r[n] = h \o s[n - 1]
  <2>1. ASSUME NEW i \in 1 .. n PROVE h \o s[i - 1] \in Seq(ClientMsg)
    <3>1. s[i - 1] \in Seq(ClientMsg)
      BY <1>0, <1>a
    <3> QED BY <1>3, <3>1, ConcatProperties
  <2>2. <<>> \in Seq(ClientMsg)
    OBVIOUS
  <2> QED BY <1>0, <2>1, <2>2
<1>6. ASSUME NEW i \in 1 .. n
      PROVE  r[i] = IF q[i].type = ty THEN Append(r[i - 1], q[i]) ELSE r[i - 1]
  <2>1. CASE i = 1
    <3>1. r[i] = h \o s[0] /\ r[i - 1] = <<>>
      BY <1>0, <2>1
    <3> QED BY <1>3, <1>4, <1>a, <2>1, <3>1, Zenon
  <2>2. CASE i # 1
    <3>1. i - 1 \in 1 .. n - 1 /\ i - 1 - 1 \in 0 .. n - 1 /\ i - 1 + 1 = i
      BY <1>0, <2>2
    <3>2. r[i] = h \o s[i - 1] /\ r[i - 1] = h \o s[i - 1 - 1]
      <4>1. i \in 0 .. n /\ i # 0 /\ i - 1 \in 0 .. n /\ i - 1 # 0
        BY <1>0, <2>2
      <4> QED BY <4>1, Zenon
    <3>3. p[i - 1] = q[i]
      BY <1>0, <3>1
    <3>4. s[i - 1] = IF p[i - 1].type = ty THEN Append(s[i - 1 - 1], p[i - 1]) ELSE s[i - 1 - 1]
      BY <1>1, <3>1 DEF Selects
    <3>5. s[i - 1 - 1] \in Seq(ClientMsg) /\ q[i] \in ClientMsg
      BY <1>0, <1>a, <3>1, ElementOfSeq DEF n
    <3>6. h \o Append(s[i - 1 - 1], q[i]) = Append(h \o s[i - 1 - 1], q[i])
      <4>1. \A x \in Seq(ClientMsg), m \in ClientMsg : h \o Append(x, m) = Append(h \o x, m)
        BY <1>3, FrontAppend
      <4> QED BY <3>5, <4>1, Zenon
    <3> QED BY <3>2, <3>3, <3>4, <3>6, Zenon
  <2> QED BY <2>1, <2>2
<1> HIDE DEF r
<1>7. Selects(q, ty, n, r)
  BY <1>5, <1>6 DEF Selects
<1>8. OfType(q, ty) = h \o s[n - 1]
  BY <1>5, <1>7, OfTypeIs DEF n
<1> QED BY <1>2, <1>8, Zenon DEF h, p

(* The oldest message is removed.                                          *)
LEMMA OfTypePop ==
    ASSUME NEW q \in Seq(ClientMsg), q # <<>>, NEW ty
    PROVE  /\ q[1].type # ty => OfType(Tail(q), ty) = OfType(q, ty)
           /\ q[1].type = ty => /\ OfType(q, ty) # <<>> /\ OfType(q, ty)[1] = q[1]
                                /\ OfType(Tail(q), ty) = Tail(OfType(q, ty))
<1> DEFINE p == OfType(Tail(q), ty)
<1>0. Tail(q) \in Seq(ClientMsg) /\ q[1] \in ClientMsg
  BY TailKnown
<1>1. p \in Seq(ClientMsg)
  BY <1>0, OfTypeSeq
<1>2. OfType(q, ty) = (IF q[1].type = ty THEN <<q[1]>> ELSE <<>>) \o p
  BY OfTypeTail
<1> HIDE DEF p
<1>3. ASSUME q[1].type # ty PROVE p = OfType(q, ty)
  <2>1. OfType(q, ty) = <<>> \o p
    BY <1>2, <1>3, Zenon
  <2> QED BY <1>1, <2>1, ConcatEmptySeq
<1>4. ASSUME q[1].type = ty
      PROVE  OfType(q, ty) # <<>> /\ OfType(q, ty)[1] = q[1] /\ p = Tail(OfType(q, ty))
  <2> DEFINE m == q[1]
  <2>1. OfType(q, ty) = <<m>> \o p /\ m \in ClientMsg
    BY <1>0, <1>2, <1>4, Zenon
  <2> HIDE DEF m
  <2> DEFINE h == <<m>>  o == h \o p
  <2>2. h \in Seq(ClientMsg) /\ Len(h) = 1 /\ h[1] = m
    BY <2>1
  <2> HIDE DEF h
  <2>3. /\ o \in Seq(ClientMsg) /\ Len(o) = 1 + Len(p) /\ Len(p) \in Nat
        /\ \A i \in 1 .. 1 + Len(p) : o[i] = IF i <= 1 THEN h[i] ELSE p[i - 1]
    <3>1. /\ o \in Seq(ClientMsg) /\ Len(o) = Len(h) + Len(p)
          /\ \A i \in 1 .. Len(h) + Len(p) : o[i] = IF i <= Len(h) THEN h[i] ELSE p[i - Len(h)]
      BY <1>1, <2>2, ConcatProperties
    <3>2. Len(p) \in Nat
      BY <1>1
    <3> HIDE DEF o
    <3> QED BY <2>2, <3>1, <3>2, Zenon
  <2> HIDE DEF o
  <2>4. o # <<>> /\ o[1] = m
    BY <2>2, <2>3, EmptySeq
  <2>5. Tail(o) \in Seq(ClientMsg) /\ Len(Tail(o)) = Len(p) /\ \A i \in 1 .. Len(p) : Tail(o)[i] = p[i]
    BY <2>3, <2>4
  <2>6. Tail(o) = p
    BY <1>1, <2>5, SeqEqual
  <2> QED BY <2>1, <2>4, <2>6 DEF o, h, m
<1> QED BY <1>3, <1>4 DEF p

-----------------------------------------------------------------------------
(* The submit protocol.  Each request not yet answered is on its way to    *)
(* the server or its answer is on its way back, in the order of sending;   *)
(* an answer ACCEPTED names a commit of the request's transaction.         *)
Aligned(reqs, subs, srv) ==
    /\ Len(reqs) = Len(subs) + Len(srv)
    /\ \A i \in 1 .. Len(subs) : reqs[i].cid = subs[i].cid
    /\ \A i \in 1 .. Len(srv) : /\ reqs[Len(subs) + i].cid = srv[i].cid
                                /\ reqs[Len(subs) + i].tx = srv[i].tx

Answered(reqs, subs, lg) ==
    \A i \in 1 .. Len(subs) : subs[i].code = "ACCEPTED" =>
        subs[i].erev \in 1 .. Len(lg) /\ lg[subs[i].erev].by = reqs[i].tx

Disconnected ==
    ~m_con => m_requests = <<>> /\ m_accepted = <<>> /\ toServer = <<>> /\ toClient = <<>>

(* The copy, and the updates that continue it.                             *)
Behind == m_rev \in 1 .. Len(log) /\ pushed \in 0 .. Len(log)
InStep(ups, rev, sent) ==
    (\A i \in 1 .. Len(ups) : ups[i].rev = rev + i) /\ sent = rev + Len(ups)
CopyOK == \A k \in Key : StoreValue(k) = ValueAt(k, m_rev)

(* The commits announced by the answers in flight: not yet in the copy,    *)
(* increasing, and after the updates that arrive before the answer.        *)
InFlight(q, rev, n) ==
    \A i \in 1 .. Len(q) : q[i].code = "ACCEPTED" => q[i].erev \in rev + 1 .. n
Ordered(q) ==
    \A i, j \in 1 .. Len(q) : i < j /\ q[j].code = "ACCEPTED" =>
        /\ q[i].type = "update" => q[i].rev < q[j].erev
        /\ q[i].code = "ACCEPTED" => q[i].erev < q[j].erev
Earlier(acc, q) ==
    \A i \in 1 .. Len(acc), j \in 1 .. Len(q) : q[j].code = "ACCEPTED" => acc[i].erev < q[j].erev
Ahead(acc, lg, rev, busy) ==
    /\ \A i \in 1 .. Len(acc) :
        /\ acc[i].erev \in 1 .. Len(lg) /\ lg[acc[i].erev].by = acc[i].tx
        /\ acc[i].erev > rev \/ (busy /\ acc[i].erev = rev)
    /\ \A i, j \in 1 .. Len(acc) : i < j => acc[i].erev < acc[j].erev

Request == [cid : Nat, tx : Tx]
Accepted == [tx : Tx, erev : Nat]
Subs == OfType(toClient, "submit")
Ups == OfType(toClient, "update")

Wire == Aligned(m_requests, Subs, toServer) /\ Answered(m_requests, Subs, log) /\ Disconnected
Copy == Behind /\ (m_con => InStep(Ups, m_rev, pushed)) /\ CopyOK
Awaited ==
    /\ InFlight(toClient, m_rev, Len(log)) /\ Ordered(toClient) /\ Earlier(m_accepted, toClient)
    /\ Ahead(m_accepted, log, m_rev, loop.pc # "idle")
SyncInv == Wire /\ Copy /\ Awaited

-----------------------------------------------------------------------------
(* Facts about sequences in the form the proofs below need.                *)
LEMMA AppendIs ==
    ASSUME NEW S, NEW q \in Seq(S), NEW x \in S
    PROVE  /\ Append(q, x) \in Seq(S) /\ Len(q) \in Nat /\ Len(Append(q, x)) = Len(q) + 1
           /\ Append(q, x)[Len(q) + 1] = x
           /\ \A i \in 1 .. Len(q) : Append(q, x)[i] = q[i]
           /\ \A i \in 1 .. Len(Append(q, x)) : i \in 1 .. Len(q) \/ i = Len(q) + 1
<1>1. Len(q) \in Nat
  OBVIOUS
<1> QED BY <1>1, AppendProperties

LEMMA TailIs ==
    ASSUME NEW S, NEW q \in Seq(S), q # <<>>
    PROVE  /\ Tail(q) \in Seq(S) /\ Len(q) \in Nat /\ Len(q) > 0 /\ Len(Tail(q)) = Len(q) - 1
           /\ Head(q) = q[1] /\ q[1] \in S /\ 1 \in 1 .. Len(q)
           /\ \A i \in 1 .. Len(Tail(q)) : i + 1 \in 1 .. Len(q) /\ Tail(q)[i] = q[i + 1]
<1>1. Len(q) \in Nat /\ Len(q) > 0
  BY EmptySeq
<1> QED BY <1>1

LEMMA AlignedSend ==
    ASSUME NEW reqs \in Seq(Request), NEW subs \in Seq(ClientMsg), NEW srv \in Seq(SubmitRec),
           Aligned(reqs, subs, srv), NEW r \in Request, NEW m \in SubmitRec,
           r.cid = m.cid, r.tx = m.tx
    PROVE  Aligned(Append(reqs, r), subs, Append(srv, m))
<1>1. Len(reqs) = Len(subs) + Len(srv) /\ Len(subs) \in Nat /\ Len(srv) \in Nat /\ Len(reqs) \in Nat
  BY DEF Aligned
<1> DEFINE R == Append(reqs, r)  T == Append(srv, m)
<1>2. Len(R) = Len(reqs) + 1 /\ R[Len(reqs) + 1] = r /\ \A i \in 1 .. Len(reqs) : R[i] = reqs[i]
  BY AppendIs
<1>3. Len(T) = Len(srv) + 1 /\ T[Len(srv) + 1] = m /\ \A i \in 1 .. Len(srv) : T[i] = srv[i]
  BY AppendIs
<1> HIDE DEF R, T
<1>4. Len(R) = Len(subs) + Len(T)
  BY <1>1, <1>2, <1>3
<1>5. ASSUME NEW i \in 1 .. Len(subs) PROVE R[i].cid = subs[i].cid
  <2>1. i \in 1 .. Len(reqs)
    BY <1>1
  <2> QED BY <1>2, <2>1 DEF Aligned
<1>6. ASSUME NEW i \in 1 .. Len(T) PROVE R[Len(subs) + i].cid = T[i].cid /\ R[Len(subs) + i].tx = T[i].tx
  <2>1. CASE i \in 1 .. Len(srv)
    <3>1. Len(subs) + i \in 1 .. Len(reqs)
      BY <1>1, <2>1
    <3> QED BY <1>2, <1>3, <2>1, <3>1 DEF Aligned
  <2>2. CASE i \notin 1 .. Len(srv)
    <3>1. i = Len(srv) + 1 /\ Len(subs) + i = Len(reqs) + 1
      BY <1>1, <1>3, <2>2
    <3> QED BY <1>2, <1>3, <3>1
  <2> QED BY <2>1, <2>2
<1> QED BY <1>4, <1>5, <1>6 DEF Aligned, R, T

LEMMA AlignedAnswer ==
    ASSUME NEW reqs \in Seq(Request), NEW subs \in Seq(ClientMsg), NEW srv \in Seq(SubmitRec),
           Aligned(reqs, subs, srv), srv # <<>>, NEW a \in ClientMsg, a.cid = srv[1].cid
    PROVE  /\ Aligned(reqs, Append(subs, a), Tail(srv))
           /\ Len(subs) + 1 \in 1 .. Len(reqs) /\ reqs[Len(subs) + 1].tx = srv[1].tx
<1>1. Len(reqs) = Len(subs) + Len(srv) /\ Len(subs) \in Nat /\ Len(srv) \in Nat /\ Len(reqs) \in Nat
  BY DEF Aligned
<1> DEFINE U == Append(subs, a)  T == Tail(srv)
<1>2. Len(U) = Len(subs) + 1 /\ U[Len(subs) + 1] = a /\ \A i \in 1 .. Len(subs) : U[i] = subs[i]
  BY AppendIs
<1>3. /\ Len(T) = Len(srv) - 1 /\ 1 \in 1 .. Len(srv)
      /\ \A i \in 1 .. Len(T) : i + 1 \in 1 .. Len(srv) /\ T[i] = srv[i + 1]
  BY TailIs
<1> HIDE DEF U, T
<1>4. Len(reqs) = Len(U) + Len(T)
  BY <1>1, <1>2, <1>3
<1>5. reqs[Len(subs) + 1].cid = srv[1].cid /\ reqs[Len(subs) + 1].tx = srv[1].tx
  BY <1>3 DEF Aligned
<1>6. ASSUME NEW i \in 1 .. Len(U) PROVE reqs[i].cid = U[i].cid
  <2>1. CASE i \in 1 .. Len(subs)
    BY <1>2, <2>1 DEF Aligned
  <2>2. CASE i \notin 1 .. Len(subs)
    <3>1. i = Len(subs) + 1
      BY <1>1, <1>2, <2>2
    <3> QED BY <1>2, <1>5, <3>1
  <2> QED BY <2>1, <2>2
<1>7. ASSUME NEW i \in 1 .. Len(T) PROVE reqs[Len(U) + i].cid = T[i].cid /\ reqs[Len(U) + i].tx = T[i].tx
  <2>1. i + 1 \in 1 .. Len(srv) /\ T[i] = srv[i + 1]
    BY <1>3
  <2>2. reqs[Len(subs) + (i + 1)].cid = srv[i + 1].cid /\ reqs[Len(subs) + (i + 1)].tx = srv[i + 1].tx
    BY <2>1 DEF Aligned
  <2>3. Len(U) + i = Len(subs) + (i + 1)
    BY <1>1, <1>2
  <2> QED BY <2>1, <2>2, <2>3
<1>8. Len(subs) + 1 \in 1 .. Len(reqs)
  BY <1>1, <1>3
<1> QED BY <1>4, <1>5, <1>6, <1>7, <1>8 DEF Aligned, U, T

LEMMA AlignedPop ==
    ASSUME NEW reqs \in Seq(Request), NEW subs \in Seq(ClientMsg), NEW srv \in Seq(SubmitRec),
           Aligned(reqs, subs, srv), subs # <<>>
    PROVE  /\ reqs # <<>> /\ reqs[1].cid = subs[1].cid
           /\ Aligned(Tail(reqs), Tail(subs), srv)
<1>1. Len(reqs) = Len(subs) + Len(srv) /\ Len(subs) \in Nat /\ Len(srv) \in Nat /\ Len(reqs) \in Nat
  BY DEF Aligned
<1> DEFINE U == Tail(subs)  R == Tail(reqs)
<1>2. /\ Len(U) = Len(subs) - 1 /\ 1 \in 1 .. Len(subs)
      /\ \A i \in 1 .. Len(U) : i + 1 \in 1 .. Len(subs) /\ U[i] = subs[i + 1]
  BY TailIs
<1>3. reqs # <<>> /\ Len(reqs) > 0
  BY <1>1, <1>2, EmptySeq
<1>4. /\ Len(R) = Len(reqs) - 1
      /\ \A i \in 1 .. Len(R) : i + 1 \in 1 .. Len(reqs) /\ R[i] = reqs[i + 1]
  BY <1>3, TailIs
<1> HIDE DEF U, R
<1>5. Len(R) = Len(U) + Len(srv)
  BY <1>1, <1>2, <1>4
<1>6. ASSUME NEW i \in 1 .. Len(U) PROVE R[i].cid = U[i].cid
  <2>1. i + 1 \in 1 .. Len(subs) /\ U[i] = subs[i + 1] /\ i \in 1 .. Len(R)
    BY <1>1, <1>2, <1>5
  <2>2. R[i] = reqs[i + 1]
    BY <1>4, <2>1
  <2> QED BY <2>1, <2>2 DEF Aligned
<1>7. ASSUME NEW i \in 1 .. Len(srv) PROVE R[Len(U) + i].cid = srv[i].cid /\ R[Len(U) + i].tx = srv[i].tx
  <2>1. Len(U) + i \in 1 .. Len(R) /\ (Len(U) + i) + 1 = Len(subs) + i
    BY <1>1, <1>2, <1>5
  <2>2. R[Len(U) + i] = reqs[(Len(U) + i) + 1]
    BY <1>4, <2>1
  <2> QED BY <2>1, <2>2 DEF Aligned
<1>8. reqs[1].cid = subs[1].cid
  BY <1>2 DEF Aligned
<1> QED BY <1>3, <1>5, <1>6, <1>7, <1>8 DEF Aligned, U, R

(* The log grows.                                                          *)
Extends(lg, old) ==
    /\ Len(old) \in Nat /\ Len(lg) \in Nat /\ Len(lg) >= Len(old)
    /\ \A i \in 1 .. Len(old) : i \in 1 .. Len(lg) /\ lg[i] = old[i]

LEMMA AnsweredGrows ==
    ASSUME NEW reqs, NEW subs, NEW lg, NEW old, Extends(lg, old), Answered(reqs, subs, old)
    PROVE  Answered(reqs, subs, lg)
BY DEF Extends, Answered

LEMMA AnsweredAnswer ==
    ASSUME NEW reqs, NEW subs \in Seq(ClientMsg), NEW lg, Answered(reqs, subs, lg),
           NEW a \in ClientMsg,
           a.code = "ACCEPTED" => a.erev \in 1 .. Len(lg) /\ lg[a.erev].by = reqs[Len(subs) + 1].tx
    PROVE  Answered(reqs, Append(subs, a), lg)
<1> DEFINE U == Append(subs, a)
<1>1. /\ Len(U) = Len(subs) + 1 /\ U[Len(subs) + 1] = a /\ \A i \in 1 .. Len(subs) : U[i] = subs[i]
      /\ \A i \in 1 .. Len(U) : i \in 1 .. Len(subs) \/ i = Len(subs) + 1
  BY AppendIs
<1> HIDE DEF U
<1>2. Answered(reqs, U, lg)
  BY <1>1 DEF Answered
<1> QED BY <1>2 DEF U

LEMMA AnsweredSend ==
    ASSUME NEW reqs \in Seq(Request), NEW subs \in Seq(ClientMsg), NEW lg, Answered(reqs, subs, lg),
           NEW r \in Request, Len(subs) <= Len(reqs)
    PROVE  Answered(Append(reqs, r), subs, lg)
<1>1. \A i \in 1 .. Len(reqs) : Append(reqs, r)[i] = reqs[i]
  BY AppendIs
<1>2. \A i \in 1 .. Len(subs) : i \in 1 .. Len(reqs)
  BY LenProperties
<1> QED BY <1>1, <1>2 DEF Answered

LEMMA AnsweredPop ==
    ASSUME NEW reqs \in Seq(Request), NEW subs \in Seq(ClientMsg), NEW lg, Answered(reqs, subs, lg),
           subs # <<>>, Len(subs) <= Len(reqs)
    PROVE  Answered(Tail(reqs), Tail(subs), lg)
<1> DEFINE U == Tail(subs)  R == Tail(reqs)
<1>1. /\ Len(U) = Len(subs) - 1 /\ 1 \in 1 .. Len(subs) /\ Len(subs) \in Nat /\ Len(reqs) \in Nat
      /\ \A i \in 1 .. Len(U) : i + 1 \in 1 .. Len(subs) /\ U[i] = subs[i + 1]
  BY TailIs
<1>2. reqs # <<>>
  BY <1>1, EmptySeq
<1>3. /\ Len(R) = Len(reqs) - 1
      /\ \A i \in 1 .. Len(R) : i + 1 \in 1 .. Len(reqs) /\ R[i] = reqs[i + 1]
  BY <1>2, TailIs
<1> HIDE DEF U, R
<1>4. \A i \in 1 .. Len(U) : i \in 1 .. Len(R)
  BY <1>1, <1>3
<1>5. Answered(R, U, lg)
  BY <1>1, <1>3, <1>4, ZenonT(40) DEF Answered
<1> QED BY <1>5 DEF U, R

-----------------------------------------------------------------------------
(* The database as a function of the log.                                  *)
Writes(lg, k, r) == {i \in 1 .. r : k \in Keys(lg[i])}
LastIn(lg, k, r) ==
    IF Writes(lg, k, r) = {} THEN 0
    ELSE CHOOSE i \in Writes(lg, k, r) : \A j \in Writes(lg, k, r) : j <= i
ValueIn(lg, k, r) ==
    LET i == LastIn(lg, k, r) IN
    IF i = 0 \/ k \in lg[i].deletes THEN Null
    ELSE [data |-> lg[i].upserts[k], rev |-> i, user |-> lg[i].user]

LEMMA ValueAtIs ==
    ASSUME NEW k, NEW r PROVE ValueAt(k, r) = ValueIn(log, k, r) /\ LastWrite(k, r) = LastIn(log, k, r)
BY DEF ValueAt, ValueIn, LastWrite, LastIn, Writes

LEMMA ValueAtNext ==
    ASSUME NEW k, NEW r PROVE ValueAt(k, r)' = ValueIn(log', k, r) /\ LastWrite(k, r)' = LastIn(log', k, r)
BY DEF ValueAt, ValueIn, LastWrite, LastIn, Writes

LEMMA Greatest ==
    ASSUME NEW r \in Nat, NEW W \in SUBSET (1 .. r), W # {}
    PROVE  \E m \in W : \A j \in W : j <= m
<1> DEFINE T == {r - i : i \in W}
<1>1. T \in SUBSET Nat /\ T # {}
  <2>1. \A i \in W : r - i \in Nat
    OBVIOUS
  <2> QED BY <2>1, Zenon
<1>2. PICK m \in T : \A n \in T : m <= n
  BY <1>1, Least, Zenon
<1>3. PICK i \in W : m = r - i
  OBVIOUS
<1>4. \A j \in W : r - i <= r - j
  BY <1>2, <1>3
<1>5. ASSUME NEW j \in W PROVE j <= i
  <2>0. j \in 1 .. r /\ i \in 1 .. r
    BY Zenon
  <2>1. j \in Int /\ i \in Int /\ r \in Int
    <3> HIDE <1>2, <1>3, <1>4
    <3> QED BY <2>0
  <2>2. r - i <= r - j
    BY <1>4
  <2> HIDE <1>2, <1>3, <1>4
  <2> QED BY <2>1, <2>2
<1> QED BY <1>5

LEMMA LastInRange ==
    ASSUME NEW lg, NEW k, NEW r \in Nat
    PROVE  LastIn(lg, k, r) \in 0 .. r /\ (LastIn(lg, k, r) # 0 => k \in Keys(lg[LastIn(lg, k, r)]))
<1> DEFINE W == Writes(lg, k, r)
<1>1. W \in SUBSET (1 .. r)
  BY DEF Writes
<1>2. CASE W = {}
  BY <1>2 DEF LastIn
<1>3. CASE W # {}
  <2>1. \E m \in W : \A j \in W : j <= m
    BY <1>1, <1>3, Greatest
  <2>2. LastIn(lg, k, r) = CHOOSE i \in W : \A j \in W : j <= i
    BY <1>3 DEF LastIn
  <2> HIDE DEF W
  <2>3. LastIn(lg, k, r) \in W
    BY <2>1, <2>2, Zenon
  <2> QED BY <1>1, <2>3 DEF W, Writes
<1> QED BY <1>2, <1>3

LEMMA LastInStep ==
    ASSUME NEW lg, NEW k, NEW r \in Nat, r > 0
    PROVE  LastIn(lg, k, r) = IF k \in Keys(lg[r]) THEN r ELSE LastIn(lg, k, r - 1)
<1> DEFINE W == Writes(lg, k, r)
<1>1. CASE k \in Keys(lg[r])
  <2>1. r \in W /\ W \in SUBSET (1 .. r)
    BY <1>1 DEF Writes
  <2>2. LastIn(lg, k, r) = CHOOSE i \in W : \A j \in W : j <= i
    BY <2>1 DEF LastIn
  <2> HIDE DEF W
  <2>3. \A j \in W : j <= r
    BY <2>1
  <2>4. \A i \in W : (\A j \in W : j <= i) => i = r
    BY <2>1
  <2>5. LastIn(lg, k, r) = r
    BY <2>1, <2>2, <2>3, <2>4
  <2> QED BY <1>1, <2>5
<1>2. CASE k \notin Keys(lg[r])
  <2>1. W = Writes(lg, k, r - 1)
    BY <1>2 DEF Writes
  <2> QED BY <1>2, <2>1 DEF LastIn
<1> QED BY <1>1, <1>2

LEMMA ValueInGrows ==
    ASSUME NEW lg, NEW old, Extends(lg, old), NEW k, NEW r \in 0 .. Len(old)
    PROVE  ValueIn(lg, k, r) = ValueIn(old, k, r)
<1>1. Writes(lg, k, r) = Writes(old, k, r)
  <2>1. \A i \in 1 .. r : lg[i] = old[i]
    BY DEF Extends
  <2> QED BY <2>1 DEF Writes
<1>2. LastIn(lg, k, r) = LastIn(old, k, r)
  BY <1>1 DEF LastIn
<1>3. LastIn(old, k, r) \in 0 .. r /\ r \in Nat
  BY LastInRange DEF Extends
<1>4. LastIn(old, k, r) # 0 => lg[LastIn(old, k, r)] = old[LastIn(old, k, r)]
  BY <1>3 DEF Extends
<1> QED BY <1>2, <1>4 DEF ValueIn

(* A commit applied to the copy.                                           *)
LEMMA CopyStep ==
    ASSUME NEW lg, NEW data, NEW r \in Nat, r > 0, NEW k,
           LET v == IF k \in DOMAIN data THEN data[k] ELSE Null IN v = ValueIn(lg, k, r - 1)
    PROVE  LET new == Patch(data, lg[r].upserts, lg[r].deletes, r, lg[r].user)
           IN (IF k \in DOMAIN new THEN new[k] ELSE Null) = ValueIn(lg, k, r)
<1> DEFINE new == Patch(data, lg[r].upserts, lg[r].deletes, r, lg[r].user)
<1>1. DOMAIN new = (DOMAIN data \cup DOMAIN lg[r].upserts) \ lg[r].deletes
  BY DEF Patch
<1>2. k \in DOMAIN new => new[k] = IF k \in DOMAIN lg[r].upserts
                                   THEN [data |-> lg[r].upserts[k], rev |-> r, user |-> lg[r].user]
                                   ELSE data[k]
  BY DEF Patch
<1> HIDE DEF new
<1>3. CASE k \in Keys(lg[r])
  <2>1. LastIn(lg, k, r) = r
    BY <1>3, LastInStep
  <2>2. ValueIn(lg, k, r) = IF k \in lg[r].deletes THEN Null
                            ELSE [data |-> lg[r].upserts[k], rev |-> r, user |-> lg[r].user]
    BY <2>1 DEF ValueIn
  <2> QED BY <1>1, <1>2, <1>3, <2>2 DEF new, Keys
<1>4. CASE k \notin Keys(lg[r])
  <2>1. LastIn(lg, k, r) = LastIn(lg, k, r - 1)
    BY <1>4, LastInStep
  <2>2. ValueIn(lg, k, r) = ValueIn(lg, k, r - 1)
    BY <2>1 DEF ValueIn
  <2> QED BY <1>1, <1>2, <1>4, <2>2 DEF new, Keys
<1> QED BY <1>3, <1>4

-----------------------------------------------------------------------------
(* The answers and updates in flight.                                      *)
LEMMA InStepPush ==
    ASSUME NEW ups \in Seq(ClientMsg), NEW rev \in Nat, NEW sent, InStep(ups, rev, sent),
           NEW m \in ClientMsg, m.rev = sent + 1
    PROVE  InStep(Append(ups, m), rev, sent + 1)
<1> DEFINE U == Append(ups, m)
<1>1. /\ Len(U) = Len(ups) + 1 /\ U[Len(ups) + 1] = m /\ \A i \in 1 .. Len(ups) : U[i] = ups[i]
      /\ \A i \in 1 .. Len(U) : i \in 1 .. Len(ups) \/ i = Len(ups) + 1
      /\ Len(ups) \in Nat
  BY AppendIs
<1> HIDE DEF U
<1>2. sent = rev + Len(ups)
  BY DEF InStep
<1>3. ASSUME NEW i \in 1 .. Len(U) PROVE U[i].rev = rev + i
  <2>1. CASE i \in 1 .. Len(ups)
    BY <1>1, <2>1 DEF InStep
  <2>2. CASE i = Len(ups) + 1
    BY <1>1, <1>2, <2>2
  <2> QED BY <1>1, <2>1, <2>2
<1>4. sent + 1 = rev + Len(U)
  BY <1>1, <1>2
<1> QED BY <1>3, <1>4 DEF InStep, U

LEMMA InStepPop ==
    ASSUME NEW ups \in Seq(ClientMsg), NEW rev \in Nat, NEW sent, InStep(ups, rev, sent), ups # <<>>
    PROVE  ups[1].rev = rev + 1 /\ InStep(Tail(ups), rev + 1, sent)
<1> DEFINE U == Tail(ups)
<1>1. /\ Len(U) = Len(ups) - 1 /\ 1 \in 1 .. Len(ups) /\ Len(ups) \in Nat
      /\ \A i \in 1 .. Len(U) : i + 1 \in 1 .. Len(ups) /\ U[i] = ups[i + 1]
  BY TailIs
<1> HIDE DEF U
<1>2. ASSUME NEW i \in 1 .. Len(U) PROVE U[i].rev = (rev + 1) + i
  <2>1. ups[i + 1].rev = rev + (i + 1)
    BY <1>1 DEF InStep
  <2>2. U[i] = ups[i + 1] /\ i \in Nat
    BY <1>1
  <2> QED BY <2>1, <2>2
<1>3. sent = (rev + 1) + Len(U)
  BY <1>1 DEF InStep
<1>4. ups[1].rev = rev + 1
  BY <1>1 DEF InStep
<1> QED BY <1>2, <1>3, <1>4 DEF InStep, U

(* A message enters the queue: an answer that does not accept, an update,  *)
(* or the answer that announces the newest commit n.                       *)
LEMMA FlightAppend ==
    ASSUME NEW q \in Seq(ClientMsg), NEW rev \in Nat, NEW n \in Nat, NEW acc,
           InFlight(q, rev, n), Ordered(q), Earlier(acc, q),
           NEW m \in ClientMsg,
           m.code = "ACCEPTED" =>
                /\ m.erev \in rev + 1 .. n
                /\ \A i \in 1 .. Len(q) : /\ q[i].type = "update" => q[i].rev < m.erev
                                          /\ q[i].code = "ACCEPTED" => q[i].erev < m.erev
                /\ \A i \in 1 .. Len(acc) : acc[i].erev < m.erev
    PROVE  InFlight(Append(q, m), rev, n) /\ Ordered(Append(q, m)) /\ Earlier(acc, Append(q, m))
<1> DEFINE p == Append(q, m)
<1>1. /\ Len(p) = Len(q) + 1 /\ p[Len(q) + 1] = m /\ \A i \in 1 .. Len(q) : p[i] = q[i]
      /\ \A i \in 1 .. Len(p) : i \in 1 .. Len(q) \/ i = Len(q) + 1
      /\ Len(q) \in Nat
  BY AppendIs
<1> HIDE DEF p
<1>2. InFlight(p, rev, n)
  BY <1>1 DEF InFlight
<1>3. Ordered(p)
  <2> SUFFICES ASSUME NEW i \in 1 .. Len(p), NEW j \in 1 .. Len(p), i < j, p[j].code = "ACCEPTED"
               PROVE  /\ p[i].type = "update" => p[i].rev < p[j].erev
                      /\ p[i].code = "ACCEPTED" => p[i].erev < p[j].erev
    BY DEF Ordered
  <2>1. i \in 1 .. Len(q) /\ p[i] = q[i]
    BY <1>1
  <2>2. CASE j \in 1 .. Len(q)
    BY <1>1, <2>1, <2>2 DEF Ordered
  <2>3. CASE j = Len(q) + 1
    BY <1>1, <2>1, <2>3
  <2> QED BY <1>1, <2>2, <2>3
<1>4. Earlier(acc, p)
  BY <1>1 DEF Earlier
<1> QED BY <1>2, <1>3, <1>4 DEF p

LEMMA FlightGrows ==
    ASSUME NEW q \in Seq(ClientMsg), NEW rev \in Nat, NEW n \in Nat, NEW m \in Nat, n <= m, InFlight(q, rev, n)
    PROVE  InFlight(q, rev, m)
<1>1. \A e : e \in rev + 1 .. n => e \in rev + 1 .. m
  OBVIOUS
<1> QED BY <1>1 DEF InFlight

LEMMA AheadGrows ==
    ASSUME NEW acc, NEW lg, NEW old, Extends(lg, old), NEW rev, NEW busy, Ahead(acc, old, rev, busy)
    PROVE  Ahead(acc, lg, rev, busy)
BY DEF Ahead, Extends

LEMMA FlightPop ==
    ASSUME NEW q \in Seq(ClientMsg), q # <<>>, NEW rev, NEW n, NEW acc,
           InFlight(q, rev, n), Ordered(q), Earlier(acc, q)
    PROVE  InFlight(Tail(q), rev, n) /\ Ordered(Tail(q)) /\ Earlier(acc, Tail(q))
<1> DEFINE p == Tail(q)
<1>1. /\ Len(p) = Len(q) - 1 /\ Len(q) \in Nat
      /\ \A i \in 1 .. Len(p) : i + 1 \in 1 .. Len(q) /\ p[i] = q[i + 1]
  BY TailIs
<1> HIDE DEF p
<1>2. InFlight(p, rev, n)
  BY <1>1 DEF InFlight
<1>3. Ordered(p)
  <2> SUFFICES ASSUME NEW i \in 1 .. Len(p), NEW j \in 1 .. Len(p), i < j, p[j].code = "ACCEPTED"
               PROVE  /\ p[i].type = "update" => p[i].rev < p[j].erev
                      /\ p[i].code = "ACCEPTED" => p[i].erev < p[j].erev
    BY DEF Ordered
  <2>0. i + 1 < j + 1
    BY <1>1
  <2>1. /\ i + 1 \in 1 .. Len(q) /\ j + 1 \in 1 .. Len(q) /\ i + 1 < j + 1
        /\ p[i] = q[i + 1] /\ p[j] = q[j + 1]
    BY <1>1, <2>0, Zenon
  <2> QED BY <2>1 DEF Ordered
<1>4. Earlier(acc, p)
  BY <1>1 DEF Earlier
<1> QED BY <1>2, <1>3, <1>4 DEF p

(* The answer at the front is one that accepts: its commit is behind the   *)
(* ones already accepted and before those still in flight.                 *)
LEMMA AcceptPop ==
    ASSUME NEW q \in Seq(ClientMsg), q # <<>>, NEW rev \in Nat, NEW lg, Len(lg) \in Nat,
           NEW acc \in Seq(Accepted), NEW busy, NEW a \in Accepted, a.erev = q[1].erev,
           InFlight(q, rev, Len(lg)), Ordered(q), Earlier(acc, q), Ahead(acc, lg, rev, busy),
           q[1].code = "ACCEPTED", lg[q[1].erev].by = a.tx
    PROVE  Earlier(Append(acc, a), Tail(q)) /\ Ahead(Append(acc, a), lg, rev, busy)
<1> DEFINE p == Tail(q)  A == Append(acc, a)
<1>1. /\ Len(p) = Len(q) - 1 /\ Len(q) \in Nat /\ 1 \in 1 .. Len(q)
      /\ \A i \in 1 .. Len(p) : i + 1 \in 1 .. Len(q) /\ p[i] = q[i + 1]
  BY TailIs
<1>2. /\ Len(A) = Len(acc) + 1 /\ A[Len(acc) + 1] = a /\ \A i \in 1 .. Len(acc) : A[i] = acc[i]
      /\ \A i \in 1 .. Len(A) : i \in 1 .. Len(acc) \/ i = Len(acc) + 1
      /\ Len(acc) \in Nat
  BY AppendIs
<1> HIDE DEF p, A
<1>3. a.erev \in rev + 1 .. Len(lg) /\ a.erev > rev /\ a.erev \in 1 .. Len(lg)
  <2>1. a.erev \in rev + 1 .. Len(lg)
    BY <1>1 DEF InFlight
  <2> QED BY <2>1
<1>4. \A i \in 1 .. Len(acc) : acc[i].erev < a.erev
  BY <1>1 DEF Earlier
<1>5. Earlier(A, p)
  <2> SUFFICES ASSUME NEW i \in 1 .. Len(A), NEW j \in 1 .. Len(p), p[j].code = "ACCEPTED"
               PROVE  A[i].erev < p[j].erev
    BY DEF Earlier
  <2>1. j + 1 \in 1 .. Len(q) /\ p[j] = q[j + 1] /\ 1 < j + 1
    BY <1>1
  <2>2. CASE i \in 1 .. Len(acc)
    BY <1>2, <2>1, <2>2 DEF Earlier
  <2>3. CASE i = Len(acc) + 1
    BY <1>1, <1>2, <2>1, <2>3 DEF Ordered
  <2> QED BY <1>2, <2>2, <2>3
<1>6. Ahead(A, lg, rev, busy)
  <2>1. ASSUME NEW i \in 1 .. Len(A)
        PROVE  /\ A[i].erev \in 1 .. Len(lg) /\ lg[A[i].erev].by = A[i].tx
               /\ A[i].erev > rev \/ (busy /\ A[i].erev = rev)
    <3>1. CASE i \in 1 .. Len(acc)
      BY <1>2, <3>1, Zenon DEF Ahead
    <3>2. CASE i = Len(acc) + 1
      BY <1>2, <1>3, <3>2
    <3> QED BY <1>2, <3>1, <3>2
  <2>2. ASSUME NEW i \in 1 .. Len(A), NEW j \in 1 .. Len(A), i < j
        PROVE  A[i].erev < A[j].erev
    <3>1. i \in 1 .. Len(acc) /\ A[i] = acc[i]
      BY <1>2, <2>2
    <3>2. CASE j \in 1 .. Len(acc)
      BY <1>2, <2>2, <3>1, <3>2 DEF Ahead
    <3>3. CASE j = Len(acc) + 1
      BY <1>2, <1>4, <3>1, <3>3
    <3> QED BY <1>2, <3>2, <3>3
  <2> QED BY <2>1, <2>2 DEF Ahead
<1> QED BY <1>5, <1>6 DEF p, A

(* The update at the front is commit rev + 1: no answer still in flight    *)
(* announces it, and of those accepted only the oldest may.                *)
LEMMA UpdatePop ==
    ASSUME NEW q \in Seq(ClientMsg), q # <<>>, NEW rev \in Nat, NEW lg, Len(lg) \in Nat,
           NEW acc \in Seq(Accepted), q[1].type = "update", q[1].rev = rev + 1,
           InFlight(q, rev, Len(lg)), Ordered(q), Ahead(acc, lg, rev, FALSE)
    PROVE  /\ InFlight(Tail(q), rev + 1, Len(lg)) /\ Ahead(acc, lg, rev + 1, TRUE)
           /\ acc # <<>> => acc[1].erev >= rev + 1
<1> DEFINE p == Tail(q)
<1>1. /\ Len(p) = Len(q) - 1 /\ Len(q) \in Nat /\ 1 \in 1 .. Len(q)
      /\ \A i \in 1 .. Len(p) : i + 1 \in 1 .. Len(q) /\ p[i] = q[i + 1]
  BY TailIs
<1> HIDE DEF p
<1>2. ASSUME NEW i \in 1 .. Len(p), p[i].code = "ACCEPTED" PROVE p[i].erev \in (rev + 1) + 1 .. Len(lg)
  <2>1. i + 1 \in 1 .. Len(q) /\ 1 < i + 1 /\ q[i + 1].code = "ACCEPTED"
    BY <1>1, <1>2
  <2>2. q[i + 1].erev \in rev + 1 .. Len(lg) /\ rev + 1 < q[i + 1].erev
    BY <1>1, <2>1 DEF InFlight, Ordered
  <2>3. p[i].erev = q[i + 1].erev
    BY <1>1
  <2> QED BY <2>2, <2>3
<1>3. InFlight(p, rev + 1, Len(lg))
  BY <1>2 DEF InFlight
<1>4. ASSUME NEW i \in 1 .. Len(acc)
      PROVE  acc[i].erev > rev + 1 \/ acc[i].erev = rev + 1
  <2>1. acc[i].erev > rev /\ acc[i].erev \in 1 .. Len(lg)
    BY DEF Ahead
  <2> QED BY <2>1
<1>5. Ahead(acc, lg, rev + 1, TRUE)
  BY <1>4 DEF Ahead
<1>6. acc # <<>> => acc[1].erev >= rev + 1
  <2>1. acc # <<>> => 1 \in 1 .. Len(acc)
    BY EmptySeq
  <2>2. ASSUME acc # <<>> PROVE acc[1].erev \in Nat
    <3>1. acc[1] \in Accepted
      BY <2>1, <2>2, ElementOfSeq
    <3> QED BY <3>1 DEF Accepted
  <2> QED BY <1>4, <2>1, <2>2
<1> QED BY <1>3, <1>5, <1>6 DEF p

(* The event loop is done with commit rev.                                 *)
LEMMA AheadPop ==
    ASSUME NEW acc \in Seq(Accepted), NEW lg, NEW rev \in Nat, NEW busy, Ahead(acc, lg, rev, busy)
    PROVE  /\ acc # <<>> /\ Head(acc).erev = rev => Ahead(Tail(acc), lg, rev, FALSE)
           /\ ~(acc # <<>> /\ Head(acc).erev = rev) => Ahead(acc, lg, rev, FALSE)
<1>1. ASSUME acc # <<>>, Head(acc).erev = rev PROVE Ahead(Tail(acc), lg, rev, FALSE)
  <2> DEFINE A == Tail(acc)
  <2>1. /\ Len(A) = Len(acc) - 1 /\ Len(acc) \in Nat /\ 1 \in 1 .. Len(acc) /\ Head(acc) = acc[1]
        /\ \A i \in 1 .. Len(A) : i + 1 \in 1 .. Len(acc) /\ A[i] = acc[i + 1]
    BY <1>1, TailIs
  <2> HIDE DEF A
  <2>2. ASSUME NEW i \in 1 .. Len(A)
        PROVE  A[i].erev \in 1 .. Len(lg) /\ lg[A[i].erev].by = A[i].tx /\ A[i].erev > rev
    <3>1. i + 1 \in 1 .. Len(acc) /\ A[i] = acc[i + 1] /\ 1 < i + 1
      BY <2>1
    <3>2. acc[1].erev < acc[i + 1].erev /\ acc[i + 1].erev \in 1 .. Len(lg)
          /\ lg[acc[i + 1].erev].by = acc[i + 1].tx
      BY <2>1, <3>1 DEF Ahead
    <3>3. acc[1].erev = rev
      BY <1>1, <2>1
    <3> QED BY <3>1, <3>2, <3>3
  <2>3. ASSUME NEW i \in 1 .. Len(A), NEW j \in 1 .. Len(A), i < j PROVE A[i].erev < A[j].erev
    <3>1. /\ i + 1 \in 1 .. Len(acc) /\ j + 1 \in 1 .. Len(acc) /\ i + 1 < j + 1
          /\ A[i] = acc[i + 1] /\ A[j] = acc[j + 1]
      BY <2>1, <2>3
    <3> QED BY <3>1 DEF Ahead
  <2>4. Ahead(A, lg, rev, FALSE)
    BY <2>2, <2>3 DEF Ahead
  <2> QED BY <2>4 DEF A
<1>2. ASSUME acc = <<>> PROVE Ahead(acc, lg, rev, FALSE)
  <2>1. Len(acc) = 0
    BY <1>2
  <2> QED BY <2>1 DEF Ahead
<1>3. ASSUME acc # <<>>, Head(acc).erev # rev PROVE Ahead(acc, lg, rev, FALSE)
  <2>1. 1 \in 1 .. Len(acc) /\ Head(acc) = acc[1] /\ Len(acc) \in Nat
    BY <1>3, TailIs
  <2>2. acc[1].erev > rev
    <3>1. acc[1].erev > rev \/ acc[1].erev = rev
      BY <2>1 DEF Ahead
    <3> QED BY <1>3, <2>1, <3>1
  <2>3. ASSUME NEW i \in 1 .. Len(acc) PROVE acc[i].erev > rev
    <3>0. acc[i] \in Accepted /\ acc[1] \in Accepted
      BY <2>1, ElementOfSeq
    <3>1. acc[i].erev \in Nat /\ acc[1].erev \in Nat
      BY <3>0 DEF Accepted
    <3>2. CASE i = 1
      BY <2>2, <3>2
    <3>3. CASE i # 1
      <4>1. acc[1].erev < acc[i].erev
        <5>1. 1 < i
          BY <2>1, <3>3
        <5> QED BY <2>1, <5>1 DEF Ahead
      <4> QED BY <2>2, <3>1, <4>1
    <3> QED BY <3>2, <3>3
  <2> QED BY <2>3 DEF Ahead
<1> QED BY <1>1, <1>2, <1>3

-----------------------------------------------------------------------------
(* SyncInv is inductive, given the types.                                  *)
LEMMA SyncTypes ==
    ASSUME TypeInv
    PROVE  /\ Subs \in Seq(ClientMsg) /\ Ups \in Seq(ClientMsg) /\ toClient \in Seq(ClientMsg)
           /\ toServer \in Seq(SubmitRec) /\ log \in Seq(CommitRec)
           /\ m_requests \in Seq(Request) /\ m_accepted \in Seq(Accepted)
           /\ m_rev \in Nat /\ pushed \in Nat /\ Len(log) \in Nat /\ Len(Subs) \in Nat
<1>1. /\ toClient \in Seq(ClientMsg) /\ toServer \in Seq(SubmitRec) /\ log \in Seq(CommitRec)
      /\ m_requests \in Seq(Request) /\ m_accepted \in Seq(Accepted)
      /\ m_rev \in Nat /\ pushed \in Nat
  BY DEF TypeInv, TypeOK, Request, Accepted
<1>2. Subs \in Seq(ClientMsg) /\ Ups \in Seq(ClientMsg)
  BY <1>1, OfTypeSeq DEF Subs, Ups
<1> QED BY <1>1, <1>2, LenProperties

LEMMA CopyKept ==
    ASSUME CopyOK, UNCHANGED <<log, m_rev, m_data>> PROVE CopyOK'
<1> SUFFICES ASSUME NEW k \in Key PROVE (StoreValue(k) = ValueAt(k, m_rev))'
  BY DEF CopyOK
<1>1. StoreValue(k) = ValueIn(log, k, m_rev)
  BY ValueAtIs DEF CopyOK
<1>2. StoreValue(k)' = StoreValue(k)
  BY DEF StoreValue
<1>3. ValueAt(k, m_rev)' = ValueIn(log', k, m_rev')
  BY DEF ValueAt, ValueIn, LastWrite, LastIn, Writes
<1> QED BY <1>1, <1>2, <1>3

LEMMA SyncFrame ==
    ASSUME SyncInv, UNCHANGED <<server, m_con, m_rev, m_data, m_requests, m_accepted>>,
           loop'.pc # "idle" \/ loop'.pc = loop.pc
    PROVE  SyncInv'
<1> USE DEF server
<1>1. Wire'
  BY DEF SyncInv, Wire, Disconnected, Subs
<1>2. CopyOK'
  BY CopyKept DEF SyncInv, Copy
<1>3. Copy'
  BY <1>2 DEF SyncInv, Copy, Behind, Ups
<1>4. Ahead(m_accepted, log, m_rev, loop.pc # "idle")'
  BY DEF SyncInv, Awaited, Ahead
<1>5. Awaited'
  BY <1>4 DEF SyncInv, Awaited
<1> QED BY <1>1, <1>3, <1>5 DEF SyncInv

LEMMA EmptyWire ==
    ASSUME NEW lg
    PROVE  Aligned(<<>>, <<>>, <<>>) /\ Answered(<<>>, <<>>, lg)
<1>1. Len(<<>>) = 0
  OBVIOUS
<1> QED BY <1>1 DEF Aligned, Answered

LEMMA EmptyFlight ==
    ASSUME NEW rev, NEW n, NEW acc, NEW lg, NEW busy
    PROVE  /\ InFlight(<<>>, rev, n) /\ Ordered(<<>>) /\ Earlier(acc, <<>>)
           /\ Ahead(<<>>, lg, rev, busy)
<1>1. Len(<<>>) = 0
  OBVIOUS
<1> QED BY <1>1 DEF InFlight, Ordered, Earlier, Ahead

LEMMA InitSync == ASSUME Init PROVE SyncInv
<1> DEFINE c == Commit(Other, Null, FALSE, InitialData, {})
<1>1. log = <<c>> /\ toServer = <<>> /\ toClient = <<>> /\ m_requests = <<>> /\ m_accepted = <<>>
  BY DEF Init
<1>2. m_rev = 1 /\ pushed = 1 /\ m_con = TRUE
  BY DEF Init
<1>3. m_data = Patch(EmptyMap, c.upserts, c.deletes, 1, c.user)
  BY DEF Init, Commit
<1> HIDE DEF c
<1>4. Subs = <<>> /\ Ups = <<>>
  BY <1>1, OfTypeEmpty DEF Subs, Ups
<1>5. Wire
  BY <1>1, <1>2, <1>4, EmptyWire DEF Wire, Disconnected
<1>6. Len(log) = 1 /\ log[1] = c
  BY <1>1
<1>7. CopyOK
  <2> SUFFICES ASSUME NEW k \in Key PROVE StoreValue(k) = ValueAt(k, m_rev)
    BY DEF CopyOK
  <2>1. Writes(log, k, 0) = {}
    BY DEF Writes
  <2>2. ValueIn(log, k, 0) = Null
    BY <2>1 DEF ValueIn, LastIn
  <2>3. k \notin DOMAIN EmptyMap
    BY DEF EmptyMap
  <2> DEFINE data == EmptyMap  r == 1
  <2>4. (IF k \in DOMAIN data THEN data[k] ELSE Null) = ValueIn(log, k, r - 1)
    BY <2>2, <2>3
  <2>5. r \in Nat /\ r > 0
    OBVIOUS
  <2>6. m_data = Patch(data, log[r].upserts, log[r].deletes, r, log[r].user)
    BY <1>3, <1>6
  <2> HIDE DEF data, r
  <2>7. StoreValue(k) = ValueIn(log, k, r)
    BY <2>4, <2>5, <2>6, CopyStep DEF StoreValue
  <2> QED BY <1>2, <2>7, ValueAtIs DEF r
<1>8. InStep(Ups, m_rev, pushed)
  <2>1. Len(<<>>) = 0
    OBVIOUS
  <2> QED BY <1>2, <1>4, <2>1 DEF InStep
<1>9. Behind
  BY <1>2, <1>6 DEF Behind
<1>10. Awaited
  BY <1>1, EmptyFlight DEF Awaited
<1> QED BY <1>5, <1>7, <1>8, <1>9, <1>10 DEF SyncInv, Copy

LEMMA ServerSubmitSync ==
    ASSUME TypeInv, TypeInv', SyncInv, ServerSubmit PROVE SyncInv'
<1> DEFINE q == Head(toServer)
<1>0. /\ Subs \in Seq(ClientMsg) /\ Ups \in Seq(ClientMsg) /\ toClient \in Seq(ClientMsg)
      /\ toServer \in Seq(SubmitRec) /\ log \in Seq(CommitRec)
      /\ m_requests \in Seq(Request) /\ m_accepted \in Seq(Accepted)
      /\ m_rev \in Nat /\ pushed \in Nat /\ Len(log) \in Nat /\ Len(Subs) \in Nat
  BY SyncTypes
<1>1. /\ toServer # <<>> /\ toServer' = Tail(toServer) /\ q \in SubmitRec
      /\ UNCHANGED <<pushed, client, txvars>> /\ q = toServer[1]
  BY <1>0, ServerSubmitIs, TailIs
<1>2. UNCHANGED <<m_con, m_rev, m_data, m_requests, m_accepted, loop, pushed>>
  BY <1>1 DEF client
<1>3. \E code \in Code, erev \in Nat :
        /\ toClient' = Append(toClient, AnswerMsg(q, code, erev))
        /\ \/ code # "ACCEPTED" /\ log' = log
           \/ /\ code = "ACCEPTED" /\ erev = Len(log) + 1
              /\ log' = Append(log, Commit(Me, q.tx, q.force, q.upserts, q.deletes))
  <2>1. Len(log) + 1 \in Nat /\ 0 \in Nat /\ "ACCEPTED" \in Code
    BY <1>0 DEF Code
  <2> QED BY <2>1, ServerSubmitIs
<1>4. PICK code \in Code, erev \in Nat :
        /\ toClient' = Append(toClient, AnswerMsg(q, code, erev))
        /\ \/ code # "ACCEPTED" /\ log' = log
           \/ /\ code = "ACCEPTED" /\ erev = Len(log) + 1
              /\ log' = Append(log, Commit(Me, q.tx, q.force, q.upserts, q.deletes))
  BY <1>3
<1> DEFINE a == AnswerMsg(q, code, erev)  c == Commit(Me, q.tx, q.force, q.upserts, q.deletes)
<1>5. a \in ClientMsg /\ c \in CommitRec
  BY <1>1, AnswerType, CommitType
<1>6. a.type = "submit" /\ a.code = code /\ a.erev = erev /\ a.cid = q.cid /\ c.by = q.tx
  BY DEF AnswerMsg, Commit
<1>a. /\ toClient' = Append(toClient, a)
      /\ \/ a.code # "ACCEPTED" /\ log' = log
         \/ a.code = "ACCEPTED" /\ a.erev = Len(log) + 1 /\ log' = Append(log, c)
  BY <1>4, <1>6
<1> HIDE DEF a, c
<1>7. Extends(log', log)
  BY <1>0, <1>5, <1>a, AppendIs DEF Extends
<1>8. a.code = "ACCEPTED" => a.erev \in 1 .. Len(log') /\ log'[a.erev].by = q.tx
  <2> SUFFICES ASSUME a.code = "ACCEPTED" PROVE a.erev \in 1 .. Len(log') /\ log'[a.erev].by = q.tx
    OBVIOUS
  <2>1. log' = Append(log, c) /\ a.erev = Len(log) + 1
    BY <1>a
  <2>2. Len(log') = Len(log) + 1 /\ log'[Len(log) + 1] = c
    BY <1>0, <1>5, <2>1, AppendIs
  <2> QED BY <1>0, <1>6, <2>1, <2>2
<1>9. Subs' = Append(Subs, a) /\ Ups' = Ups
  <2>1. OfType(toClient', "submit") = Append(OfType(toClient, "submit"), a)
    BY <1>0, <1>5, <1>6, <1>a, OfTypeAppend
  <2>2. OfType(toClient', "update") = OfType(toClient, "update")
    BY <1>0, <1>5, <1>6, <1>a, OfTypeAppend
  <2> QED BY <2>1, <2>2 DEF Subs, Ups
<1>10. Wire'
  <2>1. Aligned(m_requests, Append(Subs, a), Tail(toServer))
        /\ m_requests[Len(Subs) + 1].tx = toServer[1].tx
    BY <1>0, <1>1, <1>5, <1>6, AlignedAnswer DEF SyncInv, Wire
  <2>2. Answered(m_requests, Subs, log')
    BY <1>7, AnsweredGrows DEF SyncInv, Wire
  <2>3. a.code = "ACCEPTED" =>
            a.erev \in 1 .. Len(log') /\ log'[a.erev].by = m_requests[Len(Subs) + 1].tx
    BY <1>1, <1>8, <2>1
  <2>4. Answered(m_requests, Append(Subs, a), log')
    BY <1>0, <1>5, <2>2, <2>3, AnsweredAnswer
  <2>5. Disconnected'
    <3>1. m_con
      BY <1>1 DEF SyncInv, Wire, Disconnected
    <3> QED BY <1>2, <3>1 DEF Disconnected
  <2> QED BY <1>1, <1>2, <1>9, <2>1, <2>4, <2>5 DEF Wire
<1>11. Copy'
  <2>1. m_rev \in 0 .. Len(log) /\ m_rev \in 1 .. Len(log') /\ pushed \in 0 .. Len(log')
    BY <1>0, <1>7 DEF SyncInv, Copy, Behind, Extends
  <2>2. CopyOK'
    <3> SUFFICES ASSUME NEW k \in Key PROVE (StoreValue(k) = ValueAt(k, m_rev))'
      BY DEF CopyOK
    <3>1. ValueIn(log', k, m_rev) = ValueIn(log, k, m_rev)
      BY <1>7, <2>1, ValueInGrows
    <3>2. StoreValue(k) = ValueIn(log, k, m_rev)
      BY ValueAtIs DEF SyncInv, Copy, CopyOK
    <3>3. StoreValue(k)' = StoreValue(k) /\ m_rev' = m_rev
      BY <1>2 DEF StoreValue
    <3>4. ValueAt(k, m_rev)' = ValueIn(log', k, m_rev')
      BY DEF ValueAt, ValueIn, LastWrite, LastIn, Writes
    <3> QED BY <3>1, <3>2, <3>3, <3>4
  <2> QED BY <1>2, <1>9, <2>1, <2>2 DEF SyncInv, Copy, Behind
<1>12. Awaited'
  <2>1. InFlight(toClient, m_rev, Len(log'))
    BY <1>0, <1>7, FlightGrows DEF SyncInv, Awaited, Extends
  <2>2. ASSUME a.code = "ACCEPTED"
        PROVE  /\ a.erev \in m_rev + 1 .. Len(log')
               /\ \A i \in 1 .. Len(toClient) :
                    /\ toClient[i].type = "update" => toClient[i].rev < a.erev
                    /\ toClient[i].code = "ACCEPTED" => toClient[i].erev < a.erev
               /\ \A i \in 1 .. Len(m_accepted) : m_accepted[i].erev < a.erev
    <3>1. a.erev = Len(log) + 1 /\ Len(log') = Len(log) + 1
      BY <1>0, <1>5, <1>a, <2>2, AppendIs
    <3>2. m_rev \in 1 .. Len(log)
      BY DEF SyncInv, Copy, Behind
    <3>3. a.erev \in m_rev + 1 .. Len(log')
      BY <1>0, <3>1, <3>2
    <3>4. ASSUME NEW i \in 1 .. Len(toClient)
          PROVE  /\ toClient[i].type = "update" => toClient[i].rev < a.erev
                 /\ toClient[i].code = "ACCEPTED" => toClient[i].erev < a.erev
      <4>1. toClient[i].type = "update" => toClient[i].rev \in 1 .. Len(log)
        BY DEF TypeInv, UpdatesKnown
      <4>2. toClient[i].code = "ACCEPTED" => toClient[i].erev \in m_rev + 1 .. Len(log)
        BY DEF SyncInv, Awaited, InFlight
      <4> QED BY <1>0, <3>1, <4>1, <4>2
    <3>5. ASSUME NEW i \in 1 .. Len(m_accepted) PROVE m_accepted[i].erev < a.erev
      <4>1. m_accepted[i].erev \in 1 .. Len(log)
        BY DEF SyncInv, Awaited, Ahead
      <4> QED BY <1>0, <3>1, <4>1
    <3> QED BY <3>3, <3>4, <3>5
  <2>3. Ordered(toClient) /\ Earlier(m_accepted, toClient) /\ Len(log') \in Nat
    BY <1>7 DEF SyncInv, Awaited, Extends
  <2>4. InFlight(toClient', m_rev, Len(log')) /\ Ordered(toClient') /\ Earlier(m_accepted, toClient')
    BY <1>0, <1>5, <1>a, <2>1, <2>2, <2>3, FlightAppend
  <2>5. Ahead(m_accepted, log', m_rev, loop.pc # "idle")
    BY <1>7, AheadGrows DEF SyncInv, Awaited
  <2> QED BY <1>2, <2>4, <2>5 DEF Awaited
<1> QED BY <1>10, <1>11, <1>12 DEF SyncInv

LEMMA ServerCommitSync ==
    ASSUME TypeInv, TypeInv', SyncInv, ServerCommit PROVE SyncInv'
<1>0. /\ Subs \in Seq(ClientMsg) /\ Ups \in Seq(ClientMsg) /\ toClient \in Seq(ClientMsg)
      /\ m_rev \in Nat /\ pushed \in Nat /\ Len(log) \in Nat /\ log \in Seq(CommitRec)
  BY SyncTypes
<1>1. UNCHANGED <<pushed, toServer, toClient, m_con, m_rev, m_data, m_requests, m_accepted, loop>>
  BY DEF ServerCommit, client
<1>2. \E c : log' = Append(log, c)
  BY DEF ServerCommit
<1>3. Extends(log', log)
  BY <1>0, <1>2 DEF Extends
<1>4. Wire'
  BY <1>1, <1>3, AnsweredGrows DEF SyncInv, Wire, Disconnected, Subs
<1>5. Copy'
  <2>1. m_rev \in 0 .. Len(log) /\ m_rev \in 1 .. Len(log') /\ pushed \in 0 .. Len(log')
    BY <1>0, <1>3 DEF SyncInv, Copy, Behind, Extends
  <2>2. CopyOK'
    <3> SUFFICES ASSUME NEW k \in Key PROVE (StoreValue(k) = ValueAt(k, m_rev))'
      BY DEF CopyOK
    <3>1. ValueIn(log', k, m_rev) = ValueIn(log, k, m_rev)
      BY <1>3, <2>1, ValueInGrows
    <3>2. StoreValue(k) = ValueIn(log, k, m_rev)
      BY ValueAtIs DEF SyncInv, Copy, CopyOK
    <3>3. StoreValue(k)' = StoreValue(k) /\ m_rev' = m_rev
      BY <1>1 DEF StoreValue
    <3>4. ValueAt(k, m_rev)' = ValueIn(log', k, m_rev')
      BY DEF ValueAt, ValueIn, LastWrite, LastIn, Writes
    <3> QED BY <3>1, <3>2, <3>3, <3>4
  <2> QED BY <1>1, <2>1, <2>2 DEF SyncInv, Copy, Behind, Ups
<1>6. Awaited'
  <2>1. InFlight(toClient, m_rev, Len(log'))
    BY <1>0, <1>3, FlightGrows DEF SyncInv, Awaited, Extends
  <2>2. Ahead(m_accepted, log', m_rev, loop.pc # "idle")
    BY <1>3, AheadGrows DEF SyncInv, Awaited
  <2> QED BY <1>1, <2>1, <2>2 DEF SyncInv, Awaited
<1> QED BY <1>4, <1>5, <1>6 DEF SyncInv

LEMMA ServerPushSync ==
    ASSUME TypeInv, TypeInv', SyncInv, ServerPush PROVE SyncInv'
<1> DEFINE m == UpdateMessage(pushed + 1)
<1>0. /\ Subs \in Seq(ClientMsg) /\ Ups \in Seq(ClientMsg) /\ toClient \in Seq(ClientMsg)
      /\ m_rev \in Nat /\ pushed \in Nat /\ Len(log) \in Nat
  BY SyncTypes
<1>1. m_con /\ pushed < Len(log) /\ pushed' = pushed + 1
  BY DEF ServerPush
<1>2. m \in ClientMsg /\ m.type = "update" /\ m.rev = pushed + 1 /\ m.code = ""
  <2>1. m.type = "update" /\ m.rev = pushed + 1 /\ m.code = ""
    BY DEF UpdateMessage
  <2>2. pushed + 1 \in Nat
    BY <1>0
  <2>3. m \in ClientMsg
    BY <2>2 DEF UpdateMessage, ClientMsg
  <2> QED BY <2>1, <2>3
<1>3. toClient' = Append(toClient, m)
  BY DEF ServerPush, UpdateMessage
<1>4. UNCHANGED <<log, toServer, m_con, m_rev, m_data, m_requests, m_accepted, loop>>
  BY DEF ServerPush, client
<1> HIDE DEF m
<1>5. Subs' = Subs /\ Ups' = Append(Ups, m)
  <2>1. OfType(toClient', "update") = Append(OfType(toClient, "update"), m)
    BY <1>0, <1>2, <1>3, OfTypeAppend
  <2>2. OfType(toClient', "submit") = OfType(toClient, "submit")
    BY <1>0, <1>2, <1>3, OfTypeAppend
  <2> QED BY <2>1, <2>2 DEF Subs, Ups
<1>6. Wire'
  BY <1>1, <1>4, <1>5 DEF SyncInv, Wire, Disconnected
<1>7. Copy'
  <2>1. InStep(Ups', m_rev, pushed')
    BY <1>0, <1>1, <1>2, <1>5, InStepPush DEF SyncInv, Copy
  <2>2. pushed' \in 0 .. Len(log)
    BY <1>0, <1>1
  <2>3. CopyOK'
    BY <1>4, CopyKept DEF SyncInv, Copy
  <2> QED BY <1>4, <2>1, <2>2, <2>3 DEF SyncInv, Copy, Behind
<1>8. Awaited'
  <2>1. InFlight(toClient', m_rev, Len(log)) /\ Ordered(toClient') /\ Earlier(m_accepted, toClient')
    BY <1>0, <1>2, <1>3, FlightAppend DEF SyncInv, Awaited
  <2> QED BY <1>4, <2>1 DEF SyncInv, Awaited
<1> QED BY <1>6, <1>7, <1>8 DEF SyncInv

LEMMA ProcessUpdateSync ==
    ASSUME TypeInv, TypeInv', SyncInv, ProcessUpdate PROVE SyncInv'
<1> DEFINE m == toClient[1]  r == m_rev + 1  c == log[r]
<1>0. /\ Subs \in Seq(ClientMsg) /\ Ups \in Seq(ClientMsg) /\ toClient \in Seq(ClientMsg)
      /\ m_accepted \in Seq(Accepted) /\ m_rev \in Nat /\ pushed \in Nat /\ Len(log) \in Nat
  BY SyncTypes
<1>1. /\ loop.pc = "idle" /\ toClient # <<>> /\ Head(toClient) = m /\ m.type = "update"
      /\ toClient' = Tail(toClient)
  BY <1>0, TailIs DEF ProcessUpdate
<1>2. UNCHANGED <<log, pushed, toServer, m_con, m_requests>>
  BY DEF ProcessUpdate
<1>3. m_con
  BY <1>1 DEF SyncInv, Wire, Disconnected
<1>4. Subs' = Subs /\ Ups' = Tail(Ups) /\ Ups # <<>> /\ Ups[1] = m
  <2>1. OfType(Tail(toClient), "submit") = OfType(toClient, "submit")
    BY <1>0, <1>1, OfTypePop
  <2>2. /\ OfType(toClient, "update") # <<>> /\ OfType(toClient, "update")[1] = m
        /\ OfType(Tail(toClient), "update") = Tail(OfType(toClient, "update"))
    BY <1>0, <1>1, OfTypePop
  <2> QED BY <1>1, <2>1, <2>2 DEF Subs, Ups
<1>5. m.rev = r /\ InStep(Tail(Ups), r, pushed)
  BY <1>0, <1>3, <1>4, InStepPop DEF SyncInv, Copy
<1>6. /\ m_rev' = r /\ m_data' = Patch(m_data, c.upserts, c.deletes, r, c.user)
      /\ loop' = [Idle EXCEPT !.pc = "updated", !.changes = Changes(c)]
  BY <1>1, <1>5 DEF ProcessUpdate
<1>7. r \in 1 .. Len(log) /\ r > 0 /\ r \in Nat
  <2>1. m.rev \in 1 .. Len(log)
    <3>1. 1 \in 1 .. Len(toClient)
      BY <1>0, <1>1, TailIs
    <3> QED BY <1>1, <3>1 DEF TypeInv, UpdatesKnown
  <2> QED BY <1>0, <1>5, <2>1
<1>8. loop'.pc = "updated"
  BY <1>6 DEF Idle
<1> HIDE DEF m
<1>9. Wire'
  BY <1>2, <1>3, <1>4 DEF SyncInv, Wire, Disconnected
<1>10. Copy'
  <2>1. CopyOK'
    <3> SUFFICES ASSUME NEW k \in Key PROVE (StoreValue(k) = ValueAt(k, m_rev))'
      BY DEF CopyOK
    <3>1. StoreValue(k) = ValueIn(log, k, m_rev)
      BY ValueAtIs DEF SyncInv, Copy, CopyOK
    <3>2. m_rev = r - 1
      BY <1>0
    <3>3. (IF k \in DOMAIN m_data THEN m_data[k] ELSE Null) = ValueIn(log, k, r - 1)
      BY <3>1, <3>2 DEF StoreValue
    <3>4. m_data' = Patch(m_data, log[r].upserts, log[r].deletes, r, log[r].user)
      BY <1>6
    <3>5. StoreValue(k)' = IF k \in DOMAIN m_data' THEN m_data'[k] ELSE Null
      BY DEF StoreValue
    <3>6. ValueAt(k, m_rev)' = ValueIn(log', k, m_rev')
      BY DEF ValueAt, ValueIn, LastWrite, LastIn, Writes
    <3>7. log' = log /\ m_rev' = r
      BY <1>2, <1>6
    <3> HIDE DEF r
    <3>8. (IF k \in DOMAIN m_data' THEN m_data'[k] ELSE Null) = ValueIn(log, k, r)
      BY <1>7, <3>3, <3>4, CopyStep
    <3> QED BY <3>5, <3>6, <3>7, <3>8
  <2>2. InStep(Ups', m_rev', pushed')
    BY <1>2, <1>4, <1>5, <1>6
  <2>3. Behind'
    BY <1>2, <1>6, <1>7 DEF SyncInv, Copy, Behind
  <2> QED BY <2>1, <2>2, <2>3 DEF Copy
<1>11. Awaited'
  <2>1. Ahead(m_accepted, log, m_rev, FALSE)
    BY <1>1 DEF SyncInv, Awaited, Ahead
  <2>2. InFlight(toClient, m_rev, Len(log)) /\ Ordered(toClient) /\ Earlier(m_accepted, toClient)
    BY DEF SyncInv, Awaited
  <2>3. /\ InFlight(Tail(toClient), r, Len(log)) /\ Ahead(m_accepted, log, r, TRUE)
        /\ m_accepted # <<>> => m_accepted[1].erev >= r
    BY <1>0, <1>1, <1>5, <2>1, <2>2, UpdatePop DEF m
  <2>4. Ordered(Tail(toClient)) /\ Earlier(m_accepted, Tail(toClient))
    BY <1>0, <1>1, <2>2, FlightPop
  <2>5. m_accepted' = m_accepted
    <3>1. PICK n \in 0 .. Len(m_accepted) :
            /\ Pops(Erevs(m_accepted), r, n)
            /\ m_accepted' = SubSeq(m_accepted, n + 1, Len(m_accepted))
      BY <1>1, <1>5 DEF ProcessUpdate
    <3>2. n = 0
      <4> SUFFICES ASSUME n # 0 PROVE FALSE
        OBVIOUS
      <4>1. 1 \in 1 .. n /\ 1 \in 1 .. Len(m_accepted) /\ m_accepted # <<>>
        BY <1>0
      <4>2. Erevs(m_accepted)[1] = m_accepted[1].erev
        BY <1>0, <4>1 DEF Erevs
      <4>3. Erevs(m_accepted)[1] < r
        BY <3>1, <4>1 DEF Pops
      <4>4. m_accepted[1].erev \in Nat
        <5>1. m_accepted[1] \in Accepted
          BY <1>0, <4>1, ElementOfSeq
        <5> QED BY <5>1 DEF Accepted
      <4> QED BY <1>7, <2>3, <4>1, <4>2, <4>3, <4>4
    <3> QED BY <1>0, <3>1, <3>2, SubSeqType
  <2>6. Ahead(m_accepted, log, m_rev, loop.pc # "idle")'
    <3>1. loop'.pc # "idle"
      BY <1>8
    <3> QED BY <1>2, <1>6, <2>3, <2>5, <3>1 DEF Ahead
  <2> QED BY <1>1, <1>2, <1>6, <2>3, <2>4, <2>5, <2>6 DEF Awaited
<1> QED BY <1>9, <1>10, <1>11 DEF SyncInv

LEMMA ConfirmCommitSync ==
    ASSUME TypeInv, TypeInv', SyncInv, ConfirmCommit PROVE SyncInv'
<1>0. m_accepted \in Seq(Accepted) /\ m_rev \in Nat
  BY SyncTypes
<1>1. UNCHANGED <<log, pushed, toServer, toClient, m_con, m_rev, m_data, m_requests>>
  BY DEF ConfirmCommit, server
<1>2. /\ loop'.pc = "idle"
      /\ m_accepted' = IF Confirmed THEN Tail(m_accepted) ELSE m_accepted
  BY DEF ConfirmCommit, Idle
<1>3. Wire'
  <2>1. m_con' => m_con
    BY <1>1
  <2>2. Disconnected'
    <3> SUFFICES ASSUME ~m_con' PROVE m_requests' = <<>> /\ m_accepted' = <<>> /\ toServer' = <<>> /\ toClient' = <<>>
      BY DEF Disconnected
    <3>1. m_requests = <<>> /\ m_accepted = <<>> /\ toServer = <<>> /\ toClient = <<>>
      BY <1>1 DEF SyncInv, Wire, Disconnected
    <3>2. ~Confirmed
      BY <3>1 DEF Confirmed
    <3> QED BY <1>1, <1>2, <3>1, <3>2
  <2> QED BY <1>1, <2>2 DEF SyncInv, Wire, Subs
<1>4. Copy'
  <2>1. CopyOK'
    BY <1>1, CopyKept DEF SyncInv, Copy
  <2> QED BY <1>1, <2>1 DEF SyncInv, Copy, Behind, Ups
<1>5. Awaited'
  <2>1. Ahead(m_accepted', log, m_rev, FALSE)
    <3>1. Ahead(m_accepted, log, m_rev, loop.pc # "idle")
      BY DEF SyncInv, Awaited
    <3>2. CASE Confirmed
      BY <1>0, <1>2, <3>1, <3>2, AheadPop DEF Confirmed
    <3>3. CASE ~Confirmed
      BY <1>0, <1>2, <3>1, <3>3, AheadPop DEF Confirmed
    <3> QED BY <3>2, <3>3
  <2>2. Ahead(m_accepted, log, m_rev, loop.pc # "idle")'
    BY <1>1, <1>2, <2>1 DEF Ahead
  <2>3. Earlier(m_accepted', toClient)
    <3>0. Earlier(m_accepted, toClient)
      BY DEF SyncInv, Awaited
    <3>1. CASE Confirmed
      <4>1. m_accepted # <<>> /\ m_accepted' = Tail(m_accepted)
        BY <1>2, <3>1 DEF Confirmed
      <4>2. \A i \in 1 .. Len(m_accepted') :
                i + 1 \in 1 .. Len(m_accepted) /\ m_accepted'[i] = m_accepted[i + 1]
        BY <1>0, <4>1, TailIs
      <4> QED BY <3>0, <4>2 DEF Earlier
    <3>2. CASE ~Confirmed
      BY <1>2, <3>0, <3>2
    <3> QED BY <3>1, <3>2
  <2> QED BY <1>1, <2>2, <2>3 DEF SyncInv, Awaited
<1> QED BY <1>3, <1>4, <1>5 DEF SyncInv

(* What process_submit_cmd() does.                                         *)
LEMMA ProcessSubmitCmdIs ==
    ASSUME TypeInv, ProcessSubmitCmd
    PROVE  LET c == m_commands[1] IN
           /\ m_commands # <<>> /\ m_commands' = Tail(m_commands) /\ loop.pc = "idle"
           /\ c.tx \in Tx /\ c.force \in BOOLEAN
           /\ UNCHANGED <<log, pushed, toClient, m_con, m_rev, m_data, m_transactions, m_accepted,
                          loop, content, created, held, missed>>
           /\ \/ ~m_con /\ Abort({c.tx}) /\ UNCHANGED <<toServer, m_requests>>
              \/ /\ m_con /\ UNCHANGED <<state, future>>
                 /\ SubmitMsg(c.tx, m_correlation, c.force) \in SubmitRec
                 /\ toServer' = Append(toServer, SubmitMsg(c.tx, m_correlation, c.force))
                 /\ m_requests' = Append(m_requests, [cid |-> m_correlation, tx |-> c.tx])
<1> DEFINE Cmd == [tx : Tx, force : BOOLEAN]  c == m_commands[1]
<1>1. /\ m_commands # <<>> /\ m_commands' = Tail(m_commands) /\ loop.pc = "idle"
      /\ UNCHANGED <<log, pushed, toClient, m_con, m_rev, m_data, m_transactions, m_accepted,
                     loop, content, created, held, missed>>
  BY DEF ProcessSubmitCmd
<1>2. m_commands \in Seq(Cmd) /\ m_correlation \in Nat /\ TypeOK
  BY DEF TypeInv, TypeOK
<1>3. Head(m_commands) = c /\ c \in Cmd
  <2> HIDE DEF Cmd
  <2> QED BY <1>1, <1>2, TailIs
<1>4. c.tx \in Tx /\ c.force \in BOOLEAN
  BY <1>3
<1>5. \/ ~m_con /\ Abort({c.tx}) /\ UNCHANGED <<toServer, m_requests>>
      \/ /\ m_con /\ UNCHANGED <<state, future>>
         /\ toServer' = Append(toServer, SubmitMsg(c.tx, m_correlation, c.force))
         /\ m_requests' = Append(m_requests, [cid |-> m_correlation, tx |-> c.tx])
  <2> HIDE DEF c
  <2> QED BY <1>3 DEF ProcessSubmitCmd
<1>6. SubmitMsg(c.tx, m_correlation, c.force) \in SubmitRec
  BY <1>2, <1>4, SubmitMsgType
<1> QED BY <1>1, <1>4, <1>5, <1>6, Zenon

LEMMA ProcessSubmitCmdSync ==
    ASSUME TypeInv, TypeInv', SyncInv, ProcessSubmitCmd PROVE SyncInv'
<1> DEFINE c == m_commands[1]
           q == SubmitMsg(c.tx, m_correlation, c.force)  r == [cid |-> m_correlation, tx |-> c.tx]
<1>0. /\ Subs \in Seq(ClientMsg) /\ toServer \in Seq(SubmitRec) /\ m_requests \in Seq(Request)
      /\ Len(Subs) \in Nat
  BY SyncTypes
<1>1. UNCHANGED <<log, pushed, toClient, m_con, m_rev, m_data, m_accepted, loop>>
  BY ProcessSubmitCmdIs
<1>2. \/ UNCHANGED <<toServer, m_requests>>
      \/ /\ m_con /\ q \in SubmitRec /\ c.tx \in Tx
         /\ toServer' = Append(toServer, q) /\ m_requests' = Append(m_requests, r)
  BY ProcessSubmitCmdIs, Zenon
<1>3. CASE UNCHANGED <<toServer, m_requests>>
  BY <1>1, <1>3, SyncFrame DEF server
<1>4. CASE /\ m_con /\ q \in SubmitRec /\ c.tx \in Tx
           /\ toServer' = Append(toServer, q) /\ m_requests' = Append(m_requests, r)
  <2>1. r \in Request /\ r.cid = q.cid /\ r.tx = q.tx
    <3>1. m_correlation \in Nat
      BY DEF TypeInv, TypeOK
    <3> QED BY <1>4, <3>1 DEF Request, SubmitMsg
  <2>2. Aligned(m_requests, Subs, toServer) /\ Answered(m_requests, Subs, log)
    BY DEF SyncInv, Wire
  <2> HIDE DEF c, q, r
  <2>3. Aligned(m_requests', Subs, toServer')
    BY <1>0, <1>4, <2>1, <2>2, AlignedSend
  <2>4. Len(Subs) <= Len(m_requests)
    <3>1. Len(m_requests) = Len(Subs) + Len(toServer) /\ Len(toServer) \in Nat
      BY <1>0, <2>2 DEF Aligned
    <3> QED BY <1>0, <3>1
  <2>5. Answered(m_requests', Subs, log)
    BY <1>0, <1>4, <2>1, <2>2, <2>4, AnsweredSend
  <2>6. Wire'
    BY <1>1, <1>4, <2>3, <2>5 DEF Wire, Disconnected, Subs
  <2>7. Copy'
    <3>1. CopyOK'
      BY <1>1, CopyKept DEF SyncInv, Copy
    <3> QED BY <1>1, <3>1 DEF SyncInv, Copy, Behind, Ups
  <2>8. Awaited'
    BY <1>1 DEF SyncInv, Awaited
  <2> QED BY <2>6, <2>7, <2>8 DEF SyncInv
<1> QED BY <1>2, <1>3, <1>4

(* The answer at the front is for the oldest request.                      *)
LEMMA ProcessSubmitRespIs ==
    ASSUME TypeInv, SyncInv, ProcessSubmitResp
    PROVE  LET resp == toClient[1]
               t == m_requests[1].tx
           IN
           /\ loop.pc = "idle" /\ toClient # <<>> /\ resp.type = "submit" /\ m_con
           /\ toClient' = Tail(toClient) /\ resp \in ClientMsg /\ t \in Tx
           /\ m_requests # <<>> /\ m_requests' = Tail(m_requests)
           /\ Subs # <<>> /\ Subs[1] = resp /\ Subs' = Tail(Subs) /\ Ups' = Ups
           /\ m_accepted' = IF resp.code = "ACCEPTED"
                            THEN Append(m_accepted, [tx |-> t, erev |-> resp.erev])
                            ELSE m_accepted
           /\ IF state[t] = "SUBMITTED"
              THEN /\ state' = [state EXCEPT ![t] = SubmitResult(resp.code).state]
                   /\ future' = [future EXCEPT ![t] = SubmitResult(resp.code).future]
              ELSE UNCHANGED <<state, future>>
           /\ UNCHANGED <<log, pushed, toServer, m_con, m_rev, m_data, m_transactions, m_commands,
                          m_correlation, loop, content, created, held, missed>>
<1> DEFINE resp == toClient[1]  t == m_requests[1].tx
<1>0. /\ Subs \in Seq(ClientMsg) /\ toServer \in Seq(SubmitRec) /\ m_requests \in Seq(Request)
      /\ toClient \in Seq(ClientMsg)
  BY SyncTypes
<1>1. /\ loop.pc = "idle" /\ toClient # <<>> /\ Head(toClient) = resp /\ resp.type = "submit"
      /\ toClient' = Tail(toClient) /\ resp \in ClientMsg
  BY <1>0, TailIs DEF ProcessSubmitResp
<1>2. UNCHANGED <<log, pushed, toServer, m_con, m_rev, m_data, m_transactions, m_commands,
                  m_correlation, loop, content, created, held, missed>>
  BY DEF ProcessSubmitResp
<1>3. m_con
  BY <1>1 DEF SyncInv, Wire, Disconnected
<1>4. Subs # <<>> /\ Subs[1] = resp /\ Subs' = Tail(Subs) /\ Ups' = Ups
  <2>1. OfType(Tail(toClient), "update") = OfType(toClient, "update")
    BY <1>0, <1>1, OfTypePop
  <2>2. /\ OfType(toClient, "submit") # <<>> /\ OfType(toClient, "submit")[1] = resp
        /\ OfType(Tail(toClient), "submit") = Tail(OfType(toClient, "submit"))
    BY <1>0, <1>1, OfTypePop
  <2> QED BY <1>1, <2>1, <2>2 DEF Subs, Ups
<1>5. m_requests # <<>> /\ m_requests[1].cid = resp.cid
  BY <1>0, <1>4, AlignedPop DEF SyncInv, Wire
<1>6. Head(m_requests) = m_requests[1] /\ m_requests[1] \in Request /\ 1 \in 1 .. Len(m_requests)
  BY <1>0, <1>5, TailIs
<1>7. t \in Tx /\ m_requests[1].cid \in Nat
  BY <1>6 DEF Request
<1>8. PICK n \in 0 .. Len(m_requests) :
        LET left == SubSeq(m_requests, n + 1, Len(m_requests))
        IN /\ Pops(Cids(m_requests), resp.cid, n)
           /\ IF left = <<>> \/ Head(left).cid # resp.cid
              THEN m_requests' = left /\ UNCHANGED <<m_accepted, state, future>>
              ELSE LET u == Head(left).tx IN
                   /\ m_requests' = Tail(left)
                   /\ m_accepted' = IF resp.code = "ACCEPTED"
                                    THEN Append(m_accepted, [tx |-> u, erev |-> resp.erev])
                                    ELSE m_accepted
                   /\ IF state[u] = "SUBMITTED"
                      THEN /\ state' = [state EXCEPT ![u] = SubmitResult(resp.code).state]
                           /\ future' = [future EXCEPT ![u] = SubmitResult(resp.code).future]
                      ELSE UNCHANGED <<state, future>>
  BY <1>1 DEF ProcessSubmitResp
<1>9. n = 0
  <2> SUFFICES ASSUME n # 0 PROVE FALSE
    OBVIOUS
  <2>1. 1 \in 1 .. n
    OBVIOUS
  <2>2. Cids(m_requests)[1] = m_requests[1].cid
    BY <1>0, <1>6 DEF Cids
  <2>3. Cids(m_requests)[1] < resp.cid
    BY <1>8, <2>1 DEF Pops
  <2> QED BY <1>5, <1>7, <2>2, <2>3
<1>10. SubSeq(m_requests, n + 1, Len(m_requests)) = m_requests
  BY <1>0, <1>9, SubSeqType
<1> HIDE DEF resp, t
<1>11. /\ m_requests' = Tail(m_requests)
       /\ m_accepted' = IF resp.code = "ACCEPTED"
                        THEN Append(m_accepted, [tx |-> t, erev |-> resp.erev])
                        ELSE m_accepted
       /\ IF state[t] = "SUBMITTED"
          THEN /\ state' = [state EXCEPT ![t] = SubmitResult(resp.code).state]
               /\ future' = [future EXCEPT ![t] = SubmitResult(resp.code).future]
          ELSE UNCHANGED <<state, future>>
  <2>1. Head(m_requests).cid = resp.cid /\ Head(m_requests).tx = t
    BY <1>5, <1>6 DEF t
  <2> QED BY <1>5, <1>8, <1>10, <2>1
<1> QED BY <1>1, <1>2, <1>3, <1>4, <1>5, <1>7, <1>11 DEF resp, t

LEMMA ProcessSubmitRespSync ==
    ASSUME TypeInv, TypeInv', SyncInv, ProcessSubmitResp PROVE SyncInv'
<1> DEFINE resp == toClient[1]  t == m_requests[1].tx  a == [tx |-> t, erev |-> resp.erev]
<1>0. /\ Subs \in Seq(ClientMsg) /\ toServer \in Seq(SubmitRec) /\ m_requests \in Seq(Request)
      /\ toClient \in Seq(ClientMsg) /\ m_accepted \in Seq(Accepted) /\ m_rev \in Nat
      /\ Len(log) \in Nat /\ Len(Subs) \in Nat
  BY SyncTypes
<1>1. /\ loop.pc = "idle" /\ toClient # <<>> /\ m_con /\ toClient' = Tail(toClient)
      /\ resp \in ClientMsg /\ t \in Tx /\ m_requests' = Tail(m_requests)
      /\ Subs # <<>> /\ Subs[1] = resp /\ Subs' = Tail(Subs) /\ Ups' = Ups
  BY ProcessSubmitRespIs, Zenon
<1>2. UNCHANGED <<log, pushed, toServer, m_con, m_rev, m_data, loop>>
  BY ProcessSubmitRespIs
<1>3. m_accepted' = IF resp.code = "ACCEPTED" THEN Append(m_accepted, a) ELSE m_accepted
  BY ProcessSubmitRespIs, Zenon
<1>4. a \in Accepted /\ a.erev = resp.erev /\ a.tx = t
  BY <1>1, MessageFields DEF Accepted
<1>a. resp.code = "ACCEPTED" => log[resp.erev].by = t
  <2>1. 1 \in 1 .. Len(Subs)
    BY <1>0, <1>1, TailIs
  <2> QED BY <1>1, <2>1 DEF SyncInv, Wire, Answered
<1> HIDE DEF a, t
<1>5. Wire'
  <2>1. Aligned(m_requests, Subs, toServer) /\ Answered(m_requests, Subs, log)
    BY DEF SyncInv, Wire
  <2>2. Aligned(m_requests', Subs', toServer)
    BY <1>0, <1>1, <2>1, AlignedPop
  <2>3. Len(Subs) <= Len(m_requests)
    <3>1. Len(m_requests) = Len(Subs) + Len(toServer) /\ Len(toServer) \in Nat
      BY <1>0, <2>1 DEF Aligned
    <3> QED BY <1>0, <3>1
  <2>4. Answered(m_requests', Subs', log)
    BY <1>0, <1>1, <2>1, <2>3, AnsweredPop
  <2> QED BY <1>1, <1>2, <2>2, <2>4 DEF Wire, Disconnected
<1>6. Copy'
  <2>1. CopyOK'
    BY <1>2, CopyKept DEF SyncInv, Copy
  <2> QED BY <1>1, <1>2, <2>1 DEF SyncInv, Copy, Behind
<1>7. Awaited'
  <2>1. /\ InFlight(toClient, m_rev, Len(log)) /\ Ordered(toClient) /\ Earlier(m_accepted, toClient)
        /\ Ahead(m_accepted, log, m_rev, loop.pc # "idle")
    BY DEF SyncInv, Awaited
  <2>2. /\ InFlight(Tail(toClient), m_rev, Len(log)) /\ Ordered(Tail(toClient))
        /\ Earlier(m_accepted, Tail(toClient))
    BY <1>0, <1>1, <2>1, FlightPop
  <2>3. Earlier(m_accepted', Tail(toClient)) /\ Ahead(m_accepted', log, m_rev, loop.pc # "idle")
    <3>1. CASE resp.code = "ACCEPTED"
      BY <1>0, <1>1, <1>3, <1>4, <1>a, <2>1, <3>1, AcceptPop
    <3>2. CASE resp.code # "ACCEPTED"
      BY <1>3, <2>1, <2>2, <3>2
    <3> QED BY <3>1, <3>2
  <2> HIDE DEF resp
  <2> QED BY <1>1, <1>2, <2>2, <2>3 DEF Awaited
<1> QED BY <1>5, <1>6, <1>7 DEF SyncInv

LEMMA ConnectionClosedSync ==
    ASSUME TypeInv, TypeInv', SyncInv, ConnectionClosed PROVE SyncInv'
<1>1. /\ toServer' = <<>> /\ toClient' = <<>> /\ m_requests' = <<>> /\ m_accepted' = <<>> /\ ~m_con'
      /\ UNCHANGED <<log, pushed, m_rev, m_data>>
  BY DEF ConnectionClosed
<1>2. Subs' = <<>>
  BY <1>1, OfTypeEmpty DEF Subs
<1>3. Wire'
  BY <1>1, <1>2, EmptyWire DEF Wire, Disconnected
<1>4. Copy'
  <2>1. CopyOK'
    BY <1>1, CopyKept DEF SyncInv, Copy
  <2> QED BY <1>1, <2>1 DEF SyncInv, Copy, Behind
<1>5. Awaited'
  BY <1>1, EmptyFlight DEF Awaited
<1> QED BY <1>3, <1>4, <1>5 DEF SyncInv

LEMMA ReconnectedSync ==
    ASSUME TypeInv, TypeInv', SyncInv, Reconnected PROVE SyncInv'
<1>1. /\ ~m_con /\ m_con' /\ pushed' = m_rev
      /\ UNCHANGED <<log, toServer, toClient, m_rev, m_data, m_requests, m_accepted, loop>>
  BY DEF Reconnected
<1>2. m_requests = <<>> /\ m_accepted = <<>> /\ toServer = <<>> /\ toClient = <<>>
  BY <1>1 DEF SyncInv, Wire, Disconnected
<1>3. Subs' = <<>> /\ Ups' = <<>>
  BY <1>1, <1>2, OfTypeEmpty DEF Subs, Ups
<1>4. Wire'
  BY <1>1, <1>2, <1>3, EmptyWire DEF Wire, Disconnected
<1>5. Copy'
  <2>1. CopyOK'
    BY <1>1, CopyKept DEF SyncInv, Copy
  <2>2. InStep(<<>>, m_rev, m_rev)
    <3>1. Len(<<>>) = 0 /\ m_rev \in Nat
      BY SyncTypes
    <3> QED BY <3>1 DEF InStep
  <2>3. m_rev \in 1 .. Len(log) /\ m_rev \in 0 .. Len(log)
    BY DEF SyncInv, Copy, Behind
  <2> QED BY <1>1, <1>3, <2>1, <2>2, <2>3 DEF Copy, Behind
<1>6. Awaited'
  BY <1>1, <1>2, EmptyFlight DEF Awaited
<1> QED BY <1>4, <1>5, <1>6 DEF SyncInv

LEMMA UserSync ==
    ASSUME TypeInv, SyncInv, UserStep PROVE SyncInv'
<1>1. PICK t \in Tx : \/ ContentOp(t)
                      \/ \E level \in Levels[t] : CreateTx(t, level)
                      \/ Discard(t) \/ DropHandle(t)
                      \/ \E f \in Forcing : Submit(t, f)
  BY UserSteps
<1>2. CASE ContentOp(t)
  BY <1>2, ContentOpFrame, SyncFrame DEF UserOp, client
<1>3. CASE Discard(t) \/ DropHandle(t)
  BY <1>3, SyncFrame DEF Discard, DropHandle, client
<1>4. CASE \E level \in Levels[t] : CreateTx(t, level)
  BY <1>4, SyncFrame DEF CreateTx
<1>5. CASE \E f \in Forcing : Submit(t, f)
  BY <1>5, SyncFrame DEF Submit
<1> QED BY <1>1, <1>2, <1>3, <1>4, <1>5

(* The loop over the transactions.                                         *)
LEMMA LoopBusy ==
    ASSUME TypeInv, LockTransactions \/ UpdateTx \/ \E t \in Tx : VisitTx(t)
    PROVE  /\ loop'.pc \in {"visit", "update"} /\ loop.pc # "idle"
           /\ UNCHANGED <<server, m_con, m_rev, m_data, m_requests, m_accepted, m_commands,
                          m_transactions, held, future, state, created, seen, touched, ensures>>
<1>0. loop = [loop EXCEPT !.pc = loop.pc] /\ loop \in LoopRec(loop.changes)
  BY DEF TypeInv, TypeOK, LoopRec
<1>1. CASE LockTransactions
  BY <1>0, <1>1 DEF LockTransactions, txvars, content, LoopRec
<1>2. CASE UpdateTx
  BY <1>0, <1>2 DEF UpdateTx, LoopRec
<1>3. CASE \E t \in Tx : VisitTx(t)
  BY <1>0, <1>3 DEF VisitTx, VisitOpen, VisitOther, content, LoopRec
<1> QED BY <1>1, <1>2, <1>3

LEMMA NextSync == ASSUME TypeInv, TypeInv', SyncInv, [Next]_vars PROVE SyncInv'
<1>1. CASE UserStep
  BY <1>1, UserSync
<1>2. CASE LockTransactions \/ UpdateTx \/ \E t \in Tx : VisitTx(t)
  BY <1>2, LoopBusy, SyncFrame
<1>3. CASE ProcessUpdate \/ ConfirmCommit \/ ProcessSubmitCmd \/ ProcessSubmitResp
  BY <1>3, ProcessUpdateSync, ConfirmCommitSync, ProcessSubmitCmdSync, ProcessSubmitRespSync
<1>4. CASE ServerStep
  BY <1>4, ServerSubmitSync, ServerCommitSync, ServerPushSync DEF ServerStep
<1>5. CASE ConnectionClosed \/ Reconnected
  BY <1>5, ConnectionClosedSync, ReconnectedSync
<1>6. CASE UNCHANGED vars
  BY <1>6, SyncFrame DEF vars, client
<1> QED BY <1>1, <1>2, <1>3, <1>4, <1>5, <1>6 DEF Next, LoopStep

(* The invariant of the submit protocol and of the copy: requests, answers *)
(* and updates in flight are in step with the client's queues and store,   *)
(* whatever is lost with a connection.                                     *)
THEOREM TransactionsSync == Spec => [](TypeInv /\ SyncInv)
<1>1. Init => SyncInv
  BY InitSync
<1>2. TypeInv /\ TypeInv' /\ SyncInv /\ [Next]_vars => SyncInv'
  BY NextSync
<1> QED BY <1>1, <1>2, TransactionsTypeInv, PTL DEF Spec

(* AcceptedAhead: process_update() never discards an accepted request.     *)
THEOREM TransactionsAcceptedAhead == Spec => []AcceptedAhead
<1>1. TypeInv /\ SyncInv => AcceptedAhead
  <2> SUFFICES ASSUME TypeInv, SyncInv PROVE AcceptedAhead
    OBVIOUS
  <2>1. Ahead(m_accepted, log, m_rev, loop.pc # "idle")
    BY DEF SyncInv, Awaited
  <2>2. DOMAIN m_accepted = 1 .. Len(m_accepted) /\ DOMAIN log = 1 .. Len(log)
    BY SyncTypes, LenProperties
  <2> QED BY <2>1, <2>2 DEF Ahead, AcceptedAhead
<1> QED BY <1>1, TransactionsSync, PTL

(* ReplicaInSync: the store is the database at revision m_rev, and the     *)
(* updates in flight continue it without a gap, across reconnections.      *)
THEOREM TransactionsReplicaInSync == Spec => []ReplicaInSync
<1>1. TypeInv /\ SyncInv => ReplicaInSync
  <2> SUFFICES ASSUME TypeInv, SyncInv PROVE ReplicaInSync
    OBVIOUS
  <2>1. DOMAIN Ups = 1 .. Len(Ups)
    BY SyncTypes, LenProperties
  <2> QED BY <2>1 DEF SyncInv, Copy, CopyOK, InStep, ReplicaInSync, Ups
<1> QED BY <1>1, TransactionsSync, PTL

LEMMA CidsIs ==
    ASSUME NEW S, NEW q \in Seq(S), \A x \in S : x.cid \in Nat
    PROVE  Cids(q) \in Seq(Nat) /\ Len(Cids(q)) = Len(q) /\ \A i \in 1 .. Len(q) : Cids(q)[i] = q[i].cid
<1> DEFINE c == [i \in 1 .. Len(q) |-> q[i].cid]
<1>1. Len(q) \in Nat /\ DOMAIN q = 1 .. Len(q)
  BY LenProperties
<1>2. \A i \in 1 .. Len(q) : q[i].cid \in Nat
  BY ElementOfSeq
<1>3. c \in [1 .. Len(q) -> Nat]
  BY <1>2
<1>4. c \in Seq(Nat) /\ Len(c) = Len(q)
  <2> HIDE DEF c
  <2>1. c \in Seq(Nat)
    BY <1>1, <1>3, SeqDef
  <2> QED BY <1>1, <1>3, <2>1, LenProperties
<1>5. Cids(q) = c
  BY <1>1 DEF Cids
<1> QED BY <1>4, <1>5

(* RequestsAligned: the requests not yet answered are those on the wire.   *)
THEOREM TransactionsRequestsAligned == Spec => []RequestsAligned
<1>1. TypeInv /\ SyncInv => RequestsAligned
  <2> SUFFICES ASSUME TypeInv, SyncInv
               PROVE  Cids(m_requests) = Cids(Subs) \o Cids(toServer)
    BY DEF RequestsAligned, Subs
  <2>1. /\ Subs \in Seq(ClientMsg) /\ toServer \in Seq(SubmitRec) /\ m_requests \in Seq(Request)
    BY SyncTypes
  <2>2. Aligned(m_requests, Subs, toServer)
    BY DEF SyncInv, Wire
  <2> DEFINE A == Cids(Subs)  B == Cids(toServer)  C == Cids(m_requests)  o == A \o B
  <2>3. A \in Seq(Nat) /\ Len(A) = Len(Subs) /\ \A i \in 1 .. Len(Subs) : A[i] = Subs[i].cid
    <3>1. \A x \in ClientMsg : x.cid \in Nat
      BY MessageFields
    <3> QED BY <2>1, <3>1, CidsIs
  <2>4. B \in Seq(Nat) /\ Len(B) = Len(toServer) /\ \A i \in 1 .. Len(toServer) : B[i] = toServer[i].cid
    <3>1. \A x \in SubmitRec : x.cid \in Nat
      BY DEF SubmitRec
    <3> QED BY <2>1, <3>1, CidsIs
  <2>5. C \in Seq(Nat) /\ Len(C) = Len(m_requests)
        /\ \A i \in 1 .. Len(m_requests) : C[i] = m_requests[i].cid
    <3>1. \A x \in Request : x.cid \in Nat
      BY DEF Request
    <3> QED BY <2>1, <3>1, CidsIs
  <2> HIDE DEF A, B, C
  <2>6. /\ o \in Seq(Nat) /\ Len(o) = Len(A) + Len(B)
        /\ \A i \in 1 .. Len(A) + Len(B) : o[i] = IF i <= Len(A) THEN A[i] ELSE B[i - Len(A)]
    <3>1. A \in Seq(Nat) /\ B \in Seq(Nat)
      BY <2>3, <2>4
    <3> QED BY <3>1, ConcatProperties
  <2> HIDE DEF o
  <2>7. Len(Subs) \in Nat /\ Len(toServer) \in Nat /\ Len(m_requests) = Len(Subs) + Len(toServer)
    BY <2>1, <2>2, LenProperties DEF Aligned
  <2>8. Len(C) = Len(o)
    BY <2>3, <2>4, <2>5, <2>6, <2>7
  <2>9. ASSUME NEW i \in 1 .. Len(C) PROVE C[i] = o[i]
    <3>0. C[i] = m_requests[i].cid
      BY <2>5
    <3>1. CASE i <= Len(Subs)
      <4>1. i \in 1 .. Len(Subs) /\ o[i] = A[i]
        BY <2>3, <2>6, <2>7, <2>8, <3>1
      <4> QED BY <2>2, <2>3, <3>0, <4>1 DEF Aligned
    <3>2. CASE ~(i <= Len(Subs))
      <4>1. i - Len(Subs) \in 1 .. Len(toServer) /\ Len(Subs) + (i - Len(Subs)) = i
        BY <2>5, <2>7, <3>2
      <4>2. o[i] = B[i - Len(Subs)]
        BY <2>3, <2>6, <2>8, <3>2
      <4>3. m_requests[Len(Subs) + (i - Len(Subs))].cid = toServer[i - Len(Subs)].cid
        BY <2>2, <4>1 DEF Aligned
      <4> QED BY <2>4, <3>0, <4>1, <4>2, <4>3
    <3> QED BY <3>1, <3>2
  <2>10. C = o
    BY <2>5, <2>6, <2>8, <2>9, SeqEqual
  <2> QED BY <2>10 DEF A, B, C, o
<1> QED BY <1>1, TransactionsSync, PTL
=============================================================================
