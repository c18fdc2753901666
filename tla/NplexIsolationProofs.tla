------------------------ MODULE NplexIsolationProofs ------------------------
(***************************************************************************)
(* Theorems about NplexTransactions: what an isolation level promises to a *)
(* transaction, and what its future and its commit say of the database.    *)
(* They rest on the types and on the submit protocol of                    *)
(* NplexTransactionsProofs.                                                *)
(***************************************************************************)
EXTENDS NplexTransactionsProofs

-----------------------------------------------------------------------------
(* What an operation of the user does to the content of its transaction.   *)
(* Entries are never dropped, a write stays a write, another entry keeps   *)
(* its value, and a SNAPSHOT entry that is used spoils the transaction.    *)
IsWrite(it) == it.action \in {"UPSERT", "DELETE"}

ItemsStep(old, new, spoilt) ==
    \A k \in DOMAIN old :
        /\ k \in DOMAIN new
        /\ IsWrite(old[k]) => IsWrite(new[k])
        /\ IsWrite(new[k]) \/ new[k].value = old[k].value
        /\ old[k].action = "SNAPSHOT" => new[k].action = "SNAPSHOT" \/ IsWrite(new[k]) \/ spoilt

(* A value is shown for the first time: it is that of the entry, which is  *)
(* not a write.                                                            *)
SeenStep(old, new, sn, sn2, spoilt) ==
    /\ \A k \in DOMAIN sn : k \in DOMAIN sn2 /\ sn2[k] = sn[k]
    /\ \A k \in DOMAIN sn2 \ DOMAIN sn :
        /\ k \in DOMAIN new /\ sn2[k] = new[k].value
        /\ k \in DOMAIN old => /\ ~IsWrite(old[k])
                               /\ old[k].action = "SNAPSHOT" /\ sn2[k] # Null => spoilt

TouchStep(new, tc, tc2, base) ==
    /\ \A k \in DOMAIN tc : k \in DOMAIN tc2 /\ tc2[k] = tc[k]
    /\ \A k \in DOMAIN tc2 \ DOMAIN tc : k \in DOMAIN new /\ tc2[k] = base

OthersKept(t) ==
    \A u \in Tx \ {t} : /\ items'[u] = items[u] /\ seen'[u] = seen[u] /\ touched'[u] = touched[u]
                        /\ ensures'[u] = ensures[u] /\ dirty'[u] = dirty[u]

ContentStep(t) ==
    /\ OthersKept(t)
    /\ ItemsStep(items[t], items'[t], dirty'[t])
    /\ SeenStep(items[t], items'[t], seen[t], seen'[t], dirty'[t])
    /\ TouchStep(items'[t], touched[t], touched'[t], BaseRev(t))
    /\ dirty[t] => dirty'[t]

LEMMA ContentDomains ==
    ASSUME TypeOK
    PROVE  /\ DOMAIN items = Tx /\ DOMAIN seen = Tx /\ DOMAIN touched = Tx
           /\ DOMAIN ensures = Tx /\ DOMAIN dirty = Tx
BY DEF TypeOK, AreMaps

LEMMA ItemsKept == ASSUME NEW old, NEW spoilt PROVE ItemsStep(old, old, spoilt)
BY DEF ItemsStep

LEMMA SeenKept == ASSUME NEW old, NEW new, NEW sn, NEW spoilt PROVE SeenStep(old, new, sn, sn, spoilt)
BY DEF SeenStep

LEMMA TouchKept == ASSUME NEW new, NEW tc, NEW base PROVE TouchStep(new, tc, tc, base)
BY DEF TouchStep

LEMMA TouchAllStep ==
    ASSUME TypeOK, NEW t \in Tx, NEW ks, TouchAll(t, ks), ks \subseteq DOMAIN items'[t]
    PROVE  /\ TouchStep(items'[t], touched[t], touched'[t], BaseRev(t))
           /\ \A u \in Tx \ {t} : touched'[u] = touched[u]
<1>1. touched'[t] = [k \in DOMAIN touched[t] \cup ks |->
                        IF k \in DOMAIN touched[t] THEN touched[t][k] ELSE BaseRev(t)]
  BY ContentDomains DEF TouchAll
<1>2. \A u \in Tx \ {t} : touched'[u] = touched[u]
  BY ContentDomains DEF TouchAll
<1> QED BY <1>1, <1>2 DEF TouchStep

LEMMA SeeStep ==
    ASSUME TypeOK, NEW t \in Tx, NEW k, NEW v, See(t, k, v), k \in DOMAIN items'[t],
           v = items'[t][k].value, NEW spoilt,
           k \in DOMAIN items[t] => /\ ~IsWrite(items[t][k])
                                    /\ items[t][k].action = "SNAPSHOT" /\ v # Null => spoilt
    PROVE  /\ SeenStep(items[t], items'[t], seen[t], seen'[t], spoilt)
           /\ \A u \in Tx \ {t} : seen'[u] = seen[u]
<1>1. \A u \in Tx \ {t} : seen'[u] = seen[u]
  BY ContentDomains DEF See
<1>2. seen'[t] = IF k \in DOMAIN seen[t] THEN seen[t] ELSE Put(seen[t], k, v)
  BY ContentDomains DEF See
<1>3. CASE k \in DOMAIN seen[t]
  BY <1>1, <1>2, <1>3, SeenKept
<1>4. CASE k \notin DOMAIN seen[t]
  <2>1. /\ DOMAIN seen'[t] = DOMAIN seen[t] \cup {k} /\ seen'[t][k] = v
        /\ \A x \in DOMAIN seen[t] : seen'[t][x] = seen[t][x]
    BY <1>2, <1>4 DEF Put
  <2>2. SeenStep(items[t], items'[t], seen[t], seen'[t], spoilt)
    BY <2>1 DEF SeenStep
  <2> QED BY <1>1, <2>2
<1> QED BY <1>3, <1>4

LEMMA SetItemStep ==
    ASSUME TypeOK, NEW t \in Tx, NEW k, NEW a, NEW v, SetItem(t, k, a, v), NEW spoilt,
           k \notin DOMAIN items[t] \/ a \in {"UPSERT", "DELETE"}
    PROVE  /\ ItemsStep(items[t], items'[t], spoilt)
           /\ k \in DOMAIN items'[t] /\ items'[t][k] = Item(a, v)
           /\ \A u \in Tx \ {t} : items'[u] = items[u]
<1>1. \A u \in Tx \ {t} : items'[u] = items[u]
  BY ContentDomains DEF SetItem
<1>2. items'[t] = Put(items[t], k, Item(a, v))
  BY ContentDomains DEF SetItem
<1>3. /\ DOMAIN items'[t] = DOMAIN items[t] \cup {k} /\ items'[t][k] = Item(a, v)
      /\ \A x \in DOMAIN items[t] : x # k => items'[t][x] = items[t][x]
  BY <1>2 DEF Put
<1>4. a \in {"UPSERT", "DELETE"} => IsWrite(Item(a, v))
  BY DEF IsWrite, Item
<1>5. ASSUME NEW x \in DOMAIN items[t]
      PROVE  /\ x \in DOMAIN items'[t]
             /\ IsWrite(items[t][x]) => IsWrite(items'[t][x])
             /\ IsWrite(items'[t][x]) \/ items'[t][x].value = items[t][x].value
             /\ items[t][x].action = "SNAPSHOT" =>
                    items'[t][x].action = "SNAPSHOT" \/ IsWrite(items'[t][x]) \/ spoilt
  <2>1. CASE x = k
    BY <1>3, <1>4, <2>1
  <2>2. CASE x # k
    BY <1>3, <2>2
  <2> QED BY <2>1, <2>2
<1> QED BY <1>1, <1>3, <1>5 DEF ItemsStep

LEMMA ReadStep ==
    ASSUME TypeOK, NEW t \in Tx, NEW k \in Key, NEW e, Read(t, k, e) PROVE ContentStep(t)
<1>0. /\ DOMAIN items = Tx /\ DOMAIN seen = Tx /\ DOMAIN touched = Tx
      /\ DOMAIN ensures = Tx /\ DOMAIN dirty = Tx
  BY ContentDomains
<1>1. CASE ReadItem(t, k, e)
  <2> DEFINE it == items[t][k]  found == it.action # "DELETE" /\ it.value # Null
             fresh == found /\ it.action = "SNAPSHOT"
  <2>1. k \in DOMAIN items[t] /\ it \in ItemRec
    BY <1>1 DEF ReadItem, TypeOK, AreMaps, IsMap
  <2>2. /\ items' = IF fresh THEN [items EXCEPT ![t][k].action = "READ"] ELSE items
        /\ dirty' = IF fresh THEN [dirty EXCEPT ![t] = TRUE] ELSE dirty
        /\ ensures' = IF found /\ e THEN [ensures EXCEPT ![t] = @ \cup {k}] ELSE ensures
        /\ IF OwnWrite(t, k) THEN UNCHANGED <<seen, touched>>
           ELSE See(t, k, it.value) /\ TouchAll(t, {k})
    BY <1>1 DEF ReadItem
  <2>3. (dirty[t] => dirty'[t]) /\ (fresh => dirty'[t]) /\ \A u \in Tx \ {t} : dirty'[u] = dirty[u]
    BY <1>0, <2>2
  <2>4. \A u \in Tx \ {t} : ensures'[u] = ensures[u]
    BY <1>0, <2>2
  <2>5. /\ \A u \in Tx \ {t} : items'[u] = items[u]
        /\ DOMAIN items'[t] = DOMAIN items[t]
        /\ \A x \in DOMAIN items[t] : x # k => items'[t][x] = items[t][x]
        /\ items'[t][k] = IF fresh THEN Item("READ", it.value) ELSE it
    <3>1. CASE fresh
      <4>1. [it EXCEPT !.action = "READ"] = Item("READ", it.value)
        BY <2>1 DEF ItemRec, Item
      <4>2. items' = [items EXCEPT ![t] = [items[t] EXCEPT ![k] = Item("READ", it.value)]]
        BY <2>2, <3>1, <4>1
      <4>3. items'[t] = [items[t] EXCEPT ![k] = Item("READ", it.value)]
        BY <1>0, <4>2
      <4> QED BY <1>0, <2>1, <3>1, <4>2, <4>3
    <3>2. CASE ~fresh
      BY <2>2, <3>2
    <3> QED BY <3>1, <3>2
  <2>6. items'[t][k].value = it.value /\ (IsWrite(items'[t][k]) <=> IsWrite(it))
        /\ (it.action = "SNAPSHOT" => items'[t][k].action = "SNAPSHOT" \/ fresh)
    BY <2>5 DEF Item, IsWrite
  <2> HIDE DEF it
  <2>7. ItemsStep(items[t], items'[t], dirty'[t])
    <3> SUFFICES ASSUME NEW x \in DOMAIN items[t]
                 PROVE  /\ x \in DOMAIN items'[t]
                        /\ IsWrite(items[t][x]) => IsWrite(items'[t][x])
                        /\ IsWrite(items'[t][x]) \/ items'[t][x].value = items[t][x].value
                        /\ items[t][x].action = "SNAPSHOT" =>
                            items'[t][x].action = "SNAPSHOT" \/ IsWrite(items'[t][x]) \/ dirty'[t]
      BY DEF ItemsStep
    <3>1. CASE x = k
      BY <2>3, <2>5, <2>6, <3>1 DEF it
    <3>2. CASE x # k
      BY <2>5, <3>2
    <3> QED BY <3>1, <3>2
  <2>8. CASE OwnWrite(t, k)
    <3>1. UNCHANGED <<seen, touched>>
      BY <2>2, <2>8
    <3> QED BY <2>3, <2>4, <2>5, <2>7, <3>1, SeenKept, TouchKept DEF ContentStep, OthersKept
  <2>9. CASE ~OwnWrite(t, k)
    <3>1. See(t, k, it.value) /\ TouchAll(t, {k}) /\ ~IsWrite(items[t][k])
      BY <2>1, <2>2, <2>9 DEF OwnWrite, IsWrite, it
    <3>2. items[t][k].action = "SNAPSHOT" /\ it.value # Null => dirty'[t]
      BY <2>3 DEF it
    <3>3. k \in DOMAIN items'[t] /\ it.value = items'[t][k].value
      BY <2>1, <2>5, <2>6
    <3>4. /\ SeenStep(items[t], items'[t], seen[t], seen'[t], dirty'[t])
          /\ \A u \in Tx \ {t} : seen'[u] = seen[u]
      BY <3>1, <3>2, <3>3, SeeStep
    <3>5. {k} \subseteq DOMAIN items'[t]
      BY <3>3
    <3>6. /\ TouchStep(items'[t], touched[t], touched'[t], BaseRev(t))
          /\ \A u \in Tx \ {t} : touched'[u] = touched[u]
      BY <3>1, <3>5, TouchAllStep
    <3> QED BY <2>3, <2>4, <2>5, <2>7, <3>4, <3>6 DEF ContentStep, OthersKept
  <2> QED BY <2>8, <2>9
<1>2. CASE ReadStore(t, k, e)
  <2>1. k \notin DOMAIN items[t] /\ dirty' = dirty /\ \A u \in Tx \ {t} : ensures'[u] = ensures[u]
    BY <1>0, <1>2 DEF ReadStore
  <2>2. CASE UNCHANGED <<items, seen, touched>>
    BY <2>1, <2>2, ItemsKept, SeenKept, TouchKept DEF ContentStep, OthersKept
  <2>3. CASE SetItem(t, k, "READ", StoreValue(k)) /\ See(t, k, StoreValue(k)) /\ TouchAll(t, {k})
    <3>1. /\ ItemsStep(items[t], items'[t], dirty'[t])
          /\ k \in DOMAIN items'[t] /\ items'[t][k] = Item("READ", StoreValue(k))
          /\ \A u \in Tx \ {t} : items'[u] = items[u]
      BY <2>1, <2>3, SetItemStep
    <3>2. items'[t][k].value = StoreValue(k) /\ {k} \subseteq DOMAIN items'[t]
      BY <3>1 DEF Item
    <3>3. /\ SeenStep(items[t], items'[t], seen[t], seen'[t], dirty'[t])
          /\ \A u \in Tx \ {t} : seen'[u] = seen[u]
      BY <2>1, <2>3, <3>1, <3>2, SeeStep
    <3>4. /\ TouchStep(items'[t], touched[t], touched'[t], BaseRev(t))
          /\ \A u \in Tx \ {t} : touched'[u] = touched[u]
      BY <2>3, <3>2, TouchAllStep
    <3> QED BY <2>1, <3>1, <3>3, <3>4 DEF ContentStep, OthersKept
  <2> QED BY <1>2, <2>2, <2>3 DEF ReadStore
<1> QED BY <1>1, <1>2 DEF Read

LEMMA WriteStep ==
    ASSUME TypeOK, NEW t \in Tx, NEW k, NEW a, NEW v, SetItem(t, k, a, v), TouchAll(t, {k}),
           k \notin DOMAIN items[t] \/ a \in {"UPSERT", "DELETE"},
           UNCHANGED <<ensures, seen>>, dirty[t] => dirty'[t],
           \A u \in Tx \ {t} : dirty'[u] = dirty[u]
    PROVE  ContentStep(t)
<1>1. /\ ItemsStep(items[t], items'[t], dirty'[t])
      /\ k \in DOMAIN items'[t] /\ \A u \in Tx \ {t} : items'[u] = items[u]
  BY SetItemStep
<1>2. {k} \subseteq DOMAIN items'[t]
  BY <1>1
<1>3. /\ TouchStep(items'[t], touched[t], touched'[t], BaseRev(t))
      /\ \A u \in Tx \ {t} : touched'[u] = touched[u]
  BY <1>2, TouchAllStep
<1> QED BY <1>1, <1>3, SeenKept DEF ContentStep, OthersKept

LEMMA UpsertStep ==
    ASSUME TypeOK, NEW t \in Tx, NEW k \in Key, NEW d \in Data, NEW f, Upsert(t, k, d, f)
    PROVE  ContentStep(t)
<1>1. UNCHANGED <<ensures, seen>>
  BY DEF Upsert
<1>2. (dirty[t] => dirty'[t]) /\ \A u \in Tx \ {t} : dirty'[u] = dirty[u]
  BY ContentDomains DEF Upsert, UpsertItem, UpsertStore
<1>3. \/ UNCHANGED <<items, touched>>
      \/ SetItem(t, k, "UPSERT", Own(d)) /\ TouchAll(t, {k})
      \/ k \notin DOMAIN items[t] /\ SetItem(t, k, "READ", m_data[k]) /\ TouchAll(t, {k})
  BY DEF Upsert, UpsertItem, UpsertStore
<1>4. CASE UNCHANGED <<items, touched>>
  BY <1>1, <1>2, <1>4, ItemsKept, SeenKept, TouchKept DEF ContentStep, OthersKept
<1>5. CASE SetItem(t, k, "UPSERT", Own(d)) /\ TouchAll(t, {k})
  BY <1>1, <1>2, <1>5, WriteStep
<1>6. CASE k \notin DOMAIN items[t] /\ SetItem(t, k, "READ", m_data[k]) /\ TouchAll(t, {k})
  BY <1>1, <1>2, <1>6, WriteStep
<1> QED BY <1>3, <1>4, <1>5, <1>6

LEMMA RemoveStep ==
    ASSUME TypeOK, NEW t \in Tx, NEW k \in Key, RemoveKey(t, k) PROVE ContentStep(t)
<1>1. UNCHANGED <<ensures, dirty, seen>> /\ SetItem(t, k, "DELETE", Null) /\ TouchAll(t, {k})
  BY DEF RemoveKey
<1> QED BY <1>1, WriteStep

LEMMA EnsureStep ==
    ASSUME TypeOK, NEW t \in Tx, NEW p, Ensure(t, p) PROVE ContentStep(t)
<1>1. UNCHANGED <<items, dirty, seen, touched>> /\ \A u \in Tx \ {t} : ensures'[u] = ensures[u]
  BY ContentDomains DEF Ensure
<1> QED BY <1>1, ItemsKept, SeenKept, TouchKept DEF ContentStep, OthersKept

(* for_each() over pattern p.                                              *)
LEMMA VisitedStep ==
    ASSUME TypeOK, NEW t \in Tx, NEW p \in SUBSET Key
    PROVE  LET v == VisitedItems(t, p) IN
           /\ \A k \in DOMAIN items[t] : /\ k \in DOMAIN v
                                         /\ v[k] = IF k \in p THEN VisitItem(items[t][k]) ELSE items[t][k]
           /\ \A k \in DOMAIN v \ DOMAIN items[t] : v[k] = Item("READ", m_data[k]) /\ k \in DOMAIN m_data
           /\ Pins(t) => \A k \in Listed(t, p) : k \in DOMAIN v
<1> DEFINE pinned == IF Pins(t) THEN (p \cap DOMAIN m_data) \ DOMAIN items[t] ELSE {}
           v == VisitedItems(t, p)
<1>1. v = [k \in DOMAIN items[t] \cup pinned |->
            IF k \in pinned THEN Item("READ", m_data[k])
            ELSE IF k \in p THEN VisitItem(items[t][k]) ELSE items[t][k]]
  BY DEF VisitedItems
<1>2. \A k \in DOMAIN items[t] : k \notin pinned
  OBVIOUS
<1>3. \A k \in pinned : k \in DOMAIN m_data
  OBVIOUS
<1>4. ASSUME Pins(t), NEW k \in Listed(t, p) PROVE k \in DOMAIN items[t] \cup pinned
  BY <1>4 DEF Listed, Visible, StoreValue
<1> HIDE DEF pinned
<1> QED BY <1>1, <1>2, <1>3, <1>4

LEMMA VisitItemIs ==
    ASSUME NEW it \in ItemRec
    PROVE  /\ VisitItem(it).value = it.value /\ (IsWrite(VisitItem(it)) <=> IsWrite(it))
           /\ it.action # "SNAPSHOT" => VisitItem(it) = it
BY DEF VisitItem, IsWrite, Item

LEMMA VisitSpoilsIs ==
    ASSUME TypeOK, NEW t \in Tx, NEW p, dirty' = [dirty EXCEPT ![t] = @ \/ VisitSpoils(t, p)]
    PROVE  /\ dirty[t] => dirty'[t]
           /\ \A k \in p \cap DOMAIN items[t] : items[t][k].action = "SNAPSHOT" => dirty'[t]
           /\ \A u \in Tx \ {t} : dirty'[u] = dirty[u]
<1>1. dirty'[t] = (dirty[t] \/ VisitSpoils(t, p)) /\ \A u \in Tx \ {t} : dirty'[u] = dirty[u]
  BY ContentDomains
<1> QED BY <1>1, Zenon DEF VisitSpoils

(* Some of the visited keys may have been removed.                         *)
LEMMA VisitStep ==
    ASSUME TypeOK, NEW t \in Tx, NEW p \in SUBSET Key, NEW ks \in SUBSET p,
           items'[t] = [k \in DOMAIN VisitedItems(t, p) \cup ks |->
                           IF k \in ks THEN Item("DELETE", Null) ELSE VisitedItems(t, p)[k]],
           \A k \in p \cap DOMAIN items[t] : items[t][k].action = "SNAPSHOT" => dirty'[t]
    PROVE  ItemsStep(items[t], items'[t], dirty'[t])
<1> DEFINE v == VisitedItems(t, p)
<1>1. \A k \in DOMAIN items[t] : /\ k \in DOMAIN v
                                 /\ v[k] = IF k \in p THEN VisitItem(items[t][k]) ELSE items[t][k]
  BY VisitedStep
<1>2. \A k \in DOMAIN items[t] : items[t][k] \in ItemRec
  BY DEF TypeOK, AreMaps, IsMap
<1> HIDE DEF v
<1>a. items'[t] = [k \in DOMAIN v \cup ks |-> IF k \in ks THEN Item("DELETE", Null) ELSE v[k]]
  BY DEF v
<1> SUFFICES ASSUME NEW k \in DOMAIN items[t]
             PROVE  /\ k \in DOMAIN items'[t]
                    /\ IsWrite(items[t][k]) => IsWrite(items'[t][k])
                    /\ IsWrite(items'[t][k]) \/ items'[t][k].value = items[t][k].value
                    /\ items[t][k].action = "SNAPSHOT" =>
                         items'[t][k].action = "SNAPSHOT" \/ IsWrite(items'[t][k]) \/ dirty'[t]
  BY DEF ItemsStep
<1>3. k \in DOMAIN items'[t] /\ items'[t][k] = IF k \in ks THEN Item("DELETE", Null) ELSE v[k]
  BY <1>1, <1>a
<1>4. CASE k \in ks
  <2>1. IsWrite(items'[t][k])
    BY <1>3, <1>4 DEF IsWrite, Item
  <2> QED BY <1>3, <2>1
<1>5. CASE k \in p /\ k \notin ks
  <2>1. items'[t][k] = VisitItem(items[t][k])
    BY <1>1, <1>3, <1>5
  <2> QED BY <1>2, <1>3, <1>5, <2>1, VisitItemIs
<1>6. CASE k \notin p
  <2>1. items'[t][k] = items[t][k]
    BY <1>1, <1>3, <1>6
  <2> QED BY <1>3, <2>1
<1> QED BY <1>4, <1>5, <1>6

LEMMA ForEachStep ==
    ASSUME TypeOK, NEW t \in Tx, NEW p \in SUBSET Key, ForEach(t, p) PROVE ContentStep(t)
<1> DEFINE v == VisitedItems(t, p)  new == {k \in Listed(t, p) : ~OwnWrite(t, k) /\ Pins(t)}
<1>0. /\ DOMAIN items = Tx /\ DOMAIN seen = Tx /\ DOMAIN touched = Tx
      /\ DOMAIN ensures = Tx /\ DOMAIN dirty = Tx
  BY ContentDomains
<1>1. items'[t] = v /\ (\A u \in Tx \ {t} : items'[u] = items[u]) /\ ensures' = ensures
  BY <1>0 DEF ForEach
<1>2. /\ dirty[t] => dirty'[t]
      /\ \A k \in p \cap DOMAIN items[t] : items[t][k].action = "SNAPSHOT" => dirty'[t]
      /\ \A u \in Tx \ {t} : dirty'[u] = dirty[u]
  BY VisitSpoilsIs DEF ForEach
<1>3. /\ \A k \in DOMAIN items[t] : /\ k \in DOMAIN v
                                    /\ v[k] = IF k \in p THEN VisitItem(items[t][k]) ELSE items[t][k]
      /\ \A k \in DOMAIN v \ DOMAIN items[t] : v[k] = Item("READ", m_data[k]) /\ k \in DOMAIN m_data
      /\ Pins(t) => \A k \in Listed(t, p) : k \in DOMAIN v
  BY VisitedStep
<1>4. ItemsStep(items[t], items'[t], dirty'[t])
  <2>1. {} \in SUBSET p
    OBVIOUS
  <2>2. v = [k \in DOMAIN v |-> v[k]]
    BY DEF VisitedItems
  <2>3. items'[t] = [k \in DOMAIN v \cup {} |-> IF k \in {} THEN Item("DELETE", Null) ELSE v[k]]
    <3> HIDE DEF v
    <3> QED BY <1>1, <2>2
  <2> QED BY <1>2, <2>1, <2>3, VisitStep
<1>5. TouchAll(t, new) /\ new \subseteq DOMAIN items'[t]
  <2>1. TouchAll(t, new)
    BY DEF ForEach
  <2> QED BY <1>1, <1>3, <2>1
<1>6. /\ TouchStep(items'[t], touched[t], touched'[t], BaseRev(t))
      /\ \A u \in Tx \ {t} : touched'[u] = touched[u]
  <2> HIDE DEF new
  <2> QED BY <1>5, TouchAllStep
<1>7. /\ seen'[t] = [k \in DOMAIN seen[t] \cup new |->
                        IF k \in DOMAIN seen[t] THEN seen[t][k] ELSE Visible(t, k)]
      /\ \A u \in Tx \ {t} : seen'[u] = seen[u]
  BY <1>0 DEF ForEach
<1>8. ASSUME NEW k \in new
      PROVE  /\ k \in DOMAIN items'[t] /\ Visible(t, k) = items'[t][k].value
             /\ k \in DOMAIN items[t] => /\ ~IsWrite(items[t][k])
                                         /\ items[t][k].action = "SNAPSHOT" => dirty'[t]
  <2>1. k \in p /\ ~OwnWrite(t, k) /\ k \in DOMAIN v /\ Visible(t, k) # Null
    BY <1>3 DEF Listed
  <2>2. CASE k \in DOMAIN items[t]
    <3>1. items[t][k] \in ItemRec
      BY <2>2 DEF TypeOK, AreMaps, IsMap
    <3>2. ~IsWrite(items[t][k]) /\ items[t][k].action # "DELETE"
      BY <2>1, <2>2 DEF OwnWrite, IsWrite
    <3>3. v[k].value = items[t][k].value
      BY <1>3, <2>1, <2>2, <3>1, VisitItemIs
    <3>4. Visible(t, k) = items[t][k].value
      BY <2>2, <3>2 DEF Visible
    <3> QED BY <1>1, <1>2, <2>1, <3>2, <3>3, <3>4
  <2>3. CASE k \notin DOMAIN items[t]
    <3>1. v[k] = Item("READ", m_data[k]) /\ k \in DOMAIN m_data
      BY <1>3, <2>1, <2>3
    <3>2. Visible(t, k) = m_data[k]
      BY <2>3, <3>1 DEF Visible, StoreValue
    <3>3. v[k].value = m_data[k]
      BY <3>1 DEF Item
    <3> QED BY <1>1, <2>1, <2>3, <3>2, <3>3
  <2> QED BY <2>2, <2>3
<1>9. SeenStep(items[t], items'[t], seen[t], seen'[t], dirty'[t])
  <2> HIDE DEF new
  <2>1. DOMAIN seen'[t] = DOMAIN seen[t] \cup new
        /\ \A k \in DOMAIN seen'[t] : seen'[t][k] = IF k \in DOMAIN seen[t] THEN seen[t][k] ELSE Visible(t, k)
    BY <1>7
  <2> QED BY <1>8, <2>1 DEF SeenStep
<1> QED BY <1>1, <1>2, <1>4, <1>6, <1>7, <1>9 DEF ContentStep, OthersKept

LEMMA RemovePatternStep ==
    ASSUME TypeOK, NEW t \in Tx, NEW p \in SUBSET Key, RemovePattern(t, p) PROVE ContentStep(t)
<1> DEFINE v == VisitedItems(t, p)
<1>0. /\ DOMAIN items = Tx /\ DOMAIN seen = Tx /\ DOMAIN touched = Tx
      /\ DOMAIN ensures = Tx /\ DOMAIN dirty = Tx
  BY ContentDomains
<1>1. PICK ks \in SUBSET {k \in Listed(t, p) : is_authorized({"DELETE"}, k)} :
        /\ items' = [items EXCEPT ![t] =
              [k \in DOMAIN v \cup ks |-> IF k \in ks THEN Item("DELETE", Null) ELSE v[k]]]
        /\ TouchAll(t, IF Pins(t) THEN Listed(t, p) ELSE ks)
  BY DEF RemovePattern
<1>2. ks \in SUBSET p /\ ks \subseteq Listed(t, p)
  BY DEF Listed
<1>3. /\ items'[t] = [k \in DOMAIN v \cup ks |-> IF k \in ks THEN Item("DELETE", Null) ELSE v[k]]
      /\ \A u \in Tx \ {t} : items'[u] = items[u]
  <2> HIDE DEF v
  <2> QED BY <1>0, <1>1
<1>4. UNCHANGED <<ensures, seen>>
  BY DEF RemovePattern
<1>5. /\ dirty[t] => dirty'[t]
      /\ \A k \in p \cap DOMAIN items[t] : items[t][k].action = "SNAPSHOT" => dirty'[t]
      /\ \A u \in Tx \ {t} : dirty'[u] = dirty[u]
  BY VisitSpoilsIs DEF RemovePattern
<1>6. ItemsStep(items[t], items'[t], dirty'[t])
  BY <1>2, <1>3, <1>5, VisitStep
<1> DEFINE ts == IF Pins(t) THEN Listed(t, p) ELSE ks
<1>7. ts \subseteq DOMAIN items'[t]
  <2>1. Pins(t) => Listed(t, p) \subseteq DOMAIN v
    BY VisitedStep
  <2> HIDE DEF v
  <2> QED BY <1>3, <2>1
<1>8. /\ TouchStep(items'[t], touched[t], touched'[t], BaseRev(t))
      /\ \A u \in Tx \ {t} : touched'[u] = touched[u]
  <2>1. TouchAll(t, ts)
    BY <1>1
  <2> HIDE DEF ts
  <2> QED BY <1>7, <2>1, TouchAllStep
<1> QED BY <1>3, <1>4, <1>5, <1>6, <1>8, SeenKept DEF ContentStep, OthersKept

LEMMA ContentOpStep ==
    ASSUME TypeInv, NEW t \in Tx, ContentOp(t) PROVE ContentStep(t)
<1>0. TypeOK /\ Pattern \subseteq SUBSET Key
  BY TxAssumption DEF TypeInv
<1>1. CASE \E k \in Key : RemoveKey(t, k)
  BY <1>0, <1>1, RemoveStep
<1>2. CASE \E k \in Key, e \in Ensuring : Read(t, k, e)
  BY <1>0, <1>2, ReadStep
<1>3. CASE \E k \in Key, d \in Data, f \in BOOLEAN : Upsert(t, k, d, f)
  BY <1>0, <1>3, UpsertStep
<1>4. CASE \E p \in Pattern : ForEach(t, p)
  BY <1>0, <1>4, ForEachStep
<1>5. CASE \E p \in Pattern : RemovePattern(t, p)
  BY <1>0, <1>5, RemovePatternStep
<1>6. CASE \E p \in Pattern : Ensure(t, p)
  BY <1>0, <1>6, EnsureStep
<1> QED BY <1>1, <1>2, <1>3, <1>4, <1>5, <1>6 DEF ContentOp

(* What the event loop does to the transaction it shows a commit to.       *)
LEMMA UpdateTxIs ==
    ASSUME TypeInv, UpdateTx
    PROVE  LET t == loop.tx  chg == loop.changes IN
           /\ t \in Tx /\ loop.pc = "update"
           /\ \A u \in Tx \ {t} : items'[u] = items[u] /\ dirty'[u] = dirty[u] /\ missed'[u] = missed[u]
           /\ \A k \in DOMAIN items[t] : k \in DOMAIN items'[t] /\ items'[t][k] = items[t][k]
           /\ \A k \in DOMAIN items'[t] \ DOMAIN items[t] : items'[t][k].action = "SNAPSHOT"
           /\ isolation[t] = "SERIALIZABLE" => DOMAIN chg \subseteq DOMAIN items'[t]
           /\ isolation[t] # "SERIALIZABLE" => items'[t] = items[t]
           /\ dirty[t] \/ DOMAIN chg \cap DOMAIN items[t] # {} => dirty'[t]
           /\ missed[t] \subseteq missed'[t] /\ (state[t] # "OPEN" => m_rev \in missed'[t])
           /\ state[t] = "OPEN" => missed' = missed
           /\ loop' = [loop EXCEPT !.pc = "visit", !.tx = Null]
<1> DEFINE t == loop.tx  chg == loop.changes
<1>0. /\ t \in Tx /\ loop.pc = "update" /\ loop' = [loop EXCEPT !.pc = "visit", !.tx = Null]
  BY DEF UpdateTx, TypeInv, TypeOK, LoopRec
<1>1. DOMAIN items = Tx /\ DOMAIN dirty = Tx /\ DOMAIN missed = Tx
  BY DEF TypeInv, TypeOK, AreMaps
<1>2. /\ items' = [items EXCEPT ![t] = UpdatedItems(t, chg)]
      /\ dirty' = [dirty EXCEPT ![t] = @ \/ Invalidates(t, chg)]
      /\ missed' = IF state[t] = "OPEN" THEN missed ELSE [missed EXCEPT ![t] = @ \cup {m_rev}]
  BY DEF UpdateTx
<1> HIDE DEF t, chg
<1>3. items'[t] = UpdatedItems(t, chg) /\ \A u \in Tx \ {t} : items'[u] = items[u]
  BY <1>0, <1>1, <1>2
<1>4. /\ \A k \in DOMAIN items[t] : k \in DOMAIN items'[t] /\ items'[t][k] = items[t][k]
      /\ \A k \in DOMAIN items'[t] \ DOMAIN items[t] : items'[t][k].action = "SNAPSHOT"
      /\ isolation[t] = "SERIALIZABLE" => DOMAIN chg \subseteq DOMAIN items'[t]
      /\ isolation[t] # "SERIALIZABLE" => items'[t] = items[t]
  BY <1>3 DEF UpdatedItems, UpdateSerializable, Item
<1>5. /\ dirty'[t] = (dirty[t] \/ Invalidates(t, chg))
      /\ \A u \in Tx \ {t} : dirty'[u] = dirty[u]
  BY <1>0, <1>1, <1>2
<1>6. DOMAIN chg \cap DOMAIN items[t] # {} => Invalidates(t, chg)
  BY DEF Invalidates
<1>7. /\ \A u \in Tx \ {t} : missed'[u] = missed[u]
      /\ missed[t] \subseteq missed'[t] /\ (state[t] # "OPEN" => m_rev \in missed'[t])
      /\ state[t] = "OPEN" => missed' = missed
  BY <1>0, <1>1, <1>2
<1>8. dirty[t] \/ DOMAIN chg \cap DOMAIN items[t] # {} => dirty'[t]
  BY <1>5, <1>6, Zenon
<1> QED BY <1>0, <1>3, <1>4, <1>5, <1>7, <1>8 DEF t, chg

-----------------------------------------------------------------------------
(* Transitions of a transaction's state.                                   *)
StateMove(u) ==
    /\ state'[u] = "NONE" => state[u] = "NONE"
    /\ state[u] \in Closed => state'[u] = state[u]
    /\ state'[u] = "OPEN" => state[u] \in {"NONE", "OPEN", "SUBMITTED"}
    /\ state'[u] = "SUBMITTED" => state[u] \in {"OPEN", "SUBMITTED"}
    /\ state'[u] = "ACCEPTED" => state[u] \in {"SUBMITTED", "ACCEPTED"}
    /\ state[u] = "NONE" /\ state'[u] = "OPEN" =>
            u \in m_transactions' /\ rev_creation'[u] = m_rev /\ m_rev' = m_rev

LEMMA StateStays == ASSUME NEW u, state'[u] = state[u] PROVE StateMove(u)
BY DEF StateMove

LEMMA StateMoves ==
    ASSUME TypeInv, SyncInv, [Next]_vars, NEW u \in Tx PROVE StateMove(u)
<1>0. state \in [Tx -> State]
  BY DEF TypeInv, TypeOK
<1>1. CASE UserStep
  <2>1. PICK t \in Tx : \/ ContentOp(t)
                        \/ \E level \in Levels[t] : CreateTx(t, level)
                        \/ Discard(t) \/ DropHandle(t)
                        \/ \E f \in Forcing : Submit(t, f)
    BY <1>1, UserSteps
  <2>2. CASE ContentOp(t) \/ DropHandle(t)
    BY <2>2, ContentOpFrame, StateStays DEF UserOp, DropHandle
  <2>3. CASE \E level \in Levels[t] : CreateTx(t, level)
    <3>1. state[t] = "NONE" /\ state' = [Destroyed(state) EXCEPT ![t] = "OPEN"]
      BY <2>3 DEF CreateTx
    <3>2. \/ state'[u] = "OPEN" /\ state[u] = "NONE"
          \/ state'[u] = state[u]
          \/ (state[u] \notin Closed /\ state'[u] = "DISCARDED")
      BY <1>0, <3>1 DEF Destroyed
    <3>3. t \in m_transactions' /\ rev_creation'[t] = m_rev /\ m_rev' = m_rev
      BY <2>3 DEF CreateTx, TypeInv, TypeOK
    <3>4. state[u] = "NONE" /\ state'[u] = "OPEN" => u = t
      BY <1>0, <3>1 DEF Destroyed
    <3> QED BY <3>2, <3>3, <3>4 DEF StateMove, Closed
  <2>4. CASE Discard(t)
    <3>1. state[t] \in {"OPEN", "SUBMITTED", "ACCEPTED"} /\ state' = [state EXCEPT ![t] = "DISCARDED"]
      BY <2>4 DEF Discard
    <3> QED BY <1>0, <3>1 DEF StateMove, Closed
  <2>5. CASE \E f \in Forcing : Submit(t, f)
    <3>1. PICK f \in Forcing : Submit(t, f)
      BY <2>5
    <3>2. state[t] = "OPEN" /\ state' = [state EXCEPT ![t] = SubmitOutcome(t, f).state]
      BY <3>1 DEF Submit
    <3>3. SubmitOutcome(t, f).state \in {"DISCARDED", "REJECTED", "SUBMITTED"}
      BY DEF SubmitOutcome
    <3> QED BY <1>0, <3>2, <3>3 DEF StateMove, Closed
  <2> QED BY <2>1, <2>2, <2>3, <2>4, <2>5
<1>2. CASE LockTransactions \/ UpdateTx \/ \E t \in Tx : VisitTx(t)
  BY <1>2, LoopBusy, StateStays
<1>3. CASE ProcessUpdate \/ ServerStep \/ Reconnected \/ UNCHANGED vars
  <2>1. state' = state
    BY <1>3 DEF ProcessUpdate, ServerStep, ServerSubmit, ServerCommit, ServerPush, Reconnected, vars, txvars
  <2> QED BY <2>1, StateStays
<1>4. CASE ConfirmCommit
  <2> DEFINE t == Head(m_accepted).tx  mine == Confirmed /\ state[t] = "ACCEPTED"
             purged == IF loop.purge THEN Destroyed(state) ELSE state
  <2>1. state' = IF mine THEN [purged EXCEPT ![t] = "COMMITTED"] ELSE purged
    BY <1>4 DEF ConfirmCommit
  <2>2. purged[u] = state[u] \/ (state[u] \notin Closed /\ purged[u] = "DISCARDED")
    BY DEF Destroyed
  <2>3. purged \in [Tx -> State]
    BY <1>0 DEF Destroyed, State, Closed
  <2>4. state'[u] = purged[u] \/ (state[u] = "ACCEPTED" /\ state'[u] = "COMMITTED")
    <3> HIDE DEF purged
    <3> QED BY <2>1, <2>3
  <2> HIDE DEF purged
  <2> QED BY <2>2, <2>4 DEF StateMove, Closed
<1>5. CASE ProcessSubmitCmd \/ ConnectionClosed
  <2>1. state' = state \/ \E ts : Abort(ts)
    <3>1. CASE ConnectionClosed
      BY <3>1 DEF ConnectionClosed
    <3>2. CASE ProcessSubmitCmd
      BY <3>2, ProcessSubmitCmdIs
    <3> QED BY <1>5, <3>1, <3>2
  <2>2. state'[u] = state[u] \/ (state[u] = "SUBMITTED" /\ state'[u] = "ABORTED")
    BY <2>1 DEF Abort
  <2> QED BY <2>2 DEF StateMove, Closed
<1>6. CASE ProcessSubmitResp
  <2> DEFINE t == m_requests[1].tx  code == toClient[1].code
  <2>1. \/ state[t] = "SUBMITTED" /\ state' = [state EXCEPT ![t] = SubmitResult(code).state]
        \/ state' = state
    BY <1>6, ProcessSubmitRespIs, Zenon
  <2>2. SubmitResult(code).state \in {"ACCEPTED", "OPEN", "DISCARDED", "REJECTED"}
    BY DEF SubmitResult
  <2> HIDE DEF t, code
  <2>3. state'[u] = state[u] \/ (state[u] = "SUBMITTED" /\ state'[u] = SubmitResult(code).state)
    BY <1>0, <2>1
  <2> QED BY <2>2, <2>3 DEF StateMove, Closed
<1> QED BY <1>1, <1>2, <1>3, <1>4, <1>5, <1>6 DEF Next, LoopStep

-----------------------------------------------------------------------------
(* Repeatable reads: every value shown is that of an entry, until the      *)
(* transaction writes the key.  A transaction that is not created yet      *)
(* holds nothing and the event loop does not know it.                      *)
Kept(its, sn) ==
    \A k \in DOMAIN sn : k \in DOMAIN its /\ (IsWrite(its[k]) \/ its[k].value = sn[k])
Fresh(t) ==
    /\ DOMAIN items[t] = {} /\ DOMAIN seen[t] = {} /\ DOMAIN touched[t] = {}
    /\ t \notin m_transactions /\ t \notin loop.todo /\ t # loop.tx
ReadsInv ==
    \A t \in Tx : (state[t] = "NONE" => Fresh(t)) /\ (Pins(t) => Kept(items[t], seen[t]))

LEMMA InitReads == ASSUME Init PROVE ReadsInv
<1> SUFFICES ASSUME NEW t \in Tx PROVE Fresh(t) /\ Kept(items[t], seen[t])
  BY DEF ReadsInv
<1>1. items[t] = EmptyMap /\ seen[t] = EmptyMap /\ touched[t] = EmptyMap /\ DOMAIN EmptyMap = {}
  BY DEF Init, EmptyMap
<1>2. m_transactions = {} /\ loop.todo = {} /\ loop.tx = Null
  BY DEF Init, Idle
<1>3. t # Null
  BY TxAssumption
<1> QED BY <1>1, <1>2, <1>3 DEF Fresh, Kept

LEMMA ReadsFrame ==
    ASSUME ReadsInv, UNCHANGED <<items, seen, touched, isolation>>,
           m_transactions' \subseteq m_transactions,
           loop'.todo \subseteq loop.todo \cup m_transactions,
           loop'.tx \in {Null, loop.tx} \cup loop.todo,
           \A u \in Tx : StateMove(u)
    PROVE  ReadsInv'
<1>1. Null \notin Tx
  BY TxAssumption
<1> SUFFICES ASSUME NEW t \in Tx
             PROVE  (state'[t] = "NONE" => Fresh(t)') /\ (Pins(t)' => Kept(items[t], seen[t])')
  BY DEF ReadsInv
<1>2. ASSUME state'[t] = "NONE" PROVE Fresh(t)'
  <2>1. Fresh(t)
    BY <1>2 DEF StateMove, ReadsInv
  <2> QED BY <1>1, <2>1 DEF Fresh
<1>3. ASSUME Pins(t)' PROVE Kept(items[t], seen[t])'
  <2>1. Kept(items[t], seen[t])
    BY <1>3 DEF Pins, ReadsInv
  <2> QED BY <2>1 DEF Kept
<1> QED BY <1>2, <1>3

LEMMA ContentOpReads ==
    ASSUME TypeInv, ReadsInv, NEW t \in Tx, ContentOp(t) PROVE ReadsInv'
<1>1. ContentStep(t) /\ UserOp(t)
  BY ContentOpStep, ContentOpFrame
<1>2. state[t] = "OPEN" /\ UNCHANGED <<state, isolation, loop, m_transactions>>
  BY <1>1 DEF UserOp, client, created
<1> SUFFICES ASSUME NEW u \in Tx
             PROVE  (state'[u] = "NONE" => Fresh(u)') /\ (Pins(u)' => Kept(items[u], seen[u])')
  BY DEF ReadsInv
<1>3. CASE u # t
  <2>1. items'[u] = items[u] /\ seen'[u] = seen[u] /\ touched'[u] = touched[u]
    BY <1>1, <1>3 DEF ContentStep, OthersKept
  <2>2. ASSUME state'[u] = "NONE" PROVE Fresh(u)'
    BY <1>2, <2>1, <2>2 DEF ReadsInv, Fresh
  <2>3. ASSUME Pins(u)' PROVE Kept(items[u], seen[u])'
    <3>1. Kept(items[u], seen[u])
      BY <1>2, <2>3 DEF Pins, ReadsInv
    <3> QED BY <2>1, <3>1 DEF Kept
  <2> QED BY <2>2, <2>3
<1>4. CASE u = t
  <2>1. state'[u] # "NONE"
    BY <1>2, <1>4
  <2>2. ASSUME Pins(u)' PROVE Kept(items'[u], seen'[u])
    <3>1. Kept(items[u], seen[u])
      BY <1>2, <2>2 DEF Pins, ReadsInv
    <3>2. ItemsStep(items[u], items'[u], dirty'[u]) /\ SeenStep(items[u], items'[u], seen[u], seen'[u], dirty'[u])
      BY <1>1, <1>4 DEF ContentStep
    <3> QED BY <3>1, <3>2 DEF Kept, ItemsStep, SeenStep
  <2> QED BY <2>1, <2>2
<1> QED BY <1>3, <1>4

LEMMA CreateTxReads ==
    ASSUME TypeInv, SyncInv, ReadsInv, NEW t \in Tx, NEW level \in Levels[t], CreateTx(t, level),
           \A u \in Tx : StateMove(u)
    PROVE  ReadsInv'
<1>1. /\ state[t] = "NONE" /\ state'[t] = "OPEN"
      /\ UNCHANGED <<items, seen, touched, loop>>
      /\ m_transactions' = (m_transactions \ Unused) \cup {t}
      /\ isolation' = [isolation EXCEPT ![t] = level]
  BY DEF CreateTx, content, TypeInv, TypeOK, Destroyed
<1> SUFFICES ASSUME NEW u \in Tx
             PROVE  (state'[u] = "NONE" => Fresh(u)') /\ (Pins(u)' => Kept(items[u], seen[u])')
  BY DEF ReadsInv
<1>2. CASE u # t
  <2>1. isolation'[u] = isolation[u]
    BY <1>1, <1>2 DEF TypeInv, TypeOK
  <2>2. ASSUME state'[u] = "NONE" PROVE Fresh(u)'
    <3>1. Fresh(u)
      BY <2>2 DEF StateMove, ReadsInv
    <3> QED BY <1>1, <1>2, <3>1 DEF Fresh
  <2>3. ASSUME Pins(u)' PROVE Kept(items[u], seen[u])'
    <3>1. Kept(items[u], seen[u])
      BY <2>1, <2>3 DEF Pins, ReadsInv
    <3> QED BY <1>1, <3>1 DEF Kept
  <2> QED BY <2>2, <2>3
<1>3. CASE u = t
  <2>1. DOMAIN seen'[u] = {}
    BY <1>1, <1>3 DEF ReadsInv, Fresh
  <2>2. Kept(items'[u], seen'[u])
    BY <2>1 DEF Kept
  <2> QED BY <1>1, <1>3, <2>2
<1> QED BY <1>2, <1>3

LEMMA UpdateTxReads ==
    ASSUME TypeInv, ReadsInv, UpdateTx PROVE ReadsInv'
<1> DEFINE t == loop.tx
<1>0. t \in Tx /\ loop' = [loop EXCEPT !.pc = "visit", !.tx = Null]
      /\ (\A u \in Tx \ {t} : items'[u] = items[u])
      /\ (\A k \in DOMAIN items[t] : k \in DOMAIN items'[t] /\ items'[t][k] = items[t][k])
  BY UpdateTxIs
<1>1. loop'.todo = loop.todo /\ loop'.tx = Null /\ Null \notin Tx
  BY <1>0, TxAssumption DEF TypeInv, TypeOK, LoopRec
<1>2. UNCHANGED <<seen, touched, state, isolation, m_transactions>>
  BY DEF UpdateTx, created
<1> SUFFICES ASSUME NEW u \in Tx
             PROVE  (state'[u] = "NONE" => Fresh(u)') /\ (Pins(u)' => Kept(items[u], seen[u])')
  BY DEF ReadsInv
<1>3. ASSUME state'[u] = "NONE" PROVE Fresh(u)'
  <2>1. Fresh(u)
    BY <1>2, <1>3 DEF ReadsInv
  <2>2. items'[u] = items[u]
    BY <1>0, <2>1 DEF Fresh
  <2> QED BY <1>1, <1>2, <2>1, <2>2 DEF Fresh
<1>4. ASSUME Pins(u)' PROVE Kept(items'[u], seen'[u])
  <2>1. Kept(items[u], seen[u])
    BY <1>2, <1>4 DEF Pins, ReadsInv
  <2>2. \A k \in DOMAIN items[u] : k \in DOMAIN items'[u] /\ items'[u][k] = items[u][k]
    BY <1>0
  <2> QED BY <1>2, <2>1, <2>2 DEF Kept
<1> QED BY <1>3, <1>4

LEMMA NextReads == ASSUME TypeInv, SyncInv, ReadsInv, [Next]_vars PROVE ReadsInv'
<1>0. \A u \in Tx : StateMove(u)
  BY StateMoves
<1>f. ASSUME UNCHANGED <<items, seen, touched, isolation, m_transactions, loop>> PROVE ReadsInv'
  BY <1>0, <1>f, ReadsFrame
<1>1. CASE UserStep
  <2>1. PICK t \in Tx : \/ ContentOp(t)
                        \/ \E level \in Levels[t] : CreateTx(t, level)
                        \/ Discard(t) \/ DropHandle(t)
                        \/ \E f \in Forcing : Submit(t, f)
    BY <1>1, UserSteps
  <2>2. CASE ContentOp(t)
    BY <2>2, ContentOpReads
  <2>3. CASE \E level \in Levels[t] : CreateTx(t, level)
    BY <1>0, <2>3, CreateTxReads
  <2>4. CASE Discard(t) \/ DropHandle(t)
    BY <1>f, <2>4 DEF Discard, DropHandle, content, client, created
  <2>5. CASE \E f \in Forcing : Submit(t, f)
    BY <1>f, <2>5 DEF Submit, content, created
  <2> QED BY <2>1, <2>2, <2>3, <2>4, <2>5
<1>2. CASE LockTransactions
  <2>1. UNCHANGED <<items, seen, touched, isolation, m_transactions>>
    BY <1>2 DEF LockTransactions, txvars, content, created
  <2>2. loop'.todo = m_transactions /\ loop'.tx = loop.tx
    BY <1>2 DEF LockTransactions, TypeInv, TypeOK, LoopRec
  <2> QED BY <1>0, <2>1, <2>2, ReadsFrame
<1>3. CASE \E t \in Tx : VisitTx(t)
  <2>1. PICK t \in Tx : VisitTx(t)
    BY <1>3
  <2>2. UNCHANGED <<items, seen, touched, isolation, m_transactions>>
    BY <2>1 DEF VisitTx, content, created
  <2>3. loop'.todo \subseteq loop.todo /\ loop'.tx \in {loop.tx, t} /\ t \in loop.todo
    <3>1. t \in loop.todo /\ (VisitOpen(t) \/ VisitOther(t))
      BY <2>1 DEF VisitTx
    <3>2. loop \in LoopRec(loop.changes)
      BY Zenon DEF TypeInv, TypeOK
    <3>3. CASE VisitOpen(t)
      BY <3>1, <3>2, <3>3 DEF VisitOpen, LoopRec
    <3>4. CASE VisitOther(t)
      BY <3>1, <3>2, <3>4 DEF VisitOther, LoopRec
    <3> QED BY <3>1, <3>3, <3>4
  <2> QED BY <1>0, <2>2, <2>3, ReadsFrame
<1>4. CASE UpdateTx
  BY <1>4, UpdateTxReads
<1>5. CASE ProcessUpdate \/ ConfirmCommit
  <2>1. UNCHANGED <<items, seen, touched, isolation>> /\ m_transactions' \subseteq m_transactions
    BY <1>5 DEF ProcessUpdate, ConfirmCommit, txvars, content, created
  <2>2. loop' = Idle \/ \E c : loop' = [Idle EXCEPT !.pc = "updated", !.changes = c]
    BY <1>5 DEF ProcessUpdate, ConfirmCommit
  <2>3. loop'.todo = {} /\ loop'.tx = Null
    <3>1. CASE loop' = Idle
      BY <3>1 DEF Idle
    <3>2. ASSUME NEW c, loop' = [Idle EXCEPT !.pc = "updated", !.changes = c]
          PROVE  loop'.todo = {} /\ loop'.tx = Null
      BY <3>2 DEF Idle
    <3> QED BY <2>2, <3>1, <3>2
  <2> QED BY <1>0, <2>1, <2>3, ReadsFrame
<1>6. CASE ProcessSubmitCmd \/ ProcessSubmitResp \/ ConnectionClosed \/ Reconnected
  BY <1>f, <1>6 DEF ProcessSubmitCmd, ProcessSubmitResp, ConnectionClosed, Reconnected,
                    txvars, content, created
<1>7. CASE ServerStep \/ UNCHANGED vars
  BY <1>f, <1>7 DEF ServerStep, ServerSubmit, ServerCommit, ServerPush, vars, client, txvars, content, created
<1> QED BY <1>1, <1>2, <1>3, <1>4, <1>5, <1>6, <1>7 DEF Next, LoopStep

(* The inductive form of RepeatableReads: what read() and for_each() have  *)
(* shown is the value of an entry that stays in m_items until the          *)
(* transaction writes the key.                                             *)
THEOREM IsolationReadsInv == Spec => []ReadsInv
<1>1. Init => ReadsInv
  BY InitReads
<1>2. TypeInv /\ SyncInv /\ ReadsInv /\ [Next]_vars => ReadsInv'
  BY NextReads
<1> QED BY <1>1, <1>2, TransactionsSync, PTL DEF Spec

(* RepeatableReads: under REPEATABLE_READ and SERIALIZABLE, what read()    *)
(* and for_each() once showed for a key stays what the transaction shows   *)
(* until it writes the key, whatever the others commit and whatever        *)
(* happens to the connection.                                              *)
THEOREM IsolationRepeatableReads == Spec => []RepeatableReads
<1>1. ReadsInv => RepeatableReads
  BY DEF ReadsInv, Kept, RepeatableReads, OwnWrite, IsWrite
<1> QED BY <1>1, IsolationReadsInv, PTL

-----------------------------------------------------------------------------
(* The way of a transaction to the server and back.  It is queued, on the  *)
(* wire or answered at most once at a time, and until it is accepted the   *)
(* database has nothing of it.                                             *)
InQueue(q, t) == \E i \in 1 .. Len(q) : q[i].tx = t
Once(q) == \A i, j \in 1 .. Len(q) : q[i].tx = q[j].tx => i = j
NoCommit(lg, t) == \A i \in 1 .. Len(lg) : lg[i].by # t
Refused(reqs, subs, lg) ==
    \A i \in 1 .. Len(subs) : subs[i].code # "ACCEPTED" => NoCommit(lg, reqs[i].tx)
Unsent == {"NONE", "OPEN"}
Denied == {"none", "REJECTED", "TRY_LATER", "NO_MODIFICATIONS"}
Free(t) == ~InQueue(m_commands, t) /\ ~InQueue(m_requests, t) /\ NoCommit(log, t)

Queues ==
    /\ Once(m_commands) /\ Once(m_requests) /\ Refused(m_requests, Subs, log)
    /\ \A t \in Tx : /\ InQueue(m_commands, t) => ~InQueue(m_requests, t) /\ NoCommit(log, t)
                     /\ state[t] \in Unsent \/ future[t] \in Denied => Free(t)

(* A request carries the writes of its transaction, and for SERIALIZABLE   *)
(* its ensured keys and the revision it was created at.                    *)
RequestSound(q, writes, ens, serial, rev) ==
    Keys(q) = writes /\ (serial => q.crev = rev /\ q.ensures = ens)
Requests ==
    \A i \in 1 .. Len(toServer), t \in Tx : toServer[i].tx = t =>
        /\ NoCommit(log, t)
        /\ RequestSound(toServer[i], WritesOf(t), ensures[t], isolation[t] = "SERIALIZABLE",
                        rev_creation[t])

(* So does a commit, and for SERIALIZABLE nobody got in between.           *)
CommitSound(lg, i, writes, ens, serial, rev) ==
    /\ Keys(lg[i]) = writes
    /\ serial => \A j \in rev + 1 .. i - 1 :
                    /\ Keys(lg[j]) \cap ens = {}
                    /\ ~lg[i].forced => Keys(lg[j]) \cap Keys(lg[i]) = {}
Commits ==
    \A i \in 1 .. Len(log), t \in Tx : log[i].by = t =>
        CommitSound(log, i, WritesOf(t), ensures[t], isolation[t] = "SERIALIZABLE", rev_creation[t])

(* A confirmed transaction is in the database and in its copy.             *)
Told == \A t \in Tx : future[t] = "COMMITTED" =>
            \E i \in 1 .. Len(log) : log[i].by = t /\ i <= m_rev

TokensInv == Queues /\ Requests /\ Commits /\ Told

LEMMA EmptyQueues ==
    ASSUME NEW lg PROVE (\A t : ~InQueue(<<>>, t)) /\ Once(<<>>) /\ Refused(<<>>, <<>>, lg)
<1>1. Len(<<>>) = 0
  OBVIOUS
<1>2. \A t : ~InQueue(<<>>, t)
  BY <1>1 DEF InQueue
<1>3. Once(<<>>) /\ Refused(<<>>, <<>>, lg)
  BY <1>1 DEF Once, Refused
<1> QED BY <1>2, <1>3

LEMMA InitTokens == ASSUME Init PROVE TokensInv
<1>1. /\ toServer = <<>> /\ m_requests = <<>> /\ m_commands = <<>> /\ toClient = <<>>
      /\ log = <<Commit(Other, Null, FALSE, InitialData, {})>>
  BY DEF Init
<1>2. Subs = <<>> /\ Len(<<>>) = 0
  BY <1>1, OfTypeEmpty DEF Subs
<1>3. Len(log) = 1 /\ log[1].by = Null /\ Null \notin Tx
  BY <1>1, TxAssumption DEF Commit
<1>4. \A i \in 1 .. Len(log) : log[i].by \notin Tx
  BY <1>3
<1>5. \A t \in Tx : Free(t)
  BY <1>1, <1>4, EmptyQueues DEF Free, NoCommit
<1>6. Queues
  BY <1>1, <1>2, <1>5, EmptyQueues DEF Queues
<1>7. Requests
  BY <1>1, <1>2 DEF Requests
<1>8. Commits
  BY <1>4 DEF Commits
<1>9. Told
  BY DEF Init, Told
<1> QED BY <1>6, <1>7, <1>8, <1>9 DEF TokensInv

(* Once a transaction is submitted, what it sends does not change.         *)
Frozen(u) ==
    /\ WritesOf(u)' = WritesOf(u) /\ ensures'[u] = ensures[u]
    /\ isolation'[u] = isolation[u] /\ rev_creation'[u] = rev_creation[u]

LEMMA FrozenStep ==
    ASSUME TypeInv, [Next]_vars, NEW u \in Tx, state[u] \notin Unsent PROVE Frozen(u)
<1>f. ASSUME items'[u] = items[u], ensures'[u] = ensures[u], UNCHANGED created PROVE Frozen(u)
  BY <1>f DEF Frozen, WritesOf, OwnWrite, created
<1>1. CASE UserStep
  <2>1. PICK t \in Tx : \/ ContentOp(t)
                        \/ \E level \in Levels[t] : CreateTx(t, level)
                        \/ Discard(t) \/ DropHandle(t)
                        \/ \E f \in Forcing : Submit(t, f)
    BY <1>1, UserSteps
  <2>2. CASE ContentOp(t)
    <3>1. state[t] = "OPEN" /\ UNCHANGED created /\ ContentStep(t)
      BY <2>2, ContentOpFrame, ContentOpStep DEF UserOp
    <3>2. u \in Tx \ {t}
      BY <3>1 DEF Unsent
    <3> QED BY <1>f, <3>1, <3>2 DEF ContentStep, OthersKept
  <2>3. CASE \E level \in Levels[t] : CreateTx(t, level)
    <3>1. PICK level \in Levels[t] : CreateTx(t, level)
      BY <2>3
    <3>2. u # t /\ UNCHANGED <<items, ensures>>
      BY <3>1 DEF CreateTx, Unsent, content
    <3>3. isolation'[u] = isolation[u] /\ rev_creation'[u] = rev_creation[u]
      BY <3>1, <3>2 DEF CreateTx, TypeInv, TypeOK
    <3> QED BY <3>2, <3>3 DEF Frozen, WritesOf, OwnWrite
  <2>4. CASE Discard(t) \/ DropHandle(t)
    BY <1>f, <2>4 DEF Discard, DropHandle, content
  <2>5. CASE \E f \in Forcing : Submit(t, f)
    BY <1>f, <2>5 DEF Submit, content
  <2> QED BY <2>1, <2>2, <2>3, <2>4, <2>5
<1>2. CASE UpdateTx
  <2> DEFINE t == loop.tx
  <2>1. /\ \A v \in Tx \ {t} : items'[v] = items[v]
        /\ \A k \in DOMAIN items[t] : k \in DOMAIN items'[t] /\ items'[t][k] = items[t][k]
        /\ \A k \in DOMAIN items'[t] \ DOMAIN items[t] : items'[t][k].action = "SNAPSHOT"
    BY <1>2, UpdateTxIs
  <2>2. UNCHANGED <<ensures, created>>
    BY <1>2 DEF UpdateTx
  <2>3. CASE u # t
    BY <1>f, <2>1, <2>2, <2>3
  <2>4. CASE u = t
    <3>1. WritesOf(u)' = WritesOf(u)
      BY <2>1, <2>4 DEF WritesOf, OwnWrite
    <3> QED BY <2>2, <3>1 DEF Frozen, created
  <2> QED BY <2>3, <2>4
<1>3. CASE LockTransactions \/ ProcessUpdate \/ ConfirmCommit \/ ProcessSubmitCmd \/ ProcessSubmitResp
           \/ \E t \in Tx : VisitTx(t)
  BY <1>f, <1>3 DEF LockTransactions, ProcessUpdate, ConfirmCommit, ProcessSubmitCmd,
                    ProcessSubmitResp, VisitTx, txvars, content
<1>4. CASE ServerStep \/ ConnectionClosed \/ Reconnected \/ UNCHANGED vars
  BY <1>f, <1>4 DEF ServerStep, ServerSubmit, ServerCommit, ServerPush, ConnectionClosed, Reconnected,
                    vars, txvars, content
<1> QED BY <1>1, <1>2, <1>3, <1>4 DEF Next, LoopStep

(* How the log grows.                                                      *)
NewCommit(c) == log' = Append(log, c)
LEMMA LogStep ==
    ASSUME TypeInv, SyncInv, [Next]_vars
    PROVE  /\ Extends(log', log) /\ m_rev' \in Nat /\ m_rev' >= m_rev
           /\ ServerSubmit \/ ServerCommit \/ log' = log
<1>0. log \in Seq(CommitRec) /\ m_rev \in Nat /\ toClient \in Seq(ClientMsg)
  BY SyncTypes
<1>1. CASE ServerSubmit \/ ServerCommit
  <2>1. \E c : NewCommit(c) \/ log' = log
    BY <1>1 DEF ServerSubmit, ServerCommit, NewCommit
  <2>2. Extends(log', log)
    BY <1>0, <2>1 DEF Extends, NewCommit
  <2>3. m_rev' = m_rev
    BY <1>1 DEF ServerSubmit, ServerCommit, client
  <2> QED BY <1>0, <1>1, <2>2, <2>3
<1>2. CASE ProcessUpdate
  <2>1. log' = log /\ m_rev' > m_rev /\ m_rev' = Head(toClient).rev /\ toClient # <<>>
    BY <1>2 DEF ProcessUpdate
  <2>2. Head(toClient) \in ClientMsg
    BY <1>0, <2>1, TailIs
  <2>3. m_rev' \in Nat
    BY <2>1, <2>2, MessageFields
  <2> QED BY <1>0, <2>1, <2>3 DEF Extends
<1>3. CASE log' = log /\ m_rev' = m_rev
  BY <1>0, <1>3 DEF Extends
<1>4. CASE UserStep
  <2>1. PICK t \in Tx : \/ ContentOp(t)
                        \/ \E level \in Levels[t] : CreateTx(t, level)
                        \/ Discard(t) \/ DropHandle(t)
                        \/ \E f \in Forcing : Submit(t, f)
    BY <1>4, UserSteps
  <2>2. log' = log /\ m_rev' = m_rev
    BY <2>1, ContentOpFrame DEF UserOp, CreateTx, Discard, DropHandle, Submit, server, client
  <2> QED BY <1>3, <2>2
<1>5. CASE LockTransactions \/ UpdateTx \/ \E t \in Tx : VisitTx(t)
  BY <1>3, <1>5, LoopBusy DEF server
<1>6. CASE ConfirmCommit \/ ProcessSubmitCmd \/ ProcessSubmitResp \/ ConnectionClosed \/ Reconnected
           \/ ServerPush \/ UNCHANGED vars
  BY <1>3, <1>6 DEF ConfirmCommit, ProcessSubmitCmd, ProcessSubmitResp, ConnectionClosed, Reconnected,
                    ServerPush, vars, server, client
<1> QED BY <1>1, <1>2, <1>4, <1>5, <1>6 DEF Next, LoopStep, ServerStep

(* Queues of requests.                                                     *)
LEMMA QueueAppend ==
    ASSUME NEW S, NEW q \in Seq(S), NEW x \in S
    PROVE  /\ \A t : InQueue(Append(q, x), t) <=> InQueue(q, t) \/ x.tx = t
           /\ Once(q) /\ ~InQueue(q, x.tx) => Once(Append(q, x))
<1> DEFINE p == Append(q, x)
<1>1. /\ Len(p) = Len(q) + 1 /\ Len(q) \in Nat /\ p[Len(q) + 1] = x
      /\ \A i \in 1 .. Len(q) : p[i] = q[i]
      /\ \A i \in 1 .. Len(p) : i \in 1 .. Len(q) \/ i = Len(q) + 1
  BY AppendIs
<1> HIDE DEF p
<1>2. \A i \in 1 .. Len(q) : i \in 1 .. Len(p)
  BY <1>1
<1>3. Len(q) + 1 \in 1 .. Len(p)
  BY <1>1
<1>4. ASSUME NEW t PROVE InQueue(p, t) <=> InQueue(q, t) \/ x.tx = t
  <2>1. ASSUME InQueue(p, t) PROVE InQueue(q, t) \/ x.tx = t
    BY <1>1, <2>1 DEF InQueue
  <2>2. ASSUME InQueue(q, t) PROVE InQueue(p, t)
    BY <1>1, <1>2, <2>2 DEF InQueue
  <2>3. ASSUME x.tx = t PROVE InQueue(p, t)
    BY <1>1, <1>3, <2>3 DEF InQueue
  <2> QED BY <2>1, <2>2, <2>3
<1>5. ASSUME Once(q), ~InQueue(q, x.tx) PROVE Once(p)
  <2> SUFFICES ASSUME NEW i \in 1 .. Len(p), NEW j \in 1 .. Len(p), p[i].tx = p[j].tx PROVE i = j
    BY DEF Once
  <2>1. CASE i \in 1 .. Len(q) /\ j \in 1 .. Len(q)
    BY <1>1, <1>5, <2>1 DEF Once
  <2>2. CASE i \in 1 .. Len(q) /\ j = Len(q) + 1
    BY <1>1, <1>5, <2>2 DEF InQueue
  <2>3. CASE i = Len(q) + 1 /\ j \in 1 .. Len(q)
    <3>1. q[j].tx = x.tx
      BY <1>1, <2>3
    <3> QED BY <1>5, <2>3, <3>1 DEF InQueue
  <2> QED BY <1>1, <2>1, <2>2, <2>3
<1> QED BY <1>4, <1>5 DEF p

LEMMA QueueTail ==
    ASSUME NEW S, NEW q \in Seq(S), q # <<>>, Once(q)
    PROVE  /\ \A t : InQueue(Tail(q), t) => InQueue(q, t)
           /\ InQueue(q, q[1].tx) /\ ~InQueue(Tail(q), q[1].tx) /\ Once(Tail(q))
<1> DEFINE p == Tail(q)
<1>1. /\ Len(p) = Len(q) - 1 /\ Len(q) \in Nat /\ 1 \in 1 .. Len(q)
      /\ \A i \in 1 .. Len(p) : i + 1 \in 1 .. Len(q) /\ p[i] = q[i + 1]
  BY TailIs
<1> HIDE DEF p
<1>2. \A t : InQueue(p, t) => InQueue(q, t)
  BY <1>1 DEF InQueue
<1>3. InQueue(q, q[1].tx)
  BY <1>1 DEF InQueue
<1>4. ASSUME InQueue(p, q[1].tx) PROVE FALSE
  <2>1. PICK i \in 1 .. Len(p) : p[i].tx = q[1].tx
    BY <1>4 DEF InQueue
  <2>2. i + 1 = 1
    BY <1>1, <2>1 DEF Once
  <2> QED BY <1>1, <2>2
<1>5. Once(p)
  <2> SUFFICES ASSUME NEW i \in 1 .. Len(p), NEW j \in 1 .. Len(p), p[i].tx = p[j].tx PROVE i = j
    BY DEF Once
  <2>1. i + 1 = j + 1
    BY <1>1 DEF Once
  <2> QED BY <1>1, <2>1
<1> QED BY <1>2, <1>3, <1>4, <1>5 DEF p

LEMMA NoCommitAppend ==
    ASSUME NEW lg \in Seq(CommitRec), NEW c \in CommitRec, NEW t
    PROVE  NoCommit(Append(lg, c), t) <=> NoCommit(lg, t) /\ c.by # t
<1> DEFINE p == Append(lg, c)
<1>1. /\ Len(p) = Len(lg) + 1 /\ Len(lg) \in Nat /\ p[Len(lg) + 1] = c
      /\ \A i \in 1 .. Len(lg) : p[i] = lg[i]
      /\ \A i \in 1 .. Len(p) : i \in 1 .. Len(lg) \/ i = Len(lg) + 1
  BY AppendIs
<1> HIDE DEF p
<1>2. Len(lg) + 1 \in 1 .. Len(p) /\ \A i \in 1 .. Len(lg) : i \in 1 .. Len(p)
  BY <1>1
<1>3. NoCommit(p, t) => NoCommit(lg, t) /\ c.by # t
  BY <1>1, <1>2 DEF NoCommit
<1>4. NoCommit(lg, t) /\ c.by # t => NoCommit(p, t)
  BY <1>1 DEF NoCommit
<1> QED BY <1>3, <1>4 DEF p

LEMMA RefusedPop ==
    ASSUME NEW reqs \in Seq(Request), NEW subs \in Seq(ClientMsg), NEW lg, Refused(reqs, subs, lg),
           subs # <<>>, Len(subs) <= Len(reqs)
    PROVE  /\ Refused(Tail(reqs), Tail(subs), lg)
           /\ subs[1].code # "ACCEPTED" => NoCommit(lg, reqs[1].tx)
<1> DEFINE U == Tail(subs)  R == Tail(reqs)
<1>1. /\ Len(U) = Len(subs) - 1 /\ 1 \in 1 .. Len(subs) /\ Len(subs) \in Nat /\ Len(reqs) \in Nat
      /\ \A i \in 1 .. Len(U) : i + 1 \in 1 .. Len(subs) /\ U[i] = subs[i + 1]
  BY TailIs
<1>2. reqs # <<>>
  BY <1>1, EmptySeq
<1>3. /\ Len(R) = Len(reqs) - 1
      /\ \A i \in 1 .. Len(R) : i + 1 \in 1 .. Len(reqs) /\ R[i] = reqs[i + 1]
  BY <1>2, TailIs
<1> HIDE DEF U, R
<1>4. \A i \in 1 .. Len(U) : i \in 1 .. Len(R)
  BY <1>1, <1>3
<1>5. Refused(R, U, lg)
  BY <1>1, <1>3, <1>4 DEF Refused
<1>6. subs[1].code # "ACCEPTED" => NoCommit(lg, reqs[1].tx)
  BY <1>1 DEF Refused
<1> QED BY <1>5, <1>6 DEF U, R

LEMMA RefusedSend ==
    ASSUME NEW reqs \in Seq(Request), NEW subs \in Seq(ClientMsg), NEW lg, Refused(reqs, subs, lg),
           NEW r \in Request, Len(subs) <= Len(reqs)
    PROVE  Refused(Append(reqs, r), subs, lg)
<1>1. \A i \in 1 .. Len(reqs) : Append(reqs, r)[i] = reqs[i]
  BY AppendIs
<1>2. \A i \in 1 .. Len(subs) : i \in 1 .. Len(reqs)
  BY LenProperties
<1> QED BY <1>1, <1>2 DEF Refused

(* The requests on the wire to the server are among those not answered.    *)
LEMMA OnTheWire ==
    ASSUME TypeInv, SyncInv, NEW i \in 1 .. Len(toServer)
    PROVE  /\ toServer[i].tx \in Tx /\ InQueue(m_requests, toServer[i].tx)
           /\ Len(Subs) <= Len(m_requests)
<1>0. toServer \in Seq(SubmitRec) /\ Len(Subs) \in Nat /\ m_requests \in Seq(Request)
  BY SyncTypes
<1>1. Aligned(m_requests, Subs, toServer)
  BY DEF SyncInv, Wire
<1>2. Len(Subs) + i \in 1 .. Len(m_requests) /\ Len(Subs) <= Len(m_requests)
  <2>1. Len(toServer) \in Nat /\ Len(m_requests) = Len(Subs) + Len(toServer)
    BY <1>0, <1>1 DEF Aligned
  <2> QED BY <1>0, <2>1
<1>3. m_requests[Len(Subs) + i].tx = toServer[i].tx
  BY <1>1 DEF Aligned
<1>4. toServer[i] \in SubmitRec
  BY <1>0, ElementOfSeq
<1>5. toServer[i].tx \in Tx
  BY <1>4 DEF SubmitRec
<1> QED BY <1>2, <1>3, <1>5 DEF InQueue

(* The commits already in the log stay sound.                              *)
LEMMA CommitsStep ==
    ASSUME TypeInv, SyncInv, TokensInv, [Next]_vars,
           \A i \in 1 .. Len(log'), t \in Tx : log'[i].by = t /\ i \notin 1 .. Len(log) =>
                CommitSound(log', i, WritesOf(t)', ensures'[t], isolation'[t] = "SERIALIZABLE",
                            rev_creation'[t])
    PROVE  Commits'
<1>1. Extends(log', log)
  BY LogStep
<1> SUFFICES ASSUME NEW i \in 1 .. Len(log'), NEW t \in Tx, log'[i].by = t, i \in 1 .. Len(log)
             PROVE  CommitSound(log', i, WritesOf(t)', ensures'[t], isolation'[t] = "SERIALIZABLE",
                                rev_creation'[t])
  BY DEF Commits
<1>2. log'[i] = log[i] /\ log[i].by = t
  BY <1>1 DEF Extends
<1>3. Frozen(t)
  <2>1. ~NoCommit(log, t)
    BY <1>2 DEF NoCommit
  <2>2. state[t] \notin Unsent
    BY <2>1 DEF TokensInv, Queues, Free
  <2> QED BY <2>2, FrozenStep
<1>4. CommitSound(log, i, WritesOf(t), ensures[t], isolation[t] = "SERIALIZABLE", rev_creation[t])
  BY <1>2 DEF TokensInv, Commits
<1>5. Len(log) \in Nat /\ rev_creation[t] \in Nat
  BY SyncTypes DEF TypeInv, TypeOK
<1>6. \A j \in rev_creation[t] + 1 .. i - 1 : j \in 1 .. Len(log)
  BY <1>5
<1>7. \A j \in rev_creation[t] + 1 .. i - 1 : log'[j] = log[j]
  BY <1>1, <1>6 DEF Extends
<1>8. CommitSound(log', i, WritesOf(t), ensures[t], isolation[t] = "SERIALIZABLE", rev_creation[t])
  BY <1>2, <1>4, <1>7 DEF CommitSound
<1> QED BY <1>3, <1>8 DEF Frozen

(* So do the requests still on the wire.                                   *)
LEMMA RequestKept ==
    ASSUME TypeInv, SyncInv, TokensInv, [Next]_vars,
           NEW i \in 1 .. Len(toServer), NEW t \in Tx, toServer[i].tx = t
    PROVE  /\ RequestSound(toServer[i], WritesOf(t)', ensures'[t], isolation'[t] = "SERIALIZABLE",
                           rev_creation'[t])
           /\ state[t] \notin Unsent /\ NoCommit(log, t)
<1>1. InQueue(m_requests, t)
  BY OnTheWire
<1>2. state[t] \notin Unsent
  BY <1>1 DEF TokensInv, Queues, Free
<1>3. Frozen(t)
  BY <1>2, FrozenStep
<1>4. /\ RequestSound(toServer[i], WritesOf(t), ensures[t], isolation[t] = "SERIALIZABLE", rev_creation[t])
      /\ NoCommit(log, t)
  BY DEF TokensInv, Requests
<1> QED BY <1>2, <1>3, <1>4 DEF Frozen

LEMMA FutureCommitted ==
    ASSUME TypeInv, SyncInv, [Next]_vars, NEW u \in Tx, future'[u] = "COMMITTED"
    PROVE  \/ future[u] = "COMMITTED"
           \/ m_accepted # <<>> /\ Head(m_accepted).erev = m_rev /\ Head(m_accepted).tx = u
<1>0. future \in [Tx -> Result]
  BY DEF TypeInv, TypeOK
<1>1. CASE UserStep
  <2>1. PICK t \in Tx : \/ ContentOp(t)
                        \/ \E level \in Levels[t] : CreateTx(t, level)
                        \/ Discard(t) \/ DropHandle(t)
                        \/ \E f \in Forcing : Submit(t, f)
    BY <1>1, UserSteps
  <2>2. CASE ContentOp(t) \/ DropHandle(t) \/ \E level \in Levels[t] : CreateTx(t, level)
    BY <2>2, ContentOpFrame DEF UserOp, DropHandle, CreateTx
  <2>3. CASE Discard(t)
    BY <1>0, <2>3 DEF Discard
  <2>4. CASE \E f \in Forcing : Submit(t, f)
    <3>1. PICK f \in Forcing : Submit(t, f)
      BY <2>4
    <3>2. future' = [future EXCEPT ![t] = SubmitOutcome(t, f).future]
      BY <3>1 DEF Submit
    <3>3. SubmitOutcome(t, f).future # "COMMITTED"
      BY DEF SubmitOutcome
    <3> QED BY <1>0, <3>2, <3>3
  <2> QED BY <2>1, <2>2, <2>3, <2>4
<1>2. CASE LockTransactions \/ UpdateTx \/ \E t \in Tx : VisitTx(t)
  BY <1>2, LoopBusy
<1>3. CASE ProcessUpdate \/ ServerStep \/ Reconnected \/ UNCHANGED vars
  BY <1>3 DEF ProcessUpdate, ServerStep, ServerSubmit, ServerCommit, ServerPush, Reconnected, vars, txvars
<1>4. CASE ConfirmCommit
  <2>1. future' = future \/ (Confirmed /\ future' = [future EXCEPT ![Head(m_accepted).tx] = "COMMITTED"])
    BY <1>4 DEF ConfirmCommit
  <2> QED BY <1>0, <2>1 DEF Confirmed
<1>5. CASE ProcessSubmitCmd \/ ConnectionClosed
  <2>1. future' = future \/ \E ts : Abort(ts)
    <3>1. CASE ConnectionClosed
      BY <3>1 DEF ConnectionClosed
    <3>2. CASE ProcessSubmitCmd
      BY <3>2, ProcessSubmitCmdIs
    <3> QED BY <1>5, <3>1, <3>2
  <2> QED BY <2>1 DEF Abort
<1>6. CASE ProcessSubmitResp
  <2> DEFINE t == m_requests[1].tx  code == toClient[1].code
  <2>1. future' = [future EXCEPT ![t] = SubmitResult(code).future] \/ future' = future
    BY <1>6, ProcessSubmitRespIs, Zenon
  <2>2. SubmitResult(code).future # "COMMITTED"
    BY DEF SubmitResult
  <2> HIDE DEF t, code
  <2> QED BY <1>0, <2>1, <2>2
<1> QED BY <1>1, <1>2, <1>3, <1>4, <1>5, <1>6 DEF Next, LoopStep

LEMMA ToldStep ==
    ASSUME TypeInv, SyncInv, TokensInv, [Next]_vars PROVE Told'
<1>1. Extends(log', log) /\ m_rev' \in Nat /\ m_rev' >= m_rev
  BY LogStep
<1>0. m_rev \in Nat /\ Len(log) \in Nat /\ m_accepted \in Seq(Accepted)
  BY SyncTypes
<1> SUFFICES ASSUME NEW u \in Tx, future'[u] = "COMMITTED"
             PROVE  \E i \in 1 .. Len(log') : log'[i].by = u /\ i <= m_rev'
  BY DEF Told
<1>2. \E i \in 1 .. Len(log) : log[i].by = u /\ i <= m_rev
  <2>1. CASE future[u] = "COMMITTED"
    BY <2>1 DEF TokensInv, Told
  <2>2. CASE m_accepted # <<>> /\ Head(m_accepted).erev = m_rev /\ Head(m_accepted).tx = u
    <3>1. 1 \in 1 .. Len(m_accepted) /\ Head(m_accepted) = m_accepted[1]
      BY <1>0, <2>2, TailIs
    <3>2. m_accepted[1].erev \in 1 .. Len(log) /\ log[m_accepted[1].erev].by = m_accepted[1].tx
      BY <3>1 DEF SyncInv, Awaited, Ahead
    <3>3. m_rev \in 1 .. Len(log) /\ log[m_rev].by = u /\ m_rev <= m_rev
      BY <1>0, <2>2, <3>1, <3>2
    <3> QED BY <3>3
  <2> QED BY <2>1, <2>2, FutureCommitted
<1>3. PICK i \in 1 .. Len(log) : log[i].by = u /\ i <= m_rev
  BY <1>2
<1>4. i \in 1 .. Len(log') /\ log'[i] = log[i] /\ i <= m_rev'
  BY <1>0, <1>1, <1>3 DEF Extends
<1> QED BY <1>3, <1>4

(* A step that sends nothing and commits nothing of this client.           *)
LEMMA NothingSent ==
    ASSUME TypeInv, SyncInv, TokensInv, [Next]_vars, toServer' = toServer,
           log' = log \/ \E c \in CommitRec : c.by = Null /\ NewCommit(c)
    PROVE  Requests' /\ Commits' /\ \A t \in Tx : NoCommit(log', t) <=> NoCommit(log, t)
<1>0. log \in Seq(CommitRec) /\ Len(log) \in Nat
  BY SyncTypes
<1>n. Null \notin Tx
  BY TxAssumption, Zenon
<1>1. ASSUME NEW c \in CommitRec, c.by = Null, NewCommit(c)
      PROVE  /\ \A t \in Tx : NoCommit(log', t) <=> NoCommit(log, t)
             /\ \A i \in 1 .. Len(log') : i \in 1 .. Len(log) \/ log'[i].by \notin Tx
  <2>1. log' = Append(log, c)
    BY <1>1 DEF NewCommit
  <2>2. \A t \in Tx : NoCommit(log', t) <=> NoCommit(log, t)
    BY <1>0, <1>1, <1>n, <2>1, NoCommitAppend
  <2>3. /\ log'[Len(log) + 1] = c
        /\ \A i \in 1 .. Len(log') : i \in 1 .. Len(log) \/ i = Len(log) + 1
    BY <1>0, <2>1, AppendIs
  <2> QED BY <1>1, <1>n, <2>2, <2>3
<1>2. /\ \A t \in Tx : NoCommit(log', t) <=> NoCommit(log, t)
      /\ \A i \in 1 .. Len(log') : i \in 1 .. Len(log) \/ log'[i].by \notin Tx
  BY <1>1
<1>3. Requests'
  <2> SUFFICES ASSUME NEW i \in 1 .. Len(toServer), NEW t \in Tx, toServer[i].tx = t
               PROVE  /\ NoCommit(log', t)
                      /\ RequestSound(toServer[i], WritesOf(t)', ensures'[t],
                                      isolation'[t] = "SERIALIZABLE", rev_creation'[t])
    BY DEF Requests
  <2> QED BY <1>2, RequestKept
<1>4. Commits'
  BY <1>2, CommitsStep
<1> QED BY <1>2, <1>3, <1>4

LEMMA AnsweredIsRequest ==
    ASSUME TypeInv, SyncInv, NEW i \in 1 .. Len(Subs)
    PROVE  i \in 1 .. Len(m_requests) /\ m_requests[i].tx \in Tx /\ InQueue(m_requests, m_requests[i].tx)
<1>0. m_requests \in Seq(Request) /\ Len(Subs) \in Nat /\ Len(toServer) \in Nat
  BY SyncTypes
<1>1. Len(m_requests) = Len(Subs) + Len(toServer)
  BY DEF SyncInv, Wire, Aligned
<1>2. i \in 1 .. Len(m_requests)
  BY <1>0, <1>1
<1>3. m_requests[i] \in Request
  BY <1>0, <1>2, ElementOfSeq
<1> QED BY <1>2, <1>3 DEF Request, InQueue

(* Steps that leave the queues alone.                                      *)
LEMMA TokensQuiet ==
    ASSUME TypeInv, SyncInv, TokensInv, [Next]_vars,
           UNCHANGED <<toServer, Subs, m_requests, m_commands>>,
           log' = log \/ \E c \in CommitRec : c.by = Null /\ NewCommit(c),
           \A u \in Tx : /\ state'[u] \in Unsent => state[u] \in Unsent
                         /\ future'[u] \in Denied => future[u] \in Denied
    PROVE  TokensInv'
<1>1. Requests' /\ Commits' /\ \A t \in Tx : NoCommit(log', t) <=> NoCommit(log, t)
  BY NothingSent
<1>2. Queues'
  <2>1. Refused(m_requests, Subs, log')
    BY <1>1, AnsweredIsRequest DEF TokensInv, Queues, Refused
  <2>2. \A t \in Tx : Free(t)' <=> Free(t)
    BY <1>1 DEF Free
  <2> QED BY <1>1, <2>1, <2>2 DEF TokensInv, Queues
<1> QED BY <1>1, <1>2, ToldStep DEF TokensInv

LEMMA SubmitTokens ==
    ASSUME TypeInv, SyncInv, TokensInv, NEW t \in Tx, NEW f \in Forcing, Submit(t, f), [Next]_vars
    PROVE  TokensInv'
<1> DEFINE Cmd == [tx : Tx, force : BOOLEAN]  c == [tx |-> t, force |-> f]
<1>0. /\ state[t] = "OPEN" /\ UNCHANGED <<log, toServer, toClient, m_requests>> /\ Subs' = Subs
  BY DEF Submit, server, Subs
<1>1. /\ \A u \in Tx \ {t} : state'[u] = state[u] /\ future'[u] = future[u]
      /\ state'[t] = SubmitOutcome(t, f).state /\ future'[t] = SubmitOutcome(t, f).future
  BY DEF Submit, TypeInv, TypeOK
<1>2. Free(t)
  BY <1>0 DEF TokensInv, Queues, Unsent
<1>r. Requests' /\ Commits' /\ Told'
  BY <1>0, NothingSent, ToldStep
<1>3. CASE SubmitOutcome(t, f).state # "SUBMITTED"
  <2>1. m_commands' = m_commands
    BY <1>3 DEF Submit
  <2>2. \A u \in Tx : Free(u)' <=> Free(u)
    BY <1>0, <2>1 DEF Free
  <2>4. \A u \in Tx : state'[u] \in Unsent \/ future'[u] \in Denied => Free(u)
    BY <1>1, <1>2 DEF TokensInv, Queues
  <2>5. Queues'
    BY <1>0, <2>1, <2>2, <2>4 DEF TokensInv, Queues
  <2> QED BY <1>r, <2>5 DEF TokensInv
<1>4. CASE SubmitOutcome(t, f).state = "SUBMITTED"
  <2>1. m_commands' = Append(m_commands, c) /\ m_commands \in Seq(Cmd)
    BY <1>4 DEF Submit, TypeInv, TypeOK
  <2>2. c \in Cmd /\ c.tx = t
    <3>1. Forcing \subseteq BOOLEAN
      BY TxAssumption, Zenon
    <3>2. f \in BOOLEAN
      BY <3>1, Zenon
    <3> QED BY <3>2, Zenon
  <2>3. SubmitOutcome(t, f).future = "pending"
    BY <1>4 DEF SubmitOutcome
  <2> HIDE DEF Cmd, c
  <2>4. /\ \A u : InQueue(m_commands', u) <=> InQueue(m_commands, u) \/ t = u
        /\ Once(m_commands')
    BY <1>2, <2>1, <2>2, QueueAppend DEF Free, TokensInv, Queues
  <2>5. \A u \in Tx : InQueue(m_commands', u) => ~InQueue(m_requests, u) /\ NoCommit(log, u)
    BY <1>2, <2>4 DEF Free, TokensInv, Queues
  <2>6. ASSUME NEW u \in Tx, state'[u] \in Unsent \/ future'[u] \in Denied PROVE Free(u)'
    <3>1. u # t
      BY <1>1, <1>4, <2>3, <2>6 DEF Unsent, Denied
    <3>2. Free(u)
      BY <1>1, <2>6, <3>1 DEF TokensInv, Queues
    <3> QED BY <1>0, <2>4, <3>1, <3>2 DEF Free
  <2>7. Queues'
    BY <1>0, <2>4, <2>5, <2>6 DEF TokensInv, Queues
  <2> QED BY <1>r, <2>7 DEF TokensInv
<1> QED BY <1>3, <1>4

LEMMA QuietUserTokens ==
    ASSUME TypeInv, SyncInv, TokensInv, NEW t \in Tx, [Next]_vars,
           \/ ContentOp(t) \/ Discard(t) \/ DropHandle(t)
           \/ \E level \in Levels[t] : CreateTx(t, level)
    PROVE  TokensInv'
<1>0. state \in [Tx -> State] /\ future \in [Tx -> Result]
  BY DEF TypeInv, TypeOK
<1>1. UNCHANGED <<log, toServer, toClient, m_requests, m_commands>>
  BY ContentOpFrame DEF UserOp, Discard, DropHandle, CreateTx, server, client
<1>2. Subs' = Subs
  BY <1>1 DEF Subs
<1>3. \A u \in Tx : state'[u] \in Unsent => state[u] \in Unsent
  <2>1. CASE ContentOp(t) \/ DropHandle(t)
    BY <2>1, ContentOpFrame DEF UserOp, DropHandle
  <2>2. CASE Discard(t)
    BY <1>0, <2>2 DEF Discard, Unsent
  <2>3. CASE \E level \in Levels[t] : CreateTx(t, level)
    <3>1. state[t] = "NONE" /\ state' = [Destroyed(state) EXCEPT ![t] = "OPEN"]
      BY <2>3 DEF CreateTx
    <3>2. \A u \in Tx \ {t} : state'[u] = Destroyed(state)[u]
      BY <3>1 DEF Destroyed
    <3>3. \A u \in Tx \ {t} : state'[u] = "DISCARDED" \/ state'[u] = state[u]
      BY <3>2 DEF Destroyed
    <3> QED BY <3>1, <3>3 DEF Unsent
  <2> QED BY <2>1, <2>2, <2>3
<1>4. \A u \in Tx : future'[u] \in Denied => future[u] \in Denied
  <2>1. CASE ContentOp(t) \/ DropHandle(t) \/ \E level \in Levels[t] : CreateTx(t, level)
    BY <2>1, ContentOpFrame DEF UserOp, DropHandle, CreateTx
  <2>2. CASE Discard(t)
    BY <1>0, <2>2 DEF Discard, Denied
  <2> QED BY <2>1, <2>2
<1> QED BY <1>1, <1>2, <1>3, <1>4, TokensQuiet

LEMMA QuietLoopTokens ==
    ASSUME TypeInv, SyncInv, TokensInv, [Next]_vars,
           \/ LockTransactions \/ UpdateTx \/ ConfirmCommit \/ ProcessUpdate \/ Reconnected
           \/ \E t \in Tx : VisitTx(t)
    PROVE  TokensInv'
<1>0. /\ state \in [Tx -> State] /\ future \in [Tx -> Result] /\ toClient \in Seq(ClientMsg)
  BY SyncTypes DEF TypeInv, TypeOK
<1>1. CASE LockTransactions \/ UpdateTx \/ \E t \in Tx : VisitTx(t)
  <2>1. UNCHANGED <<log, toServer, toClient, m_requests, m_commands, state, future>>
    BY <1>1, LoopBusy DEF server
  <2> QED BY <2>1, TokensQuiet DEF Subs
<1>2. CASE Reconnected
  <2>1. UNCHANGED <<log, toServer, toClient, m_requests, m_commands, state, future>>
    BY <1>2 DEF Reconnected, txvars
  <2> QED BY <2>1, TokensQuiet DEF Subs
<1>3. CASE ProcessUpdate
  <2>1. /\ UNCHANGED <<log, toServer, m_requests, m_commands, state, future>>
        /\ toClient # <<>> /\ Head(toClient).type = "update" /\ toClient' = Tail(toClient)
    BY <1>3 DEF ProcessUpdate, txvars
  <2>2. Subs' = Subs
    <3>1. toClient[1].type # "submit"
      BY <1>0, <2>1, TailIs
    <3> QED BY <1>0, <2>1, <3>1, OfTypePop DEF Subs
  <2> QED BY <2>1, <2>2, TokensQuiet
<1>4. CASE ConfirmCommit
  <2> DEFINE h == Head(m_accepted).tx
  <2>1. UNCHANGED <<log, toServer, toClient, m_requests, m_commands>>
    BY <1>4 DEF ConfirmCommit, server
  <2>2. future' = future \/ future' = [future EXCEPT ![h] = "COMMITTED"]
    BY <1>4 DEF ConfirmCommit
  <2>3. \E p \in {state, Destroyed(state)} : state' = p \/ state' = [p EXCEPT ![h] = "COMMITTED"]
    BY <1>4 DEF ConfirmCommit
  <2>4. \A u \in Tx : future'[u] \in Denied => future[u] \in Denied
    BY <1>0, <2>2 DEF Denied
  <2>5. PICK p \in {state, Destroyed(state)} : state' = p \/ state' = [p EXCEPT ![h] = "COMMITTED"]
    BY <2>3
  <2> HIDE DEF h
  <2>6. p = [u \in Tx |-> p[u]] /\ \A u \in Tx : p[u] = "DISCARDED" \/ p[u] = state[u]
    BY <1>0, <2>5 DEF Destroyed
  <2>7. \A u \in Tx : state'[u] \in {"DISCARDED", "COMMITTED", state[u]}
    BY <2>5, <2>6
  <2>8. \A u \in Tx : state'[u] \in Unsent => state[u] \in Unsent
    BY <2>7 DEF Unsent
  <2> QED BY <2>1, <2>4, <2>8, TokensQuiet DEF Subs
<1> QED BY <1>1, <1>2, <1>3, <1>4

LEMMA QuietServerTokens ==
    ASSUME TypeInv, SyncInv, TokensInv, [Next]_vars, ServerCommit \/ ServerPush \/ UNCHANGED vars
    PROVE  TokensInv'
<1>0. toClient \in Seq(ClientMsg) /\ pushed \in Nat
  BY SyncTypes
<1>1. CASE UNCHANGED vars
  BY <1>1, TokensQuiet DEF vars, server, client, txvars, Subs
<1>2. CASE ServerPush
  <2> DEFINE m == [type |-> "update", cid |-> 0, code |-> "", erev |-> 0, rev |-> pushed + 1]
  <2>1. UNCHANGED <<log, toServer, m_requests, m_commands, state, future>> /\ toClient' = Append(toClient, m)
    BY <1>2 DEF ServerPush, client, txvars
  <2>2. m \in ClientMsg /\ m.type # "submit"
    <3>1. pushed + 1 \in Nat
      BY <1>0
    <3>2. m \in [type : {"update"}, cid : {0}, code : {""}, erev : {0}, rev : Nat]
      BY <3>1
    <3> QED BY <3>2 DEF ClientMsg
  <2> HIDE DEF m
  <2>3. Subs' = Subs
    BY <1>0, <2>1, <2>2, OfTypeAppend DEF Subs
  <2> QED BY <2>1, <2>3, TokensQuiet
<1>3. CASE ServerCommit
  <2>1. UNCHANGED <<toServer, toClient, m_requests, m_commands, state, future>>
    BY <1>3 DEF ServerCommit, client, txvars
  <2>2. PICK c \in OtherCommit : log' = Append(log, Commit(Other, Null, FALSE, c.upserts, c.deletes))
    BY <1>3 DEF ServerCommit
  <2>3. Commit(Other, Null, FALSE, c.upserts, c.deletes) \in CommitRec
    <3>1. c.upserts \in PartialFcn(Key, Data) /\ c.deletes \subseteq Key
      BY TxAssumption, MapIs
    <3> QED BY <3>1, TxAssumption DEF Commit, CommitRec
  <2>4. Commit(Other, Null, FALSE, c.upserts, c.deletes).by = Null
    BY DEF Commit
  <2>5. \E d \in CommitRec : d.by = Null /\ NewCommit(d)
    BY <2>2, <2>3, <2>4 DEF NewCommit
  <2> QED BY <2>1, <2>5, TokensQuiet DEF Subs
<1> QED BY <1>1, <1>2, <1>3

LEMMA ConnectionClosedTokens ==
    ASSUME TypeInv, SyncInv, TokensInv, [Next]_vars, ConnectionClosed
    PROVE  TokensInv'
<1>1. /\ m_requests' = <<>> /\ toServer' = <<>> /\ toClient' = <<>> /\ log' = log
      /\ m_commands' = m_commands /\ Len(<<>>) = 0
  BY DEF ConnectionClosed
<1>2. Subs' = <<>>
  BY <1>1, OfTypeEmpty DEF Subs
<1>3. \A u \in Tx : /\ state'[u] \in Unsent => state[u] \in Unsent
                    /\ future'[u] \in Denied => future[u] \in Denied
  <2>1. PICK ts : Abort(ts)
    BY DEF ConnectionClosed
  <2> QED BY <2>1 DEF Abort, Unsent, Denied
<1>4. \A u \in Tx : Free(u) => Free(u)'
  BY <1>1, EmptyQueues DEF Free
<1>5. Queues'
  BY <1>1, <1>2, <1>3, <1>4, EmptyQueues DEF TokensInv, Queues
<1>6. Requests'
  BY <1>1 DEF Requests
<1>7. Commits'
  BY <1>1, CommitsStep
<1> QED BY <1>5, <1>6, <1>7, ToldStep DEF TokensInv

LEMMA SubmitMsgSound ==
    ASSUME TypeInv, NEW t \in Tx, NEW cid, NEW f
    PROVE  /\ SubmitMsg(t, cid, f).tx = t
           /\ RequestSound(SubmitMsg(t, cid, f), WritesOf(t), ensures[t], isolation[t] = "SERIALIZABLE",
                           rev_creation[t])
<1> DEFINE up == [k \in {x \in DOMAIN items[t] : items[t][x].action = "UPSERT"} |-> items[t][k].value.data]
           del == {k \in DOMAIN items[t] : items[t][k].action = "DELETE"}
           m == SubmitMsg(t, cid, f)
<1>1. /\ m.upserts = up /\ m.deletes = del /\ m.ensures = ensures[t] /\ m.tx = t
      /\ isolation[t] = "SERIALIZABLE" => m.crev = rev_creation[t]
  BY DEF SubmitMsg
<1>2. DOMAIN up \cup del = WritesOf(t)
  BY DEF WritesOf, OwnWrite
<1> HIDE DEF up, del, m
<1>3. Keys(m) = WritesOf(t)
  BY <1>1, <1>2 DEF Keys
<1> QED BY <1>1, <1>3 DEF RequestSound, m

LEMMA ProcessSubmitCmdTokens ==
    ASSUME TypeInv, SyncInv, TokensInv, [Next]_vars, ProcessSubmitCmd
    PROVE  TokensInv'
<1> DEFINE Cmd == [tx : Tx, force : BOOLEAN]
<1>0. m_commands \in Seq(Cmd) /\ m_requests \in Seq(Request) /\ m_correlation \in Nat
      /\ toServer \in Seq(SubmitRec) /\ Subs \in Seq(ClientMsg)
  BY SyncTypes DEF TypeInv, TypeOK
<1> HIDE DEF Cmd
<1>1. PICK t \in Tx, f \in BOOLEAN, cid \in Nat :
          m_commands[1].tx = t /\ m_commands[1].force = f /\ m_correlation = cid
  BY <1>0, ProcessSubmitCmdIs
<1>2. /\ m_commands # <<>> /\ m_commands' = Tail(m_commands)
      /\ UNCHANGED <<log, toClient, content, created>>
      /\ \/ Abort({t}) /\ UNCHANGED <<toServer, m_requests>>
         \/ /\ UNCHANGED <<state, future>>
            /\ SubmitMsg(t, cid, f) \in SubmitRec
            /\ toServer' = Append(toServer, SubmitMsg(t, cid, f))
            /\ m_requests' = Append(m_requests, [cid |-> cid, tx |-> t])
  BY <1>1, ProcessSubmitCmdIs
<1>3. /\ \A u : InQueue(m_commands', u) => InQueue(m_commands, u)
      /\ InQueue(m_commands, t) /\ ~InQueue(m_commands', t) /\ Once(m_commands')
  BY <1>0, <1>1, <1>2, QueueTail DEF TokensInv, Queues
<1>4. Subs' = Subs /\ ~InQueue(m_requests, t) /\ NoCommit(log, t)
  BY <1>2, <1>3 DEF Subs, TokensInv, Queues
<1>5. Commits' /\ Told'
  BY <1>2, CommitsStep, ToldStep
<1>6. CASE Abort({t}) /\ UNCHANGED <<toServer, m_requests>>
  <2>1. \A u \in Tx : /\ state'[u] \in Unsent => state[u] \in Unsent
                      /\ future'[u] \in Denied => future[u] \in Denied
    BY <1>6 DEF Abort, Unsent, Denied
  <2>2. \A u \in Tx : Free(u) => Free(u)'
    BY <1>2, <1>3, <1>6 DEF Free
  <2>3. Queues'
    BY <1>2, <1>3, <1>4, <1>6, <2>1, <2>2 DEF TokensInv, Queues
  <2>4. Requests'
    BY <1>2, <1>6, NothingSent
  <2> QED BY <1>5, <2>3, <2>4 DEF TokensInv
<1>7. CASE UNCHANGED <<state, future>> /\ SubmitMsg(t, cid, f) \in SubmitRec
           /\ toServer' = Append(toServer, SubmitMsg(t, cid, f))
           /\ m_requests' = Append(m_requests, [cid |-> cid, tx |-> t])
  <2> DEFINE r == [cid |-> cid, tx |-> t]  m == SubmitMsg(t, cid, f)
  <2>1. r \in Request /\ r.tx = t
    BY DEF Request
  <2>2. m \in SubmitRec /\ toServer' = Append(toServer, m) /\ m_requests' = Append(m_requests, r)
    BY <1>7
  <2>3. m.tx = t /\ RequestSound(m, WritesOf(t), ensures[t], isolation[t] = "SERIALIZABLE", rev_creation[t])
    BY SubmitMsgSound
  <2>4. Frozen(t)
    BY <1>2 DEF Frozen, WritesOf, OwnWrite, content, created
  <2> HIDE DEF r, m
  <2>5. (\A u : InQueue(m_requests', u) <=> InQueue(m_requests, u) \/ t = u) /\ Once(m_requests')
    BY <1>0, <1>4, <2>1, <2>2, QueueAppend DEF TokensInv, Queues
  <2>6. Refused(m_requests', Subs', log')
    <3>1. Len(Subs) <= Len(m_requests)
      BY <1>0, LenProperties DEF SyncInv, Wire, Aligned
    <3> QED BY <1>0, <1>2, <1>4, <2>1, <2>2, <3>1, RefusedSend DEF TokensInv, Queues
  <2>7. \A u \in Tx : Free(u) => Free(u)'
    BY <1>2, <1>3, <2>5 DEF Free
  <2>8. Queues'
    <3>1. \A u \in Tx : InQueue(m_commands', u) => ~InQueue(m_requests', u) /\ NoCommit(log', u)
      BY <1>2, <1>3, <2>5 DEF TokensInv, Queues
    <3>2. \A u \in Tx : state'[u] \in Unsent \/ future'[u] \in Denied => Free(u)'
      BY <1>7, <2>7 DEF TokensInv, Queues
    <3> QED BY <1>3, <2>5, <2>6, <3>1, <3>2 DEF Queues
  <2>9. Requests'
    <3> SUFFICES ASSUME NEW i \in 1 .. Len(toServer'), NEW u \in Tx, toServer'[i].tx = u
                 PROVE  /\ NoCommit(log', u)
                        /\ RequestSound(toServer'[i], WritesOf(u)', ensures'[u],
                                        isolation'[u] = "SERIALIZABLE", rev_creation'[u])
      BY DEF Requests
    <3>1. CASE i \in 1 .. Len(toServer)
      <4>1. toServer'[i] = toServer[i]
        BY <1>0, <2>2, <3>1, AppendIs
      <4> QED BY <1>2, <3>1, <4>1, RequestKept
    <3>2. CASE i = Len(toServer) + 1
      <4>1. toServer'[i] = m /\ u = t
        BY <1>0, <2>2, <2>3, <3>2, AppendIs
      <4> QED BY <1>2, <1>4, <2>3, <2>4, <4>1 DEF Frozen
    <3> QED BY <1>0, <2>2, <3>1, <3>2, AppendIs
  <2> QED BY <1>5, <2>8, <2>9 DEF TokensInv
<1> QED BY <1>2, <1>6, <1>7

LEMMA ProcessSubmitRespTokens ==
    ASSUME TypeInv, SyncInv, TokensInv, [Next]_vars, ProcessSubmitResp
    PROVE  TokensInv'
<1>0. m_requests \in Seq(Request) /\ Subs \in Seq(ClientMsg) /\ toServer \in Seq(SubmitRec)
      /\ state \in [Tx -> State] /\ future \in [Tx -> Result]
  BY SyncTypes DEF TypeInv, TypeOK
<1>1. PICK t \in Tx : m_requests[1].tx = t
  BY ProcessSubmitRespIs
<1>2. PICK code : Subs[1].code = code
  OBVIOUS
<1>3. /\ m_requests # <<>> /\ m_requests' = Tail(m_requests) /\ Subs # <<>> /\ Subs' = Tail(Subs)
      /\ \/ /\ state' = [state EXCEPT ![t] = SubmitResult(code).state]
            /\ future' = [future EXCEPT ![t] = SubmitResult(code).future]
         \/ UNCHANGED <<state, future>>
      /\ UNCHANGED <<log, toServer, m_commands>>
  BY <1>1, <1>2, ProcessSubmitRespIs
<1>4. Requests' /\ Commits' /\ Told'
  BY <1>3, NothingSent, ToldStep
<1>5. /\ \A u : InQueue(m_requests', u) => InQueue(m_requests, u)
      /\ InQueue(m_requests, t) /\ ~InQueue(m_requests', t) /\ Once(m_requests')
  BY <1>0, <1>1, <1>3, QueueTail DEF TokensInv, Queues
<1>6. Refused(m_requests', Subs', log') /\ (code # "ACCEPTED" => NoCommit(log, t))
  <2>1. Len(Subs) <= Len(m_requests)
    BY <1>0, LenProperties DEF SyncInv, Wire, Aligned
  <2> QED BY <1>0, <1>1, <1>2, <1>3, <2>1, RefusedPop DEF TokensInv, Queues
<1>7. code # "ACCEPTED" => Free(t)'
  BY <1>3, <1>5, <1>6 DEF Free, TokensInv, Queues
<1>8. \A u \in Tx : Free(u) => Free(u)'
  BY <1>3, <1>5 DEF Free
<1>9. ASSUME NEW u \in Tx, state'[u] \in Unsent \/ future'[u] \in Denied PROVE Free(u)'
  <2>1. CASE state'[u] = state[u] /\ future'[u] = future[u]
    BY <1>8, <1>9, <2>1 DEF TokensInv, Queues
  <2>2. CASE u = t /\ state'[t] = SubmitResult(code).state /\ future'[t] = SubmitResult(code).future
    <3>1. code # "ACCEPTED"
      BY <1>9, <2>2 DEF SubmitResult, Unsent, Denied
    <3> QED BY <1>7, <2>2, <3>1
  <2>3. \/ state'[u] = state[u] /\ future'[u] = future[u]
        \/ u = t /\ state'[t] = SubmitResult(code).state /\ future'[t] = SubmitResult(code).future
    BY <1>0, <1>3
  <2> QED BY <2>1, <2>2, <2>3
<1>10. Queues'
  BY <1>3, <1>5, <1>6, <1>9 DEF TokensInv, Queues
<1> QED BY <1>4, <1>10 DEF TokensInv

LEMMA RefusedAnswer ==
    ASSUME NEW reqs, NEW subs \in Seq(ClientMsg), NEW lg, Refused(reqs, subs, lg), NEW a \in ClientMsg,
           a.code # "ACCEPTED" => NoCommit(lg, reqs[Len(subs) + 1].tx)
    PROVE  Refused(reqs, Append(subs, a), lg)
<1> DEFINE U == Append(subs, a)
<1>1. /\ U[Len(subs) + 1] = a /\ \A i \in 1 .. Len(subs) : U[i] = subs[i]
      /\ \A i \in 1 .. Len(U) : i \in 1 .. Len(subs) \/ i = Len(subs) + 1
  BY AppendIs
<1> HIDE DEF U
<1>2. Refused(reqs, U, lg)
  BY <1>1 DEF Refused
<1> QED BY <1>2 DEF U

(* What the server accepts conflicts with nothing after the request's crev. *)
LEMMA AcceptedSound ==
    ASSUME TypeInv, NEW q \in SubmitRec, Verdict(q) = "ACCEPTED", NEW writes, NEW ens, NEW serial \in BOOLEAN,
           NEW rev \in Nat, RequestSound(q, writes, ens, serial, rev),
           log' = Append(log, Commit(Me, q.tx, q.force, q.upserts, q.deletes))
    PROVE  CommitSound(log', Len(log) + 1, writes, ens, serial, rev)
<1> DEFINE c == Commit(Me, q.tx, q.force, q.upserts, q.deletes)  n == Len(log) + 1
<1>0. log \in Seq(CommitRec) /\ Len(log) \in Nat /\ c \in CommitRec
  BY SyncTypes, CommitType
<1>1. c.forced = q.force /\ Keys(c) = Keys(q)
  BY DEF Commit, Keys
<1>2. /\ ~ConflictsWith(q.ensures, q.crev)
      /\ ~q.force => ~ConflictsWith(Keys(q), q.crev)
  BY DEF Verdict
<1> HIDE DEF c
<1>3. log'[n] = c /\ \A i \in 1 .. Len(log) : log'[i] = log[i]
  BY <1>0, AppendIs DEF c
<1>4. ASSUME serial, NEW j \in rev + 1 .. n - 1
      PROVE  Keys(log'[j]) \cap ens = {} /\ (~log'[n].forced => Keys(log'[j]) \cap Keys(log'[n]) = {})
  <2>1. j \in 1 .. Len(log) /\ j \in rev + 1 .. Len(log)
    BY <1>0
  <2>2. q.crev = rev /\ q.ensures = ens
    BY <1>4 DEF RequestSound
  <2>3. ens \cap Keys(log[j]) = {} /\ (~q.force => Keys(q) \cap Keys(log[j]) = {})
    BY <1>2, <2>1, <2>2 DEF ConflictsWith
  <2>4. log'[j] = log[j]
    BY <1>3, <2>1
  <2> QED BY <1>1, <1>3, <2>3, <2>4
<1> HIDE DEF n
<1>5. Keys(log'[n]) = writes
  BY <1>1, <1>3 DEF RequestSound
<1>6. CommitSound(log', n, writes, ens, serial, rev)
  BY <1>4, <1>5 DEF CommitSound
<1> QED BY <1>6 DEF n

LEMMA ServerSubmitTokens ==
    ASSUME TypeInv, SyncInv, TokensInv, [Next]_vars, ServerSubmit
    PROVE  TokensInv'
<1> DEFINE n == Len(Subs) + 1
<1>0. /\ toServer \in Seq(SubmitRec) /\ toClient \in Seq(ClientMsg) /\ Subs \in Seq(ClientMsg)
      /\ log \in Seq(CommitRec) /\ Len(log) \in Nat /\ Len(Subs) \in Nat /\ m_requests \in Seq(Request)
  BY SyncTypes
<1>1. PICK q \in SubmitRec : Head(toServer) = q
  BY ServerSubmitIs
<1>2. PICK t \in Tx : q.tx = t
  BY DEF SubmitRec
<1>3. /\ toServer # <<>> /\ toServer' = Tail(toServer) /\ q.cid \in Nat
      /\ UNCHANGED <<m_requests, m_commands, state, future, items, ensures, isolation, rev_creation>>
      /\ \/ /\ log' = log
            /\ \E code \in Code \ {"ACCEPTED"} : toClient' = Append(toClient, AnswerMsg(q, code, 0))
         \/ /\ Verdict(q) = "ACCEPTED"
            /\ log' = Append(log, Commit(Me, q.tx, q.force, q.upserts, q.deletes))
            /\ toClient' = Append(toClient, AnswerMsg(q, "ACCEPTED", Len(log) + 1))
  <2>1. q.cid \in Nat
    BY DEF SubmitRec
  <2> QED BY <1>1, <2>1, ServerSubmitIs DEF client, txvars, content, created
<1>4. /\ toServer[1] = q /\ 1 \in 1 .. Len(toServer)
      /\ \A i \in 1 .. Len(toServer') : i + 1 \in 1 .. Len(toServer) /\ toServer'[i] = toServer[i + 1]
  BY <1>0, <1>1, <1>3, TailIs
<1>5. InQueue(m_requests, t) /\ m_requests[n].tx = t /\ n \in 1 .. Len(m_requests)
  <2>1. Aligned(m_requests, Subs, toServer)
    BY DEF SyncInv, Wire
  <2>2. m_requests[Len(Subs) + 1].tx = toServer[1].tx
    BY <1>4, <2>1 DEF Aligned
  <2>3. Len(m_requests) = Len(Subs) + Len(toServer) /\ Len(toServer) \in Nat
    BY <1>0, <2>1, LenProperties DEF Aligned
  <2>4. n \in 1 .. Len(m_requests)
    BY <1>0, <1>4, <2>3
  <2> QED BY <1>2, <1>4, <2>2, <2>4 DEF InQueue
<1>6. /\ NoCommit(log, t)
      /\ RequestSound(q, WritesOf(t), ensures[t], isolation[t] = "SERIALIZABLE", rev_creation[t])
  BY <1>2, <1>4 DEF TokensInv, Requests
<1>7. \A u \in Tx : Frozen(u)
  BY <1>3 DEF Frozen, WritesOf, OwnWrite
<1>8. \A u \in Tx \ {t} : NoCommit(log', u) <=> NoCommit(log, u)
  <2> DEFINE c == Commit(Me, q.tx, q.force, q.upserts, q.deletes)
  <2>1. c \in CommitRec /\ c.by = t
    BY <1>2, CommitType DEF Commit
  <2>2. log' = log \/ log' = Append(log, c)
    BY <1>3
  <2> HIDE DEF c
  <2>3. \A u \in Tx \ {t} : NoCommit(Append(log, c), u) <=> NoCommit(log, u)
    BY <1>0, <2>1, NoCommitAppend
  <2> QED BY <2>2, <2>3
(* No other place of the queue of requests is t's.                         *)
<1>9. \A i \in 1 .. Len(m_requests) : i # n => m_requests[i].tx # t
  BY <1>5 DEF TokensInv, Queues, Once
<1>10. Refused(m_requests, Subs', log')
  <2>1. Refused(m_requests, Subs, log')
    <3> SUFFICES ASSUME NEW i \in 1 .. Len(Subs), Subs[i].code # "ACCEPTED"
                 PROVE  NoCommit(log', m_requests[i].tx)
      BY DEF Refused
    <3>1. i \in 1 .. Len(m_requests) /\ m_requests[i].tx \in Tx
      BY AnsweredIsRequest
    <3>2. i # n
      BY <1>0
    <3>3. NoCommit(log, m_requests[i].tx)
      BY DEF TokensInv, Queues, Refused
    <3> QED BY <1>8, <1>9, <3>1, <3>2, <3>3
  <2>2. ASSUME NEW code \in Code, NEW e \in Nat, toClient' = Append(toClient, AnswerMsg(q, code, e)),
               code # "ACCEPTED" => log' = log
        PROVE  Refused(m_requests, Subs', log')
    <3> DEFINE a == AnswerMsg(q, code, e)
    <3>1. a \in ClientMsg /\ a.type = "submit" /\ a.code = code
      BY <1>3, AnswerType DEF AnswerMsg
    <3> HIDE DEF a
    <3>2. Subs' = Append(Subs, a)
      BY <1>0, <2>2, <3>1, OfTypeAppend DEF Subs, a
    <3>3. a.code # "ACCEPTED" => NoCommit(log', m_requests[Len(Subs) + 1].tx)
      BY <1>5, <1>6, <2>2, <3>1
    <3> QED BY <1>0, <2>1, <3>1, <3>2, <3>3, RefusedAnswer
  <2>3. "ACCEPTED" \in Code /\ Len(log) + 1 \in Nat /\ 0 \in Nat
    BY <1>0 DEF Code
  <2> QED BY <1>3, <2>2, <2>3
<1>11. Queues'
  <2>1. \A u \in Tx : InQueue(m_commands, u) => ~InQueue(m_requests, u) /\ NoCommit(log', u)
    BY <1>5, <1>8 DEF TokensInv, Queues
  <2>2. \A u \in Tx : Free(u) => Free(u)'
    BY <1>3, <1>5, <1>8 DEF Free
  <2> QED BY <1>3, <1>10, <2>1, <2>2 DEF TokensInv, Queues
<1>12. Requests'
  <2> SUFFICES ASSUME NEW i \in 1 .. Len(toServer'), NEW u \in Tx, toServer'[i].tx = u
               PROVE  /\ NoCommit(log', u)
                      /\ RequestSound(toServer'[i], WritesOf(u)', ensures'[u],
                                      isolation'[u] = "SERIALIZABLE", rev_creation'[u])
    BY DEF Requests
  <2>1. i + 1 \in 1 .. Len(toServer) /\ toServer'[i] = toServer[i + 1] /\ i \in Nat
    BY <1>4
  <2>2. u # t
    <3>1. m_requests[Len(Subs) + (i + 1)].tx = u
      BY <2>1 DEF SyncInv, Wire, Aligned
    <3>2. Len(m_requests) = Len(Subs) + Len(toServer) /\ Len(toServer) \in Nat
      BY <1>0, LenProperties DEF SyncInv, Wire, Aligned
    <3>3. Len(Subs) + (i + 1) \in 1 .. Len(m_requests) /\ Len(Subs) + (i + 1) # n
      <4>1. i \in 1 .. Len(toServer')
        OBVIOUS
      <4> QED BY <1>0, <2>1, <3>2, <4>1
    <3> QED BY <1>9, <3>1, <3>3
  <2> QED BY <1>8, <2>1, <2>2, RequestKept
<1>13. Commits'
  <2> SUFFICES ASSUME NEW i \in 1 .. Len(log'), NEW u \in Tx, log'[i].by = u, i \notin 1 .. Len(log)
               PROVE  CommitSound(log', i, WritesOf(u)', ensures'[u], isolation'[u] = "SERIALIZABLE",
                                  rev_creation'[u])
    BY CommitsStep
  <2> DEFINE c == Commit(Me, q.tx, q.force, q.upserts, q.deletes)
  <2>1. Verdict(q) = "ACCEPTED" /\ log' = Append(log, c)
    BY <1>3
  <2>2. c \in CommitRec /\ c.by = t
    BY <1>2, CommitType DEF Commit
  <2>3. i = Len(log) + 1 /\ log'[i] = c
    <3> HIDE DEF c
    <3> QED BY <1>0, <2>1, <2>2, AppendIs
  <2>4. u = t
    BY <2>2, <2>3
  <2>5. rev_creation[t] \in Nat /\ (isolation[t] = "SERIALIZABLE") \in BOOLEAN
    BY DEF TypeInv, TypeOK
  <2>6. CommitSound(log', Len(log) + 1, WritesOf(t), ensures[t], isolation[t] = "SERIALIZABLE", rev_creation[t])
    BY <1>6, <2>1, <2>5, AcceptedSound
  <2> QED BY <1>7, <2>3, <2>4, <2>6 DEF Frozen
<1> QED BY <1>11, <1>12, <1>13, ToldStep DEF TokensInv

LEMMA NextTokens == ASSUME TypeInv, SyncInv, TokensInv, [Next]_vars PROVE TokensInv'
<1>1. CASE UserStep
  <2>1. PICK t \in Tx : \/ ContentOp(t)
                        \/ \E level \in Levels[t] : CreateTx(t, level)
                        \/ Discard(t) \/ DropHandle(t)
                        \/ \E f \in Forcing : Submit(t, f)
    BY <1>1, UserSteps
  <2> QED BY <2>1, QuietUserTokens, SubmitTokens
<1>2. CASE LoopStep
  BY <1>2, QuietLoopTokens, ProcessSubmitCmdTokens, ProcessSubmitRespTokens DEF LoopStep
<1>3. CASE ServerStep \/ UNCHANGED vars
  BY <1>3, QuietServerTokens, ServerSubmitTokens DEF ServerStep
<1>4. CASE ConnectionClosed \/ Reconnected
  BY <1>4, ConnectionClosedTokens, QuietLoopTokens
<1> QED BY <1>1, <1>2, <1>3, <1>4 DEF Next

(* The submission invariant, in every state: each transaction is queued,   *)
(* sent or committed at most once, what is sent and committed are its      *)
(* writes, and until it is accepted the database has nothing of it.        *)
THEOREM IsolationTokensInv == Spec => []TokensInv
<1>1. Init => TokensInv
  BY InitTokens
<1>2. TypeInv /\ SyncInv /\ TokensInv /\ [Next]_vars => TokensInv'
  BY NextTokens
<1> QED BY <1>1, <1>2, TransactionsSync, PTL DEF Spec

(* FutureTruthful: what the future of submit() reports is true of the      *)
(* database.  COMMITTED only when the local copy has the transaction's     *)
(* writes as one commit; REJECTED, TRY_LATER and NO_MODIFICATIONS only     *)
(* when the database never got them.                                       *)
THEOREM IsolationFutureTruthful == Spec => []FutureTruthful
<1>1. TypeInv /\ TokensInv => FutureTruthful
  <2> SUFFICES ASSUME TypeInv, TokensInv, NEW t \in Tx
               PROVE  /\ future[t] = "COMMITTED" => \E i \in {j \in DOMAIN log : log[j].by = t} :
                                                        i <= m_rev /\ Keys(log[i]) = WritesOf(t)
                      /\ future[t] \in Denied => {j \in DOMAIN log : log[j].by = t} = {}
    BY DEF FutureTruthful, Denied
  <2>0. log \in Seq(CommitRec) /\ DOMAIN log = 1 .. Len(log)
    BY SyncTypes
  <2>1. ASSUME future[t] = "COMMITTED"
        PROVE  \E i \in {j \in DOMAIN log : log[j].by = t} : i <= m_rev /\ Keys(log[i]) = WritesOf(t)
    <3>1. PICK i \in 1 .. Len(log) : log[i].by = t /\ i <= m_rev
      BY <2>1 DEF TokensInv, Told
    <3>2. Keys(log[i]) = WritesOf(t)
      BY <3>1 DEF TokensInv, Commits, CommitSound
    <3> QED BY <2>0, <3>1, <3>2
  <2>2. ASSUME future[t] \in Denied PROVE {j \in DOMAIN log : log[j].by = t} = {}
    <3>1. NoCommit(log, t)
      BY <2>2 DEF TokensInv, Queues, Free
    <3> QED BY <2>0, <3>1 DEF NoCommit
  <2> QED BY <2>1, <2>2
<1> QED BY <1>1, IsolationTokensInv, TransactionsSync, PTL

(* SerializableCommits: a SERIALIZABLE transaction is only committed if    *)
(* nobody named a key it ensured since it was created nor, unless it was   *)
(* forced, a key it wrote.                                                 *)
THEOREM IsolationSerializableCommits == Spec => []SerializableCommits
<1>1. TypeInv /\ TokensInv => SerializableCommits
  <2> SUFFICES ASSUME TypeInv, TokensInv, NEW i \in DOMAIN log, NEW t \in Tx, log[i].by = t,
                      isolation[t] = "SERIALIZABLE", NEW j \in rev_creation[t] + 1 .. i - 1
               PROVE  /\ Keys(log[j]) \cap ensures[t] = {}
                      /\ ~log[i].forced => Keys(log[j]) \cap Keys(log[i]) = {}
    BY DEF SerializableCommits, OwnCommit
  <2>1. i \in 1 .. Len(log)
    BY SyncTypes
  <2> QED BY <2>1 DEF TokensInv, Commits, CommitSound
<1> QED BY <1>1, IsolationTokensInv, TransactionsSync, PTL

-----------------------------------------------------------------------------
(* The keys a commit changes, as a function of the log.                    *)
ChangedIn(lg, j) ==
    DOMAIN lg[j].upserts \cup {k \in lg[j].deletes : ValueIn(lg, k, j - 1) # Null}

LEMMA ChangedIs ==
    ASSUME NEW j PROVE Changed(j) = ChangedIn(log, j) /\ Changed(j)' = ChangedIn(log', j)
BY ValueAtIs, ValueAtNext DEF Changed, ChangedIn

LEMMA ChangedGrows ==
    ASSUME NEW lg, NEW old, Extends(lg, old), NEW j \in 1 .. Len(old)
    PROVE  ChangedIn(lg, j) = ChangedIn(old, j)
<1>1. lg[j] = old[j]
  BY DEF Extends
<1>2. j - 1 \in 0 .. Len(old)
  BY DEF Extends
<1>3. \A k : ValueIn(lg, k, j - 1) = ValueIn(old, k, j - 1)
  BY <1>2, ValueInGrows
<1> QED BY <1>1, <1>3 DEF ChangedIn

LEMMA ChangedNamed == ASSUME NEW lg, NEW j PROVE ChangedIn(lg, j) \subseteq Keys(lg[j])
BY DEF ChangedIn, Keys

(* The steps of the event loop inside process_update(); the others leave   *)
(* the loop, the store and the missed commits alone.                       *)
LoopMove ==
    ProcessUpdate \/ LockTransactions \/ UpdateTx \/ ConfirmCommit \/ \E t \in Tx : VisitTx(t)

LEMMA OffLoop ==
    ASSUME [Next]_vars, ~LoopMove PROVE UNCHANGED <<loop, m_rev, missed>>
<1>1. CASE UserStep
  <2>1. PICK t \in Tx : \/ ContentOp(t)
                        \/ \E level \in Levels[t] : CreateTx(t, level)
                        \/ Discard(t) \/ DropHandle(t)
                        \/ \E f \in Forcing : Submit(t, f)
    BY <1>1, UserSteps
  <2> QED BY <2>1, ContentOpFrame DEF UserOp, CreateTx, Discard, DropHandle, Submit, client
<1>2. CASE ProcessSubmitCmd \/ ProcessSubmitResp \/ ConnectionClosed \/ Reconnected
  BY <1>2 DEF ProcessSubmitCmd, ProcessSubmitResp, ConnectionClosed, Reconnected, txvars
<1>3. CASE ServerStep \/ UNCHANGED vars
  BY <1>3 DEF ServerStep, ServerSubmit, ServerCommit, ServerPush, vars, client, txvars
<1> QED BY <1>1, <1>2, <1>3 DEF Next, LoopStep, LoopMove

(* Where the loop is, and whom it follows.                                 *)
Live(t) == state[t] \in {"OPEN", "SUBMITTED", "ACCEPTED"}
LoopAt ==
    /\ loop.pc \in {"idle", "updated"} => loop.todo = {}
    /\ loop.pc # "idle" => DOMAIN loop.changes = ChangedIn(log, m_rev)
Follows ==
    \A t \in Tx : /\ Live(t) => t \in m_transactions
                  /\ InQueue(m_commands, t) => state[t] \in {"SUBMITTED", "DISCARDED"}
LoopInv == LoopAt /\ Follows

LEMMA ProcessUpdateIs ==
    ASSUME TypeInv, SyncInv, ProcessUpdate
    PROVE  /\ loop.pc = "idle" /\ m_rev' = m_rev + 1 /\ log' = log /\ missed' = missed
           /\ loop'.pc = "updated" /\ loop'.todo = {}
           /\ DOMAIN loop'.changes = ChangedIn(log', m_rev')
<1>0. toClient \in Seq(ClientMsg) /\ Ups \in Seq(ClientMsg) /\ m_rev \in Nat /\ log \in Seq(CommitRec)
  BY SyncTypes
<1>1. /\ loop.pc = "idle" /\ toClient # <<>> /\ Head(toClient).type = "update" /\ log' = log /\ missed' = missed
      /\ m_rev' = Head(toClient).rev
      /\ loop' = [Idle EXCEPT !.pc = "updated", !.changes = Changes(log[Head(toClient).rev])]
  BY DEF ProcessUpdate, txvars
<1>2. m_con
  BY <1>1 DEF SyncInv, Wire, Disconnected
<1>3. toClient[1].type = "update" /\ toClient[1] = Head(toClient)
  BY <1>0, <1>1, TailIs
<1>4. Ups # <<>> /\ Ups[1] = Head(toClient)
  BY <1>0, <1>1, <1>3, OfTypePop DEF Ups
<1>5. m_rev' = m_rev + 1
  BY <1>0, <1>1, <1>2, <1>4, InStepPop DEF SyncInv, Copy
<1> DEFINE r == m_rev + 1  c == log[r]
<1>6. /\ loop'.pc = "updated" /\ loop'.todo = {} /\ loop'.changes = Changes(c)
  BY <1>1, <1>5 DEF Idle
<1>7. DOMAIN Changes(c) = DOMAIN c.upserts \cup (c.deletes \cap DOMAIN m_data)
  BY DEF Changes
<1>8. r \in 1 .. Len(log)
  <2>1. UpdatesKnown
    BY DEF TypeInv
  <2>2. 1 \in 1 .. Len(toClient)
    BY <1>0, <1>1, TailIs
  <2> QED BY <1>1, <1>3, <1>5, <2>1, <2>2 DEF UpdatesKnown
<1>9. c \in CommitRec
  BY <1>0, <1>8, ElementOfSeq
<1>10. ASSUME NEW k \in c.deletes PROVE k \in DOMAIN m_data <=> ValueIn(log, k, r - 1) # Null
  <2>1. k \in Key
    BY <1>9 DEF CommitRec
  <2>2. StoreValue(k) = ValueIn(log, k, m_rev)
    BY <2>1, ValueAtIs DEF SyncInv, Copy, CopyOK
  <2>3. r - 1 = m_rev
    BY <1>0
  <2>4. k \in DOMAIN m_data => m_data[k] \in Value
    BY DEF TypeInv, TypeOK, IsMap
  <2>5. Null \notin Value
    BY TxAssumption, Zenon DEF Value
  <2> HIDE DEF r
  <2> QED BY <2>2, <2>3, <2>4, <2>5 DEF StoreValue
<1> HIDE DEF c
<1>11. DOMAIN Changes(c) = ChangedIn(log, r)
  BY <1>7, <1>10 DEF ChangedIn, c
<1> QED BY <1>1, <1>5, <1>6, <1>11 DEF r

LEMMA LoopFields ==
    ASSUME TypeInv
    PROVE  /\ loop.pc \in {"idle", "updated", "visit", "update"} /\ loop.tx \in Tx \cup {Null}
           /\ (loop.pc = "update" <=> loop.tx # Null)
           /\ LockTransactions => /\ loop.pc = "updated" /\ loop'.pc = "visit" /\ loop'.todo = m_transactions
                                  /\ loop'.tx = loop.tx /\ loop'.changes = loop.changes /\ missed' = missed
           /\ UpdateTx => /\ loop.pc = "update" /\ loop'.pc = "visit" /\ loop'.todo = loop.todo
                          /\ loop'.tx = Null /\ loop'.changes = loop.changes
           /\ ConfirmCommit => /\ loop.pc = "visit" /\ loop.todo = {} /\ loop'.pc = "idle" /\ loop'.todo = {}
                               /\ loop'.tx = Null /\ missed' = missed
<1>0. loop \in LoopRec(loop.changes) /\ (loop.pc = "update" <=> loop.tx # Null)
  BY Zenon DEF TypeInv, TypeOK
<1>1. /\ loop.pc \in {"idle", "updated", "visit", "update"} /\ loop.tx \in Tx \cup {Null}
  BY <1>0 DEF LoopRec
<1>2. LockTransactions => /\ loop.pc = "updated" /\ loop'.pc = "visit" /\ loop'.todo = m_transactions
                          /\ loop'.tx = loop.tx /\ loop'.changes = loop.changes /\ missed' = missed
  BY <1>0 DEF LockTransactions, LoopRec, txvars
<1>3. UpdateTx => /\ loop.pc = "update" /\ loop'.pc = "visit" /\ loop'.todo = loop.todo
                  /\ loop'.tx = Null /\ loop'.changes = loop.changes
  BY <1>0 DEF UpdateTx, LoopRec
<1>4. ConfirmCommit => /\ loop.pc = "visit" /\ loop.todo = {} /\ loop'.pc = "idle" /\ loop'.todo = {}
                       /\ loop'.tx = Null /\ missed' = missed
  BY DEF ConfirmCommit, Idle
<1> QED BY <1>0, <1>1, <1>2, <1>3, <1>4

LEMMA VisitTxIs ==
    ASSUME TypeInv, NEW t \in Tx, VisitTx(t)
    PROVE  /\ loop.pc = "visit" /\ loop.tx = Null /\ t \in loop.todo /\ loop'.todo = loop.todo \ {t}
           /\ loop'.changes = loop.changes
           /\ \/ loop'.tx = t /\ loop'.pc = "update" /\ missed' = missed
              \/ /\ loop'.tx = Null /\ loop'.pc = "visit"
                 /\ missed[t] \subseteq missed'[t] /\ (state[t] \notin Closed => m_rev \in missed'[t])
                 /\ \A u \in Tx \ {t} : missed'[u] = missed[u]
<1>0. loop \in LoopRec(loop.changes) /\ missed \in [Tx -> SUBSET Nat] /\ (loop.pc = "update" <=> loop.tx # Null)
  BY Zenon DEF TypeInv, TypeOK
<1>1. loop.pc = "visit" /\ t \in loop.todo /\ (VisitOpen(t) \/ VisitOther(t))
  BY DEF VisitTx
<1>2. loop.tx = Null
  BY <1>0, <1>1
<1>3. CASE VisitOpen(t)
  BY <1>0, <1>1, <1>2, <1>3 DEF VisitOpen, LoopRec
<1>4. CASE VisitOther(t)
  <2>1. loop' = [loop EXCEPT !.todo = loop.todo \ {t}, !.purge = loop.purge \/ t \in Unused]
    BY <1>4 DEF VisitOther
  <2>2. /\ loop'.tx = loop.tx /\ loop'.pc = loop.pc /\ loop'.changes = loop.changes
        /\ loop'.todo = loop.todo \ {t}
    BY <1>0, <2>1 DEF LoopRec
  <2>3. missed' = IF state[t] \in Closed THEN missed ELSE [missed EXCEPT ![t] = @ \cup {m_rev}]
    BY <1>4 DEF VisitOther
  <2>4. /\ missed[t] \subseteq missed'[t] /\ (state[t] \notin Closed => m_rev \in missed'[t])
        /\ \A u \in Tx \ {t} : missed'[u] = missed[u]
    BY <1>0, <2>3
  <2> QED BY <1>1, <1>2, <2>2, <2>4
<1> QED BY <1>1, <1>3, <1>4

LEMMA NextLoopAt ==
    ASSUME TypeInv, SyncInv, LoopAt, [Next]_vars PROVE LoopAt'
<1>0. m_rev \in 1 .. Len(log)
  BY DEF SyncInv, Copy, Behind
<1>1. Extends(log', log)
  BY LogStep
<1>2. ChangedIn(log', m_rev) = ChangedIn(log, m_rev)
  BY <1>0, <1>1, ChangedGrows
<1>3. CASE ProcessUpdate
  BY <1>3, ProcessUpdateIs DEF LoopAt
<1>4. CASE LockTransactions \/ UpdateTx \/ ConfirmCommit
  <2>1. m_rev' = m_rev
    BY <1>4, LoopBusy DEF LockTransactions, UpdateTx, ConfirmCommit
  <2> QED BY <1>2, <1>4, <2>1, LoopFields DEF LoopAt
<1>5. CASE \E t \in Tx : VisitTx(t)
  <2>1. PICK t \in Tx : VisitTx(t)
    BY <1>5
  <2>2. m_rev' = m_rev
    BY <2>1 DEF VisitTx
  <2> QED BY <1>2, <2>1, <2>2, VisitTxIs DEF LoopAt
<1>6. CASE ~LoopMove
  BY <1>2, <1>6, OffLoop DEF LoopAt
<1> QED BY <1>3, <1>4, <1>5, <1>6 DEF LoopMove

LEMMA ServerFrame ==
    ASSUME ServerStep \/ UNCHANGED vars
    PROVE  /\ UNCHANGED <<m_transactions, m_commands, m_rev, m_accepted, loop>>
           /\ UNCHANGED <<state, items, ensures, dirty, seen, touched, isolation, rev_creation, missed>>
<1>1. UNCHANGED client
  BY Zenon DEF ServerStep, ServerSubmit, ServerCommit, ServerPush, vars
<1>2. UNCHANGED txvars
  BY Zenon DEF ServerStep, ServerSubmit, ServerCommit, ServerPush, vars
<1> QED BY <1>1, <1>2 DEF client, txvars, content, created

(* A transaction that leaves m_transactions is destroyed or closed.        *)
LEMMA PurgedIsClosed ==
    ASSUME TypeInv, NEW u \in Tx, u \in m_transactions, u \in Unused, Live(u)
    PROVE  Destroyed(state)[u] = "DISCARDED"
<1>1. state[u] \notin Closed
  BY DEF Live, Closed
<1>2. ~Referenced(u)
  BY <1>1 DEF Unused
<1> QED BY <1>1, <1>2 DEF Destroyed

LEMMA NextLiveKnown ==
    ASSUME TypeInv, SyncInv, Follows, [Next]_vars, NEW u \in Tx, Live(u)'
    PROVE  u \in m_transactions'
<1>0. state \in [Tx -> State] /\ StateMove(u) /\ state'[u] \in {"OPEN", "SUBMITTED", "ACCEPTED"}
  BY StateMoves DEF TypeInv, TypeOK, Live
<1>1. Live(u) \/ (state[u] = "NONE" /\ state'[u] = "OPEN")
  BY <1>0 DEF StateMove, Live, State, Closed
<1>2. CASE state[u] = "NONE" /\ state'[u] = "OPEN"
  BY <1>0, <1>2 DEF StateMove
<1>3. CASE Live(u)
  <2>1. u \in m_transactions
    BY <1>3 DEF Follows
  <2>2. CASE \E t \in Tx : \E level \in Levels[t] : CreateTx(t, level)
    <3>1. PICK t \in Tx : \E level \in Levels[t] : CreateTx(t, level)
      BY <2>2
    <3>2. /\ state[t] = "NONE" /\ state' = [Destroyed(state) EXCEPT ![t] = "OPEN"]
          /\ m_transactions' = (m_transactions \ Unused) \cup {t}
      BY <3>1 DEF CreateTx
    <3>3. u # t
      BY <1>3, <3>2 DEF Live
    <3>4. state'[u] = Destroyed(state)[u]
      BY <3>2, <3>3 DEF Destroyed
    <3>5. CASE u \in Unused
      BY <1>0, <1>3, <2>1, <3>4, <3>5, PurgedIsClosed
    <3> QED BY <2>1, <3>2, <3>5
  <2>3. CASE ConfirmCommit
    <3>1. m_transactions' = IF loop.purge THEN m_transactions \ Unused ELSE m_transactions
      BY <2>3 DEF ConfirmCommit
    <3>2. ASSUME loop.purge, u \in Unused PROVE FALSE
      <4> DEFINE a == Head(m_accepted).tx  d == Destroyed(state)
      <4>1. state' = d \/ state' = [d EXCEPT ![a] = "COMMITTED"]
        BY <2>3, <3>2 DEF ConfirmCommit
      <4>2. d[u] = "DISCARDED"
        BY <1>3, <2>1, <3>2, PurgedIsClosed
      <4>3. DOMAIN d = Tx
        BY DEF Destroyed
      <4> HIDE DEF d
      <4>4. state'[u] \in {"DISCARDED", "COMMITTED"}
        BY <4>1, <4>2, <4>3
      <4> QED BY <1>0, <4>4
    <3> QED BY <2>1, <3>1, <3>2
  <2>4. CASE m_transactions' = m_transactions
    BY <2>1, <2>4
  <2>5. CASE UserStep
    <3>1. PICK t \in Tx : \/ ContentOp(t)
                          \/ \E level \in Levels[t] : CreateTx(t, level)
                          \/ Discard(t) \/ DropHandle(t)
                          \/ \E f \in Forcing : Submit(t, f)
      BY <2>5, UserSteps
    <3> QED BY <2>2, <2>4, <3>1, ContentOpFrame DEF UserOp, Discard, DropHandle, Submit, client
  <2>6. CASE LockTransactions \/ UpdateTx \/ \E t \in Tx : VisitTx(t)
    BY <2>4, <2>6, LoopBusy
  <2>7. CASE ProcessUpdate \/ ProcessSubmitCmd \/ ProcessSubmitResp \/ ConnectionClosed \/ Reconnected
    <3>1. m_transactions' = m_transactions
      BY <2>7 DEF ProcessUpdate, ProcessSubmitCmd, ProcessSubmitResp, ConnectionClosed, Reconnected
    <3> QED BY <2>4, <3>1
  <2>8. CASE ServerStep \/ UNCHANGED vars
    BY <2>4, <2>8, ServerFrame
  <2> QED BY <2>3, <2>5, <2>6, <2>7, <2>8 DEF Next, LoopStep
<1> QED BY <1>1, <1>2, <1>3

Sending == {"SUBMITTED", "DISCARDED"}
LEMMA NextQueuedState ==
    ASSUME TypeInv, SyncInv, TokensInv, Follows, [Next]_vars, NEW u \in Tx, InQueue(m_commands', u)
    PROVE  state'[u] \in Sending
<1>0. state \in [Tx -> State] /\ m_commands \in Seq([tx : Tx, force : BOOLEAN])
  BY DEF TypeInv, TypeOK
<1>1. InQueue(m_commands, u) => state[u] \in Sending /\ ~InQueue(m_requests, u) /\ NoCommit(log, u)
  BY DEF Follows, TokensInv, Queues, Sending
<1>f. CASE m_commands' = m_commands /\ state'[u] \in {state[u], "DISCARDED"}
  BY <1>1, <1>f DEF Sending
<1>2. CASE UserStep
  <2>1. PICK t \in Tx : \/ ContentOp(t)
                        \/ \E level \in Levels[t] : CreateTx(t, level)
                        \/ Discard(t) \/ DropHandle(t)
                        \/ \E f \in Forcing : Submit(t, f)
    BY <1>2, UserSteps
  <2>2. CASE ContentOp(t) \/ DropHandle(t)
    BY <1>f, <2>2, ContentOpFrame DEF UserOp, DropHandle, client
  <2>3. CASE \E level \in Levels[t] : CreateTx(t, level)
    <3>1. /\ state[t] = "NONE" /\ state' = [Destroyed(state) EXCEPT ![t] = "OPEN"]
          /\ m_commands' = m_commands
      BY <2>3 DEF CreateTx
    <3>2. u # t
      BY <1>1, <3>1 DEF Sending
    <3>3. state'[u] \in {state[u], "DISCARDED"}
      BY <3>1, <3>2 DEF Destroyed
    <3> QED BY <1>f, <3>1, <3>3
  <2>4. CASE Discard(t)
    <3>1. state' = [state EXCEPT ![t] = "DISCARDED"] /\ m_commands' = m_commands
      BY <2>4 DEF Discard, client
    <3> QED BY <1>0, <1>f, <3>1
  <2>5. CASE \E f \in Forcing : Submit(t, f)
    <3>1. PICK f \in Forcing : Submit(t, f)
      BY <2>5
    <3> DEFINE s == SubmitOutcome(t, f).state
    <3>2. /\ state[t] = "OPEN" /\ state' = [state EXCEPT ![t] = s]
          /\ m_commands' = IF s = "SUBMITTED" THEN Append(m_commands, [tx |-> t, force |-> f]) ELSE m_commands
      BY <3>1 DEF Submit
    <3> HIDE DEF s
    <3>3. state'[t] = s /\ (u # t => state'[u] = state[u])
      BY <1>0, <3>2
    <3> DEFINE Cmd == [tx : Tx, force : BOOLEAN]  c == [tx |-> t, force |-> f]
    <3>4. c \in Cmd /\ c.tx = t /\ m_commands \in Seq(Cmd)
      BY <1>0, TxAssumption
    <3>5. CASE s = "SUBMITTED"
      <4>0. m_commands' = Append(m_commands, c)
        BY <3>2, <3>5
      <4> HIDE DEF Cmd, c
      <4>1. InQueue(m_commands, u) \/ u = t
        BY <3>4, <4>0, QueueAppend
      <4> QED BY <1>1, <3>2, <3>3, <3>5, <4>1 DEF Sending
    <3>6. CASE s # "SUBMITTED"
      BY <1>1, <3>2, <3>3, <3>6 DEF Sending
    <3> QED BY <3>5, <3>6
  <2> QED BY <2>1, <2>2, <2>3, <2>4, <2>5
<1>3. CASE LockTransactions \/ UpdateTx \/ \E t \in Tx : VisitTx(t)
  BY <1>f, <1>3, LoopBusy
<1>4. CASE ProcessUpdate \/ Reconnected
  <2>1. m_commands' = m_commands /\ state' = state
    BY <1>4 DEF ProcessUpdate, Reconnected, txvars
  <2> QED BY <1>f, <2>1
<1>9. CASE ServerStep \/ UNCHANGED vars
  BY <1>9, <1>f, ServerFrame
<1>5. CASE ConfirmCommit
  <2> DEFINE a == Head(m_accepted).tx  purged == IF loop.purge THEN Destroyed(state) ELSE state
             mine == Confirmed /\ state[a] = "ACCEPTED"
  <2>1. m_commands' = m_commands /\ state' = IF mine THEN [purged EXCEPT ![a] = "COMMITTED"] ELSE purged
    BY <1>5 DEF ConfirmCommit
  <2>2. purged[u] \in {state[u], "DISCARDED"} /\ DOMAIN purged = Tx
    BY <1>0 DEF Destroyed
  <2>3. mine => u # a
    BY <1>1, <2>1 DEF Sending
  <2> HIDE DEF purged, mine, a
  <2>4. state'[u] = purged[u]
    BY <2>1, <2>2, <2>3
  <2> QED BY <1>f, <2>1, <2>2, <2>4
<1>6. CASE ProcessSubmitCmd
  <2> DEFINE c == m_commands[1].tx
  <2>1. /\ m_commands # <<>> /\ m_commands' = Tail(m_commands)
        /\ Abort({c}) \/ state' = state
    BY <1>6, ProcessSubmitCmdIs
  <2>2. InQueue(m_commands, u) /\ u # c
    BY <1>0, <2>1, QueueTail DEF TokensInv, Queues
  <2> HIDE DEF c
  <2>3. state'[u] = state[u]
    BY <1>0, <2>1, <2>2 DEF Abort
  <2> QED BY <1>1, <2>2, <2>3
<1>7. CASE ProcessSubmitResp
  <2> DEFINE t == m_requests[1].tx  code == toClient[1].code
  <2>1. /\ m_requests # <<>> /\ m_commands' = m_commands
        /\ state' = [state EXCEPT ![t] = SubmitResult(code).state] \/ state' = state
    BY <1>7, ProcessSubmitRespIs, Zenon
  <2>2. InQueue(m_requests, t)
    BY <2>1, SyncTypes, QueueTail DEF TokensInv, Queues
  <2>3. u # t
    BY <1>1, <2>1, <2>2
  <2> HIDE DEF t, code
  <2>4. state'[u] = state[u]
    BY <1>0, <2>1, <2>3
  <2> QED BY <1>f, <2>1, <2>4
<1>8. CASE ConnectionClosed
  <2> DEFINE ts == TxsOf(m_requests) \cup TxsOf(m_accepted)
  <2>1. m_commands' = m_commands /\ Abort(ts)
    BY <1>8 DEF ConnectionClosed
  <2>2. InQueue(m_commands, u)
    BY <2>1
  <2>3. u \notin TxsOf(m_requests)
    <3>1. DOMAIN m_requests = 1 .. Len(m_requests)
      BY SyncTypes
    <3> QED BY <1>1, <2>2, <3>1 DEF TxsOf, InQueue
  <2>4. u \notin TxsOf(m_accepted)
    <3>1. DOMAIN m_accepted = 1 .. Len(m_accepted)
      BY SyncTypes
    <3>2. \A i \in 1 .. Len(m_accepted) : m_accepted[i].erev \in 1 .. Len(log) /\ log[m_accepted[i].erev].by = m_accepted[i].tx
      BY DEF SyncInv, Awaited, Ahead
    <3> QED BY <1>1, <2>2, <3>1, <3>2 DEF TxsOf, NoCommit
  <2> HIDE DEF ts
  <2>5. u \notin ts
    BY <2>3, <2>4 DEF ts
  <2>6. state'[u] = state[u]
    BY <2>1, <2>5 DEF Abort
  <2> QED BY <1>f, <2>1, <2>6
<1> QED BY <1>2, <1>3, <1>4, <1>5, <1>6, <1>7, <1>8, <1>9 DEF Next, LoopStep

LEMMA NextLoopInv ==
    ASSUME TypeInv, SyncInv, TokensInv, LoopInv, [Next]_vars PROVE LoopInv'
<1>1. LoopAt'
  BY NextLoopAt DEF LoopInv
<1>2. ASSUME NEW u \in Tx
      PROVE  (Live(u)' => u \in m_transactions') /\ (InQueue(m_commands', u) => state'[u] \in Sending)
  BY NextLiveKnown, NextQueuedState DEF LoopInv
<1>3. Follows'
  BY <1>2 DEF Follows, Sending
<1> QED BY <1>1, <1>3 DEF LoopInv

LEMMA InitLoop == ASSUME Init PROVE LoopInv
<1>1. loop.pc = "idle" /\ loop.todo = {} /\ m_commands = <<>> /\ \A t \in Tx : state[t] = "NONE"
  BY DEF Init, Idle
<1> QED BY <1>1, EmptyQueues DEF LoopInv, LoopAt, Follows, Live

-----------------------------------------------------------------------------
(* What any step does to the content and the history of a transaction.     *)
ContentMove(u) ==
    /\ ItemsStep(items[u], items'[u], dirty'[u])
    /\ SeenStep(items[u], items'[u], seen[u], seen'[u], dirty'[u])
    /\ TouchStep(items'[u], touched[u], touched'[u], BaseRev(u))
    /\ dirty[u] => dirty'[u]
CreationMove(u) ==
    /\ state[u] # "OPEN" => touched'[u] = touched[u]
    /\ state[u] # "NONE" => isolation'[u] = isolation[u] /\ rev_creation'[u] = rev_creation[u]

LEMMA ContentStays ==
    ASSUME NEW u, items'[u] = items[u], seen'[u] = seen[u], touched'[u] = touched[u], dirty'[u] = dirty[u]
    PROVE  ContentMove(u)
<1>1. ItemsStep(items[u], items'[u], dirty'[u])
  BY ItemsKept
<1>2. SeenStep(items[u], items'[u], seen[u], seen'[u], dirty'[u])
  BY SeenKept
<1>3. TouchStep(items'[u], touched[u], touched'[u], BaseRev(u))
  BY TouchKept
<1>4. dirty[u] => dirty'[u]
  OBVIOUS
<1> QED BY <1>1, <1>2, <1>3, <1>4, Zenon DEF ContentMove

LEMMA ContentMoves ==
    ASSUME TypeInv, [Next]_vars, NEW u \in Tx PROVE ContentMove(u) /\ CreationMove(u)
<1>f. ASSUME UNCHANGED <<items, seen, touched, dirty, isolation, rev_creation>>
      PROVE  ContentMove(u) /\ CreationMove(u)
  BY <1>f, ContentStays DEF CreationMove
<1>1. CASE UserStep
  <2>1. PICK t \in Tx : \/ ContentOp(t)
                        \/ \E level \in Levels[t] : CreateTx(t, level)
                        \/ Discard(t) \/ DropHandle(t)
                        \/ \E f \in Forcing : Submit(t, f)
    BY <1>1, UserSteps
  <2>2. CASE ContentOp(t)
    <3>1. state[t] = "OPEN" /\ UNCHANGED created /\ ContentStep(t)
      BY <2>2, ContentOpFrame, ContentOpStep DEF UserOp
    <3>2. CASE u = t
      BY <3>1, <3>2, Zenon DEF ContentStep, ContentMove, CreationMove, created
    <3>3. CASE u # t
      <4>1. u \in Tx \ {t}
        BY <3>3
      <4>2. /\ items'[u] = items[u] /\ seen'[u] = seen[u] /\ touched'[u] = touched[u] /\ dirty'[u] = dirty[u]
        BY <3>1, <4>1, Zenon DEF ContentStep, OthersKept
      <4>3. ContentMove(u)
        BY <4>2, ContentStays
      <4> QED BY <3>1, <4>2, <4>3 DEF CreationMove, created
    <3> QED BY <3>2, <3>3
  <2>3. CASE \E level \in Levels[t] : CreateTx(t, level)
    <3>1. PICK level \in Levels[t] : CreateTx(t, level)
      BY <2>3
    <3>2. state[t] = "NONE" /\ UNCHANGED <<items, seen, touched, dirty>>
      BY <3>1 DEF CreateTx, content
    <3>3. u # t => isolation'[u] = isolation[u] /\ rev_creation'[u] = rev_creation[u]
      BY <3>1 DEF CreateTx, TypeInv, TypeOK
    <3>4. ContentMove(u)
      BY <3>2, ContentStays
    <3> QED BY <3>2, <3>3, <3>4 DEF CreationMove
  <2>4. CASE Discard(t) \/ DropHandle(t)
    BY <1>f, <2>4 DEF Discard, DropHandle, content, created
  <2>5. CASE \E f \in Forcing : Submit(t, f)
    BY <1>f, <2>5 DEF Submit, content, created
  <2> QED BY <2>1, <2>2, <2>3, <2>4, <2>5
<1>2. CASE UpdateTx
  <2>0. PICK t \in Tx : t = loop.tx
    BY <1>2, UpdateTxIs
  <2>1. /\ \A v \in Tx \ {t} : items'[v] = items[v] /\ dirty'[v] = dirty[v]
        /\ \A k \in DOMAIN items[t] : k \in DOMAIN items'[t] /\ items'[t][k] = items[t][k]
    BY <1>2, <2>0, UpdateTxIs
  <2>2. dirty[t] => dirty'[t]
    BY <1>2, <2>0, UpdateTxIs
  <2>3. UNCHANGED <<seen, touched, created>>
    BY <1>2 DEF UpdateTx
  <2>4. ContentMove(u)
    <3>1. CASE u # t
      <4>1. items'[u] = items[u] /\ dirty'[u] = dirty[u]
        BY <2>1, <3>1
      <4> QED BY <2>3, <4>1, ContentStays
    <3>2. CASE u = t
      <4>1. ItemsStep(items[t], items'[t], dirty'[t])
        BY <2>1 DEF ItemsStep
      <4>2. SeenStep(items[t], items'[t], seen[t], seen'[t], dirty'[t])
        BY <2>3, SeenKept
      <4>3. TouchStep(items'[t], touched[t], touched'[t], BaseRev(t))
        BY <2>3, TouchKept
      <4> QED BY <2>2, <3>2, <4>1, <4>2, <4>3, Zenon DEF ContentMove
    <3> QED BY <3>1, <3>2
  <2> QED BY <2>3, <2>4 DEF CreationMove, created
<1>3. CASE LockTransactions \/ ProcessUpdate \/ ConfirmCommit
  BY <1>f, <1>3 DEF LockTransactions, ProcessUpdate, ConfirmCommit, txvars, content, created
<1>4. CASE ProcessSubmitCmd \/ ProcessSubmitResp \/ \E t \in Tx : VisitTx(t)
  BY <1>f, <1>4 DEF ProcessSubmitCmd, ProcessSubmitResp, VisitTx, content, created
<1>5. CASE ConnectionClosed \/ Reconnected
  BY <1>f, <1>5 DEF ConnectionClosed, Reconnected, txvars, content, created
<1>6. CASE ServerStep \/ UNCHANGED vars
  BY <1>f, <1>6, ServerFrame
<1> QED BY <1>1, <1>2, <1>3, <1>4, <1>5, <1>6 DEF Next, LoopStep

LEMMA MissedMoves ==
    ASSUME TypeInv, [Next]_vars, NEW u \in Tx PROVE missed[u] \subseteq missed'[u]
<1>1. CASE ~LoopMove
  BY <1>1, OffLoop
<1>2. CASE ProcessUpdate \/ LockTransactions \/ ConfirmCommit
  BY <1>2 DEF ProcessUpdate, LockTransactions, ConfirmCommit, txvars
<1>3. CASE UpdateTx
  <2>0. PICK t \in Tx : t = loop.tx
    BY <1>3, UpdateTxIs
  <2>1. missed[t] \subseteq missed'[t] /\ \A v \in Tx \ {t} : missed'[v] = missed[v]
    BY <1>3, <2>0, UpdateTxIs
  <2> QED BY <2>1
<1>4. ASSUME NEW t \in Tx, VisitTx(t) PROVE missed[u] \subseteq missed'[u]
  <2>1. missed' = missed \/ (missed[t] \subseteq missed'[t] /\ \A v \in Tx \ {t} : missed'[v] = missed[v])
    BY <1>4, VisitTxIs
  <2> QED BY <2>1
<1> QED BY <1>1, <1>2, <1>3, <1>4 DEF LoopMove

-----------------------------------------------------------------------------
(* The commits the event loop is done with, as far as transaction t goes.  *)
Shown(t, j) == j \in 1 .. m_rev /\ ~(j = m_rev /\ Pending(t))
BeingShown(t, j) == UpdateTx /\ loop.tx = t /\ state[t] = "OPEN" /\ j = m_rev

(* How a commit comes to be shown: it was before, the transaction missed   *)
(* it, or this step shows it.                                              *)
LEMMA ShownStep ==
    ASSUME TypeInv, SyncInv, LoopInv, [Next]_vars, NEW u \in Tx, Live(u), NEW j, Shown(u, j)'
    PROVE  Shown(u, j) \/ (j = m_rev /\ j \in missed'[u]) \/ BeingShown(u, j)
<1>0. m_rev \in Nat /\ u # Null /\ Null \notin Tx
  BY SyncTypes, TxAssumption
<1>1. j \in 1 .. m_rev' /\ ~(j = m_rev' /\ (loop'.pc = "updated" \/ u \in loop'.todo \/ loop'.tx = u))
  BY DEF Shown, Pending
<1>2. CASE ~LoopMove
  BY <1>1, <1>2, OffLoop DEF Shown, Pending
<1>3. CASE ProcessUpdate
  <2>1. m_rev' = m_rev + 1 /\ loop'.pc = "updated" /\ loop.pc = "idle"
    BY <1>3, ProcessUpdateIs
  <2>2. j \in 1 .. m_rev
    BY <1>0, <1>1, <2>1
  <2>3. ~Pending(u)
    <3>1. loop.todo = {}
      BY <2>1 DEF LoopInv, LoopAt
    <3>2. loop.tx = Null
      BY <2>1, LoopFields
    <3> QED BY <1>0, <2>1, <3>1, <3>2 DEF Pending
  <2> QED BY <2>2, <2>3 DEF Shown
<1>4. CASE LockTransactions
  <2>1. /\ m_rev' = m_rev /\ loop'.todo = m_transactions /\ u \in m_transactions
    BY <1>4, LoopBusy, LoopFields DEF LoopInv, Follows
  <2> QED BY <1>1, <2>1 DEF Shown
<1>5. CASE ConfirmCommit
  <2>1. m_rev' = m_rev /\ loop.pc = "visit" /\ loop.todo = {}
    BY <1>5, LoopFields DEF ConfirmCommit
  <2>2. loop.tx = Null
    BY <2>1, LoopFields
  <2> QED BY <1>0, <1>1, <2>1, <2>2 DEF Shown, Pending
<1>6. CASE UpdateTx
  <2>1. m_rev' = m_rev /\ loop.pc = "update" /\ loop'.todo = loop.todo
    BY <1>6, LoopBusy, LoopFields
  <2>2. CASE loop.tx = u
    <3>1. state[u] # "OPEN" => m_rev \in missed'[u]
      BY <1>6, <2>2, UpdateTxIs
    <3> QED BY <1>1, <1>6, <2>1, <2>2, <3>1 DEF Shown, BeingShown
  <2>3. CASE loop.tx # u
    BY <1>1, <2>1, <2>3 DEF Shown, Pending
  <2> QED BY <2>2, <2>3
<1>7. ASSUME NEW t \in Tx, VisitTx(t) PROVE Shown(u, j) \/ (j = m_rev /\ j \in missed'[u])
  <2>1. /\ loop.pc = "visit" /\ loop.tx = Null /\ loop'.todo = loop.todo \ {t}
        /\ loop'.tx = t \/ (state[t] \notin Closed => m_rev \in missed'[t])
    BY <1>7, VisitTxIs
  <2>2. m_rev' = m_rev
    BY <1>7 DEF VisitTx
  <2>3. CASE u = t
    <3>1. state[u] \notin Closed
      BY DEF Live, Closed
    <3> QED BY <1>1, <2>1, <2>2, <2>3, <3>1 DEF Shown
  <2>4. CASE u # t
    BY <1>0, <1>1, <2>1, <2>2, <2>4 DEF Shown, Pending
  <2> QED BY <2>3, <2>4
<1> QED BY <1>2, <1>3, <1>4, <1>5, <1>6, <1>7 DEF LoopMove

(* The keys a transaction has used have entries; SERIALIZABLE bases its    *)
(* use on the revision it was created at.                                  *)
TouchSound(its, tc, serial, rev) ==
    \A k \in DOMAIN tc : k \in DOMAIN its /\ (serial => tc[k] = rev)
TouchInv ==
    \A t \in Tx : TouchSound(items[t], touched[t], isolation[t] = "SERIALIZABLE", rev_creation[t])

LEMMA NextTouch ==
    ASSUME TypeInv, SyncInv, ReadsInv, TouchInv, [Next]_vars PROVE TouchInv'
<1> SUFFICES ASSUME NEW u \in Tx
             PROVE  TouchSound(items'[u], touched'[u], isolation'[u] = "SERIALIZABLE", rev_creation'[u])
  BY DEF TouchInv
<1>1. ContentMove(u) /\ CreationMove(u)
  BY ContentMoves
<1>2. CASE state[u] = "NONE"
  <2>1. DOMAIN touched'[u] = {}
    BY <1>1, <1>2 DEF CreationMove, ReadsInv, Fresh
  <2> QED BY <2>1 DEF TouchSound
<1>3. CASE state[u] # "NONE"
  <2>1. isolation'[u] = isolation[u] /\ rev_creation'[u] = rev_creation[u]
    BY <1>1, <1>3 DEF CreationMove
  <2>2. TouchSound(items[u], touched[u], isolation[u] = "SERIALIZABLE", rev_creation[u])
    BY DEF TouchInv
  <2>3. ItemsStep(items[u], items'[u], dirty'[u]) /\ TouchStep(items'[u], touched[u], touched'[u], BaseRev(u))
    BY <1>1, Zenon DEF ContentMove
  <2>4. isolation[u] = "SERIALIZABLE" => BaseRev(u) = rev_creation[u]
    BY DEF BaseRev
  <2> QED BY <2>1, <2>2, <2>3, <2>4 DEF TouchSound, TouchStep, ItemsStep
<1> QED BY <1>2, <1>3

(* A commit changed a key of ks after the transaction based its use of the *)
(* key on an earlier revision.                                             *)
Conflict(tc, lg, j, ks) == \E k \in ks \cap DOMAIN tc : tc[k] < j /\ k \in ChangedIn(lg, j)

(* The entry of a changed key is marked as such, and no value of it that   *)
(* is out of date has been shown.                                          *)
Noticed(its, sn, d, k) ==
    /\ k \in DOMAIN its
    /\ d \/ /\ its[k].action = "SNAPSHOT" \/ IsWrite(its[k])
            /\ k \in DOMAIN sn => sn[k] = Null

LEMMA NoticedKept ==
    ASSUME NEW old, NEW new, NEW sn, NEW sn2, NEW d \in BOOLEAN, NEW d2 \in BOOLEAN, d => d2,
           ItemsStep(old, new, d2), SeenStep(old, new, sn, sn2, d2), NEW k, Noticed(old, sn, d, k)
    PROVE  Noticed(new, sn2, d2, k)
<1>1. k \in DOMAIN old /\ k \in DOMAIN new
  BY DEF Noticed, ItemsStep
<1>2. CASE d2
  BY <1>1, <1>2 DEF Noticed
<1>3. CASE ~d2
  <2>1. /\ old[k].action = "SNAPSHOT" \/ IsWrite(old[k])
        /\ k \in DOMAIN sn => sn[k] = Null
    BY <1>3 DEF Noticed
  <2>2. new[k].action = "SNAPSHOT" \/ IsWrite(new[k])
    BY <1>1, <1>3, <2>1 DEF ItemsStep
  <2>3. ASSUME k \in DOMAIN sn2 PROVE sn2[k] = Null
    <3>1. CASE k \in DOMAIN sn
      BY <2>1, <3>1 DEF SeenStep
    <3>2. CASE k \notin DOMAIN sn
      <4>1. ~IsWrite(old[k]) /\ (old[k].action = "SNAPSHOT" /\ sn2[k] # Null => d2)
        BY <1>1, <2>3, <3>2 DEF SeenStep
      <4> QED BY <1>3, <2>1, <4>1
    <3> QED BY <3>1, <3>2
  <2> QED BY <1>1, <2>2, <2>3 DEF Noticed
<1> QED BY <1>2, <1>3

(* The dirty flag of a transaction that is not closed, for every commit    *)
(* shown to it.                                                            *)
DirtyPlain(t) ==
    \A j : Shown(t, j) /\ Conflict(touched[t], log, j, Key) => dirty[t] \/ j \in missed[t]
DirtySerial(t) ==
    \A j : Shown(t, j) /\ rev_creation[t] < j /\ j \notin missed[t] =>
        \A k \in ChangedIn(log, j) : Noticed(items[t], seen[t], dirty[t], k)
DirtyInv ==
    \A t \in Tx : Live(t) =>
        /\ isolation[t] # "SERIALIZABLE" => DirtyPlain(t)
        /\ isolation[t] = "SERIALIZABLE" => DirtySerial(t)

LEMMA ShownInLog ==
    ASSUME TypeInv, SyncInv, NEW t, NEW j, Shown(t, j) PROVE j \in 1 .. Len(log) /\ j \in 1 .. m_rev
<1>1. m_rev \in 1 .. Len(log) /\ Len(log) \in Nat
  BY SyncTypes DEF SyncInv, Copy, Behind
<1> QED BY <1>1 DEF Shown

LEMMA NextDirtyPlain ==
    ASSUME TypeInv, SyncInv, LoopInv, TouchInv, [Next]_vars, NEW u \in Tx, Live(u),
           isolation[u] # "SERIALIZABLE", DirtyPlain(u)
    PROVE  DirtyPlain(u)'
<1> SUFFICES ASSUME NEW j, Shown(u, j)', Conflict(touched'[u], log', j, Key)
             PROVE  dirty'[u] \/ j \in missed'[u]
  BY DEF DirtyPlain
<1>0. /\ missed[u] \subseteq missed'[u] /\ (dirty[u] => dirty'[u]) /\ Extends(log', log)
      /\ TouchStep(items'[u], touched[u], touched'[u], BaseRev(u))
  BY ContentMoves, MissedMoves, LogStep, Zenon DEF ContentMove
<1>1. PICK k \in Key \cap DOMAIN touched'[u] : touched'[u][k] < j /\ k \in ChangedIn(log', j)
  BY DEF Conflict
<1>2. CASE Shown(u, j)
  <2>1. j \in 1 .. Len(log) /\ j \in 1 .. m_rev
    BY <1>2, ShownInLog
  <2>2. k \in ChangedIn(log, j)
    BY <1>0, <1>1, <2>1, ChangedGrows
  <2>3. k \in DOMAIN touched[u] /\ touched[u][k] < j
    <3>1. CASE k \in DOMAIN touched[u]
      BY <1>0, <1>1, <3>1 DEF TouchStep
    <3>2. CASE k \notin DOMAIN touched[u]
      <4>1. touched'[u][k] = m_rev
        BY <1>0, <1>1, <3>2 DEF TouchStep, BaseRev
      <4>2. m_rev \in Nat
        BY SyncTypes
      <4> QED BY <1>1, <2>1, <4>1, <4>2
    <3> QED BY <3>1, <3>2
  <2>4. Conflict(touched[u], log, j, Key)
    BY <2>2, <2>3 DEF Conflict
  <2>5. dirty[u] \/ j \in missed[u]
    BY <1>2, <2>4 DEF DirtyPlain
  <2> QED BY <1>0, <2>5, Zenon
<1>3. CASE BeingShown(u, j)
  <2>1. UpdateTx /\ loop.tx = u /\ j = m_rev
    BY <1>3 DEF BeingShown
  <2>2. touched' = touched /\ log' = log /\ loop.pc = "update"
    BY <2>1, LoopBusy DEF UpdateTx, server
  <2>3. k \in DOMAIN items[u]
    BY <1>1, <2>2 DEF TouchInv, TouchSound
  <2>4. k \in DOMAIN loop.changes
    BY <1>1, <2>1, <2>2 DEF LoopInv, LoopAt
  <2>5. DOMAIN loop.changes \cap DOMAIN items[u] # {}
    BY <2>3, <2>4
  <2>6. dirty[u] \/ DOMAIN loop.changes \cap DOMAIN items[u] # {} => dirty'[u]
    BY <2>1, UpdateTxIs
  <2> QED BY <2>5, <2>6, Zenon
<1> QED BY <1>2, <1>3, ShownStep

LEMMA NextDirtySerial ==
    ASSUME TypeInv, SyncInv, ReadsInv, LoopInv, TypeInv', [Next]_vars, NEW u \in Tx, Live(u),
           isolation[u] = "SERIALIZABLE", DirtySerial(u)
    PROVE  DirtySerial(u)'
<1>0. /\ missed[u] \subseteq missed'[u] /\ (dirty[u] => dirty'[u]) /\ Extends(log', log)
      /\ ItemsStep(items[u], items'[u], dirty'[u])
      /\ SeenStep(items[u], items'[u], seen[u], seen'[u], dirty'[u])
  BY ContentMoves, MissedMoves, LogStep, Zenon DEF ContentMove
<1>r. rev_creation'[u] = rev_creation[u]
  BY ContentMoves DEF CreationMove, Live
<1>b. dirty[u] \in BOOLEAN /\ dirty'[u] \in BOOLEAN
  BY DEF TypeInv, TypeOK
<1> SUFFICES ASSUME NEW j, Shown(u, j)', rev_creation[u] < j, j \notin missed'[u], NEW k \in ChangedIn(log', j)
             PROVE  Noticed(items'[u], seen'[u], dirty'[u], k)
  BY <1>r DEF DirtySerial
<1>2. CASE Shown(u, j)
  <2>1. j \in 1 .. Len(log)
    BY <1>2, ShownInLog
  <2>2. k \in ChangedIn(log, j)
    BY <1>0, <2>1, ChangedGrows
  <2>3. j \notin missed[u]
    BY <1>0
  <2>4. Noticed(items[u], seen[u], dirty[u], k)
    BY <1>2, <2>2, <2>3 DEF DirtySerial
  <2> QED BY <1>0, <1>b, <2>4, NoticedKept
<1>3. CASE BeingShown(u, j)
  <2>1. UpdateTx /\ loop.tx = u /\ j = m_rev
    BY <1>3 DEF BeingShown
  <2>2. seen' = seen /\ log' = log /\ loop.pc = "update"
    BY <2>1, LoopBusy DEF UpdateTx, server
  <2>3. k \in DOMAIN loop.changes
    BY <2>1, <2>2 DEF LoopInv, LoopAt
  <2>4. /\ k \in DOMAIN items'[u] /\ (k \notin DOMAIN items[u] => items'[u][k].action = "SNAPSHOT")
    BY <2>1, <2>3, UpdateTxIs
  <2>5. k \in DOMAIN items[u] => dirty'[u]
    <3>1. DOMAIN loop.changes \cap DOMAIN items[u] # {} => dirty'[u]
      BY <2>1, UpdateTxIs
    <3>2. k \in DOMAIN items[u] => DOMAIN loop.changes \cap DOMAIN items[u] # {}
      BY <2>3
    <3> QED BY <3>1, <3>2, Zenon
  <2>6. k \notin DOMAIN items[u] => k \notin DOMAIN seen'[u]
    <3>1. Pins(u)
      BY DEF Pins
    <3> QED BY <2>2, <3>1 DEF ReadsInv, Kept
  <2> QED BY <2>4, <2>5, <2>6 DEF Noticed
<1> QED BY <1>2, <1>3, ShownStep

LEMMA NextDirty ==
    ASSUME TypeInv, TypeInv', SyncInv, ReadsInv, LoopInv, TouchInv, DirtyInv, [Next]_vars PROVE DirtyInv'
<1> SUFFICES ASSUME NEW u \in Tx, Live(u)'
             PROVE  /\ isolation'[u] # "SERIALIZABLE" => DirtyPlain(u)'
                    /\ isolation'[u] = "SERIALIZABLE" => DirtySerial(u)'
  BY DEF DirtyInv
<1>0. StateMove(u) /\ CreationMove(u) /\ state \in [Tx -> State]
  BY StateMoves, ContentMoves DEF TypeInv, TypeOK
<1>1. Live(u) \/ (state[u] = "NONE" /\ state'[u] = "OPEN")
  BY <1>0 DEF StateMove, Live, State, Closed
<1>2. CASE state[u] = "NONE" /\ state'[u] = "OPEN"
  <2>1. DOMAIN touched'[u] = {}
    BY <1>0, <1>2 DEF CreationMove, ReadsInv, Fresh
  <2>2. \A j : ~Conflict(touched'[u], log', j, Key)
    BY <2>1 DEF Conflict
  <2>3. rev_creation'[u] = m_rev /\ m_rev' = m_rev
    BY <1>0, <1>2 DEF StateMove
  <2>4. \A j : Shown(u, j)' => ~(rev_creation'[u] < j)
    <3>1. m_rev \in Nat
      BY SyncTypes
    <3> QED BY <2>3, <3>1 DEF Shown
  <2> QED BY <2>2, <2>4, Zenon DEF DirtyPlain, DirtySerial
<1>3. CASE Live(u)
  <2>1. isolation'[u] = isolation[u]
    BY <1>0, <1>3 DEF CreationMove, Live
  <2> QED BY <1>3, <2>1, NextDirtyPlain, NextDirtySerial DEF DirtyInv
<1> QED BY <1>1, <1>2, <1>3

FollowInv == LoopInv /\ TouchInv /\ DirtyInv

(* The inductive form of DirtySound: for every transaction that is not     *)
(* closed and every commit the event loop is done with, a change of a key  *)
(* it used has set m_dirty, or is one that the loop skipped because the    *)
(* transaction was being submitted; a SERIALIZABLE transaction has an      *)
(* entry for every key changed since it was created.                       *)
THEOREM IsolationFollowInv == Spec => []FollowInv
<1>1. ASSUME Init PROVE FollowInv
  <2>1. \A t \in Tx : touched[t] = EmptyMap /\ DOMAIN EmptyMap = {} /\ state[t] = "NONE"
    BY <1>1 DEF Init, EmptyMap
  <2>2. TouchInv
    BY <2>1 DEF TouchInv, TouchSound
  <2>3. DirtyInv
    BY <2>1 DEF DirtyInv, Live
  <2> QED BY <1>1, <2>2, <2>3, InitLoop DEF FollowInv
<1>2. TypeInv /\ TypeInv' /\ SyncInv /\ ReadsInv /\ TokensInv /\ FollowInv /\ [Next]_vars => FollowInv'
  BY NextLoopInv, NextTouch, NextDirty DEF FollowInv
<1> QED BY <1>1, <1>2, TransactionsSync, IsolationReadsInv, IsolationTokensInv, PTL DEF Spec

LEMMA ConflictIs ==
    ASSUME NEW t, NEW j, NEW ks PROVE ConflictAt(t, j, ks) <=> Conflict(touched[t], log, j, ks)
BY ChangedIs, Zenon DEF ConflictAt, Conflict

(* DirtySound: is_dirty() tells the truth.  An open transaction is dirty   *)
(* as soon as the event loop is done with a commit that changed a key it   *)
(* used, unless the loop skipped it because the transaction was SUBMITTED  *)
(* at that moment.                                                         *)
THEOREM IsolationDirtySound == Spec => []DirtySound
<1>1. TypeInv /\ FollowInv => DirtySound
  <2> SUFFICES ASSUME TypeInv, FollowInv, NEW t \in Tx, state[t] = "OPEN", ~Pending(t),
                      NEW j \in 1 .. m_rev, Conflict(touched[t], log, j, Used(t)), j \notin missed[t]
               PROVE  dirty[t]
    BY ConflictIs DEF DirtySound
  <2>1. Shown(t, j) /\ Live(t)
    BY DEF Shown, Live
  <2>2. PICK k \in Used(t) \cap DOMAIN touched[t] : touched[t][k] < j /\ k \in ChangedIn(log, j)
    BY DEF Conflict
  <2>3. CASE isolation[t] # "SERIALIZABLE"
    <3>1. DirtyPlain(t) /\ Used(t) = Key
      BY <2>1, <2>3 DEF FollowInv, DirtyInv, Used
    <3>2. Conflict(touched[t], log, j, Key)
      BY <3>1
    <3>3. dirty[t] \/ j \in missed[t]
      BY <2>1, <3>1, <3>2, Zenon DEF DirtyPlain
    <3> QED BY <3>3, Zenon
  <2>4. CASE isolation[t] = "SERIALIZABLE"
    <3>1. DirtySerial(t) /\ k \in DOMAIN seen[t] /\ seen[t][k] # Null
      BY <2>1, <2>2, <2>4 DEF FollowInv, DirtyInv, Used
    <3>2. touched[t][k] = rev_creation[t]
      BY <2>2, <2>4 DEF FollowInv, TouchInv, TouchSound
    <3>3. Noticed(items[t], seen[t], dirty[t], k)
      BY <2>1, <2>2, <3>1, <3>2 DEF DirtySerial
    <3> QED BY <3>1, <3>3, Zenon DEF Noticed
  <2> QED BY <2>3, <2>4
<1> QED BY <1>1, IsolationFollowInv, TransactionsSync, PTL

-----------------------------------------------------------------------------
(* From submit() to the commit.  A transaction that is queued, on the wire *)
(* or committed, unforced and not SERIALIZABLE, only conflicts with        *)
(* commits it missed.                                                      *)
Followed(t) == isolation[t] # "SERIALIZABLE" /\ state[t] # "DISCARDED"
QueuedOnlyMissed ==
    \A i \in 1 .. Len(m_commands), t \in Tx : m_commands[i].tx = t /\ ~m_commands[i].force /\ Followed(t) =>
        \A j : Shown(t, j) /\ Conflict(touched[t], log, j, Key) => j \in missed[t]
SentOnlyMissed ==
    \A i \in 1 .. Len(toServer), t \in Tx : toServer[i].tx = t /\ ~toServer[i].force /\ Followed(t) =>
        /\ toServer[i].crev \in 0 .. Len(log)
        /\ \A j \in 1 .. toServer[i].crev : Conflict(touched[t], log, j, Key) => j \in missed[t]
CommittedOnlyMissed ==
    \A i \in 1 .. Len(log), t \in Tx : log[i].by = t /\ ~log[i].forced /\ Followed(t) =>
        \A j \in 1 .. i - 1 : Conflict(touched[t], log, j, Keys(log[i])) => j \in missed[t]
SentInv == QueuedOnlyMissed /\ SentOnlyMissed /\ CommittedOnlyMissed

LEMMA ConflictGrows ==
    ASSUME NEW lg, NEW old, Extends(lg, old), NEW tc, NEW ks, NEW j \in 1 .. Len(old)
    PROVE  Conflict(tc, lg, j, ks) <=> Conflict(tc, old, j, ks)
<1>1. ChangedIn(lg, j) = ChangedIn(old, j)
  BY ChangedGrows
<1> QED BY <1>1 DEF Conflict

LEMMA SentKept ==
    ASSUME TypeInv, SyncInv, [Next]_vars, NEW u \in Tx, state[u] \notin Unsent
    PROVE  /\ Followed(u)' => Followed(u)
           /\ touched'[u] = touched[u] /\ missed[u] \subseteq missed'[u]
<1>1. CreationMove(u) /\ StateMove(u) /\ missed[u] \subseteq missed'[u]
  BY ContentMoves, StateMoves, MissedMoves
<1> QED BY <1>1 DEF CreationMove, StateMove, Unsent, Followed, Closed

(* The elements of the queues after a step: old ones, or the new one.      *)
NewCommand(t, f) ==
    Submit(t, f) /\ SubmitOutcome(t, f).state = "SUBMITTED"
LEMMA CommandsGrow ==
    ASSUME TypeInv, [Next]_vars, NEW i \in 1 .. Len(m_commands')
    PROVE  \/ \E n \in 1 .. Len(m_commands) : m_commands'[i] = m_commands[n]
           \/ \E t \in Tx, f \in Forcing : NewCommand(t, f) /\ m_commands'[i] = [tx |-> t, force |-> f]
<1> DEFINE Cmd == [tx : Tx, force : BOOLEAN]
<1>0. m_commands \in Seq(Cmd)
  BY DEF TypeInv, TypeOK
<1>f. CASE m_commands' = m_commands
  BY <1>f
<1>1. CASE UserStep
  <2>1. PICK t \in Tx : \/ ContentOp(t)
                        \/ \E level \in Levels[t] : CreateTx(t, level)
                        \/ Discard(t) \/ DropHandle(t)
                        \/ \E f \in Forcing : Submit(t, f)
    BY <1>1, UserSteps
  <2>2. CASE ContentOp(t) \/ (\E level \in Levels[t] : CreateTx(t, level)) \/ Discard(t) \/ DropHandle(t)
    BY <1>f, <2>2, ContentOpFrame DEF UserOp, CreateTx, Discard, DropHandle, client
  <2>3. ASSUME NEW f \in Forcing, Submit(t, f)
        PROVE  \/ \E n \in 1 .. Len(m_commands) : m_commands'[i] = m_commands[n]
               \/ NewCommand(t, f) /\ m_commands'[i] = [tx |-> t, force |-> f]
    <3> DEFINE s == SubmitOutcome(t, f).state  c == [tx |-> t, force |-> f]
    <3>1. m_commands' = IF s = "SUBMITTED" THEN Append(m_commands, c) ELSE m_commands
      BY <2>3 DEF Submit
    <3>2. c \in Cmd
      BY TxAssumption
    <3> HIDE DEF s, c, Cmd
    <3>3. CASE s = "SUBMITTED"
      <4>1. m_commands' = Append(m_commands, c)
        BY <3>1, <3>3
      <4>2. (i \in 1 .. Len(m_commands) /\ m_commands'[i] = m_commands[i]) \/ m_commands'[i] = c
        BY <1>0, <3>2, <4>1, AppendIs
      <4> QED BY <2>3, <3>3, <4>2 DEF NewCommand, s, c
    <3>4. CASE s # "SUBMITTED"
      BY <3>1, <3>4
    <3> QED BY <3>3, <3>4
  <2> QED BY <2>1, <2>2, <2>3
<1>2. CASE LockTransactions \/ UpdateTx \/ \E t \in Tx : VisitTx(t)
  BY <1>2, <1>f, LoopBusy
<1>3. CASE ProcessUpdate \/ ConfirmCommit \/ ProcessSubmitResp \/ ConnectionClosed \/ Reconnected
  BY <1>3, <1>f DEF ProcessUpdate, ConfirmCommit, ProcessSubmitResp, ConnectionClosed, Reconnected
<1>4. CASE ProcessSubmitCmd
  <2>1. m_commands # <<>> /\ m_commands' = Tail(m_commands)
    BY <1>4, ProcessSubmitCmdIs
  <2> HIDE DEF Cmd
  <2>2. i + 1 \in 1 .. Len(m_commands) /\ m_commands'[i] = m_commands[i + 1]
    BY <1>0, <2>1, TailIs
  <2> QED BY <2>2
<1>5. CASE ServerStep \/ UNCHANGED vars
  BY <1>5, <1>f, ServerFrame
<1> QED BY <1>1, <1>2, <1>3, <1>4, <1>5 DEF Next, LoopStep

NewRequest(c) ==
    /\ ProcessSubmitCmd /\ m_commands # <<>> /\ c = m_commands[1]
    /\ c.tx \in Tx
LEMMA RequestsGrow ==
    ASSUME TypeInv, [Next]_vars, NEW i \in 1 .. Len(toServer')
    PROVE  \/ \E n \in 1 .. Len(toServer) : toServer'[i] = toServer[n]
           \/ \E c : NewRequest(c) /\ toServer'[i] = SubmitMsg(c.tx, m_correlation, c.force)
<1>0. toServer \in Seq(SubmitRec)
  BY SyncTypes
<1>f. CASE toServer' = toServer
  BY <1>f
<1>1. CASE UserStep
  <2>1. PICK t \in Tx : \/ ContentOp(t)
                        \/ \E level \in Levels[t] : CreateTx(t, level)
                        \/ Discard(t) \/ DropHandle(t)
                        \/ \E f \in Forcing : Submit(t, f)
    BY <1>1, UserSteps
  <2> QED BY <1>f, <2>1, ContentOpFrame DEF UserOp, CreateTx, Discard, DropHandle, Submit, server
<1>2. CASE LockTransactions \/ UpdateTx \/ \E t \in Tx : VisitTx(t)
  BY <1>2, <1>f, LoopBusy DEF server
<1>3. CASE ProcessUpdate \/ ConfirmCommit \/ ProcessSubmitResp \/ Reconnected
  BY <1>3, <1>f DEF ProcessUpdate, ConfirmCommit, ProcessSubmitResp, Reconnected, server
<1>4. CASE ProcessSubmitCmd
  <2> DEFINE c == m_commands[1]  m == SubmitMsg(c.tx, m_correlation, c.force)
  <2>1. /\ m_commands # <<>> /\ c.tx \in Tx
        /\ toServer' = toServer \/ (m \in SubmitRec /\ toServer' = Append(toServer, m))
    BY <1>4, ProcessSubmitCmdIs, Zenon
  <2>2. NewRequest(c)
    BY <1>4, <2>1 DEF NewRequest
  <2> HIDE DEF c, m
  <2>3. CASE m \in SubmitRec /\ toServer' = Append(toServer, m)
    <3>1. (i \in 1 .. Len(toServer) /\ toServer'[i] = toServer[i]) \/ toServer'[i] = m
      BY <1>0, <2>3, AppendIs
    <3> QED BY <2>2, <3>1 DEF m
  <2> QED BY <1>f, <2>1, <2>3
<1>5. CASE ConnectionClosed
  <2>1. toServer' = <<>> /\ Len(<<>>) = 0
    BY <1>5 DEF ConnectionClosed
  <2> QED BY <2>1
<1>6. CASE ServerSubmit
  <2>1. toServer # <<>> /\ toServer' = Tail(toServer)
    BY <1>6 DEF ServerSubmit
  <2>2. i + 1 \in 1 .. Len(toServer) /\ toServer'[i] = toServer[i + 1]
    BY <1>0, <2>1, TailIs
  <2> QED BY <2>2
<1>7. CASE ServerCommit \/ ServerPush \/ UNCHANGED vars
  <2>1. CASE ServerCommit \/ ServerPush
    <3>1. toServer' = toServer
      BY <2>1, Zenon DEF ServerCommit, ServerPush
    <3> QED BY <1>f, <3>1
  <2>2. CASE UNCHANGED vars
    BY <1>f, <2>2 DEF vars, server
  <2> QED BY <1>7, <2>1, <2>2
<1> QED BY <1>1, <1>2, <1>3, <1>4, <1>5, <1>6, <1>7 DEF Next, LoopStep, ServerStep

LEMMA NextQueuedOnlyMissed ==
    ASSUME TypeInv, SyncInv, TokensInv, FollowInv, QueuedOnlyMissed, [Next]_vars
    PROVE  QueuedOnlyMissed'
<1> SUFFICES ASSUME NEW i \in 1 .. Len(m_commands'), NEW u \in Tx, m_commands'[i].tx = u,
                    ~m_commands'[i].force, Followed(u)', NEW j, Shown(u, j)',
                    Conflict(touched'[u], log', j, Key)
             PROVE  j \in missed'[u]
  BY DEF QueuedOnlyMissed
<1>0. Extends(log', log)
  BY LogStep
<1>1. ASSUME NEW n \in 1 .. Len(m_commands), m_commands'[i] = m_commands[n] PROVE j \in missed'[u]
  <2>1. m_commands[n].tx = u /\ ~m_commands[n].force /\ InQueue(m_commands, u)
    BY <1>1 DEF InQueue
  <2>2. state[u] \in {"SUBMITTED", "DISCARDED"}
    BY <2>1 DEF FollowInv, LoopInv, Follows
  <2>3. Followed(u) /\ touched'[u] = touched[u] /\ missed[u] \subseteq missed'[u]
    BY <2>2, SentKept DEF Unsent
  <2>4. Live(u) /\ state[u] # "OPEN"
    BY <2>2, <2>3 DEF Followed, Live
  <2>5. Shown(u, j) \/ j \in missed'[u]
    BY <2>4, ShownStep DEF FollowInv, BeingShown
  <2>6. CASE Shown(u, j)
    <3>1. j \in 1 .. Len(log)
      BY <2>6, ShownInLog
    <3>2. Conflict(touched[u], log, j, Key)
      BY <1>0, <2>3, <3>1, ConflictGrows
    <3> QED BY <2>1, <2>3, <2>6, <3>2 DEF QueuedOnlyMissed
  <2> QED BY <2>5, <2>6
<1>2. ASSUME NEW t \in Tx, NEW f \in Forcing, NewCommand(t, f), m_commands'[i] = [tx |-> t, force |-> f]
      PROVE  j \in missed'[u]
  <2>1. t = u /\ ~f
    BY <1>2
  <2>2. Submit(u, f) /\ SubmitOutcome(u, f).state = "SUBMITTED"
    BY <1>2, <2>1 DEF NewCommand
  <2>3. state[u] = "OPEN" /\ UNCHANGED <<log, touched, missed, loop, m_rev, isolation>>
    BY <2>2 DEF Submit, server, content, created
  <2>4. ~dirty[u]
    BY <2>1, <2>2 DEF SubmitOutcome
  <2>5. Live(u) /\ isolation[u] # "SERIALIZABLE"
    BY <2>3 DEF Live, Followed
  <2>6. DirtyPlain(u)
    BY <2>5 DEF FollowInv, DirtyInv
  <2>7. Shown(u, j) /\ Conflict(touched[u], log, j, Key)
    BY <2>3 DEF Shown, Pending
  <2>8. dirty[u] \/ j \in missed[u]
    BY <2>6, <2>7, Zenon DEF DirtyPlain
  <2>9. j \in missed[u]
    BY <2>4, <2>8, Zenon
  <2> QED BY <2>3, <2>9
<1> QED BY <1>1, <1>2, CommandsGrow

LEMMA NextSentOnlyMissed ==
    ASSUME TypeInv, SyncInv, TokensInv, FollowInv, QueuedOnlyMissed, SentOnlyMissed, [Next]_vars
    PROVE  SentOnlyMissed'
<1> SUFFICES ASSUME NEW i \in 1 .. Len(toServer'), NEW u \in Tx, toServer'[i].tx = u,
                    ~toServer'[i].force, Followed(u)'
             PROVE  /\ toServer'[i].crev \in 0 .. Len(log')
                    /\ \A j \in 1 .. toServer'[i].crev : Conflict(touched'[u], log', j, Key) => j \in missed'[u]
  BY DEF SentOnlyMissed
<1> DEFINE Goal == /\ toServer'[i].crev \in 0 .. Len(log')
                   /\ \A j \in 1 .. toServer'[i].crev : Conflict(touched'[u], log', j, Key) => j \in missed'[u]
<1>0. Extends(log', log) /\ Len(log) \in Nat
  BY LogStep DEF Extends
<1>1. ASSUME NEW n \in 1 .. Len(toServer), toServer'[i] = toServer[n] PROVE Goal
  <2> DEFINE r == toServer[n].crev
  <2>1. toServer[n].tx = u /\ ~toServer[n].force
    BY <1>1
  <2>2. state[u] \notin Unsent
    BY <2>1, RequestKept
  <2>3. Followed(u) /\ touched'[u] = touched[u] /\ missed[u] \subseteq missed'[u]
    BY <2>2, SentKept
  <2>4. r \in 0 .. Len(log) /\ \A j \in 1 .. r : Conflict(touched[u], log, j, Key) => j \in missed[u]
    BY <2>1, <2>3 DEF SentOnlyMissed
  <2>5. toServer'[i].crev = r
    BY <1>1
  <2> HIDE DEF r
  <2>6. r \in 0 .. Len(log')
    BY <1>0, <2>4 DEF Extends
  <2>7. ASSUME NEW j \in 1 .. r, Conflict(touched'[u], log', j, Key) PROVE j \in missed'[u]
    <3>1. j \in 1 .. Len(log)
      BY <1>0, <2>4
    <3>2. Conflict(touched[u], log, j, Key)
      BY <1>0, <2>3, <2>7, <3>1, ConflictGrows
    <3> QED BY <2>3, <2>4, <3>2
  <2> QED BY <2>5, <2>6, <2>7
<1>2. ASSUME NEW c, NewRequest(c), toServer'[i] = SubmitMsg(c.tx, m_correlation, c.force) PROVE Goal
  <2>1. /\ ProcessSubmitCmd /\ m_commands # <<>> /\ c = m_commands[1] /\ c.tx \in Tx
    BY <1>2 DEF NewRequest
  <2>2. /\ toServer'[i].tx = c.tx /\ toServer'[i].force = c.force
        /\ isolation[c.tx] # "SERIALIZABLE" => toServer'[i].crev = m_rev
    BY <1>2 DEF SubmitMsg
  <2>3. c.tx = u /\ ~c.force
    BY <2>2
  <2>4. UNCHANGED <<log, touched, missed, isolation, loop, m_rev>> /\ loop.pc = "idle"
    BY <2>1 DEF ProcessSubmitCmd, content, created
  <2>5. 1 \in 1 .. Len(m_commands)
    <3> DEFINE Cmd == [tx : Tx, force : BOOLEAN]
    <3>1. m_commands \in Seq(Cmd)
      BY DEF TypeInv, TypeOK
    <3> HIDE DEF Cmd
    <3> QED BY <2>1, <3>1, TailIs
  <2>6. Followed(u)
    <3>1. InQueue(m_commands, u)
      BY <2>1, <2>3, <2>5 DEF InQueue
    <3>2. state[u] \in {"SUBMITTED", "DISCARDED"}
      BY <3>1 DEF FollowInv, LoopInv, Follows
    <3> QED BY <3>2, SentKept DEF Unsent
  <2>7. \A j : Shown(u, j) /\ Conflict(touched[u], log, j, Key) => j \in missed[u]
    BY <2>1, <2>3, <2>5, <2>6 DEF QueuedOnlyMissed
  <2>8. toServer'[i].crev = m_rev /\ m_rev \in 1 .. Len(log)
    BY <2>2, <2>3, <2>6 DEF Followed, SyncInv, Copy, Behind
  <2>9. ~Pending(u)
    <3>1. loop.todo = {} /\ loop.tx = Null /\ u # Null
      BY <2>4, LoopFields, TxAssumption DEF FollowInv, LoopInv, LoopAt
    <3> QED BY <2>4, <3>1 DEF Pending
  <2>10. \A j \in 1 .. m_rev : Shown(u, j)
    BY <2>9 DEF Shown
  <2> QED BY <1>0, <2>4, <2>7, <2>8, <2>10
<1> HIDE DEF Goal
<1>3. Goal
  BY <1>1, <1>2, RequestsGrow
<1> QED BY <1>3 DEF Goal

LEMMA NextCommittedOnlyMissed ==
    ASSUME TypeInv, SyncInv, TokensInv, SentOnlyMissed, CommittedOnlyMissed, [Next]_vars
    PROVE  CommittedOnlyMissed'
<1> SUFFICES ASSUME NEW i \in 1 .. Len(log'), NEW u \in Tx, log'[i].by = u, ~log'[i].forced, Followed(u)',
                    NEW j \in 1 .. i - 1, Conflict(touched'[u], log', j, Keys(log'[i]))
             PROVE  j \in missed'[u]
  BY DEF CommittedOnlyMissed
<1>0. Extends(log', log) /\ log \in Seq(CommitRec) /\ Len(log) \in Nat /\ Len(log') \in Nat
  BY LogStep, SyncTypes DEF Extends
<1>1. CASE i \in 1 .. Len(log)
  <2>1. log'[i] = log[i]
    BY <1>0, <1>1 DEF Extends
  <2>2. ~NoCommit(log, u)
    BY <1>1, <2>1 DEF NoCommit
  <2>3. state[u] \notin Unsent
    BY <2>2 DEF TokensInv, Queues, Free
  <2>4. Followed(u) /\ touched'[u] = touched[u] /\ missed[u] \subseteq missed'[u]
    BY <2>3, SentKept
  <2>5. j \in 1 .. Len(log)
    BY <1>0, <1>1
  <2>6. Conflict(touched[u], log, j, Keys(log[i]))
    BY <1>0, <2>1, <2>4, <2>5, ConflictGrows
  <2>7. j \in missed[u]
    BY <1>1, <2>1, <2>4, <2>6 DEF CommittedOnlyMissed
  <2> QED BY <2>4, <2>7
<1>2. CASE i \notin 1 .. Len(log)
  <2>1. log' # log
    BY <1>2
  <2>2. ServerSubmit \/ ServerCommit
    BY <2>1, LogStep
  <2>3. CASE ServerCommit
    <3>1. PICK c \in OtherCommit : log' = Append(log, Commit(Other, Null, FALSE, c.upserts, c.deletes))
      BY <2>3 DEF ServerCommit
    <3> DEFINE x == Commit(Other, Null, FALSE, c.upserts, c.deletes)
    <3>2. c.upserts \in PartialFcn(Key, Data) /\ c.deletes \subseteq Key
      BY TxAssumption, MapIs
    <3>3. x \in CommitRec /\ x.by = Null
      BY <3>2, TxAssumption DEF Commit, CommitRec
    <3> HIDE DEF x
    <3>4. log' = Append(log, x)
      BY <3>1 DEF x
    <3>5. i = Len(log) + 1
      BY <1>0, <1>2, <3>3, <3>4, AppendIs
    <3>6. log'[i] = x
      BY <1>0, <3>3, <3>4, <3>5, AppendIs
    <3> QED BY <3>3, <3>6, TxAssumption
  <2>4. CASE ServerSubmit
    <3> DEFINE q == toServer[1]  x == Commit(Me, q.tx, q.force, q.upserts, q.deletes)
    <3>0. toServer \in Seq(SubmitRec) /\ toServer # <<>>
      BY <2>4, SyncTypes DEF ServerSubmit
    <3>1. Head(toServer) = q /\ q \in SubmitRec /\ 1 \in 1 .. Len(toServer)
      BY <3>0, TailIs
    <3>2. Verdict(q) = "ACCEPTED" /\ log' = Append(log, x)
      BY <2>1, <2>4, <3>1, ServerSubmitIs
    <3>3. x \in CommitRec
      BY <3>1, CommitType
    <3>4. x.by = q.tx /\ x.forced = q.force /\ Keys(x) = Keys(q)
      BY DEF Commit, Keys
    <3> HIDE DEF q, x
    <3>5. i = Len(log) + 1 /\ log'[i] = x
      <4>1. i = Len(log) + 1
        BY <1>0, <1>2, <3>2, <3>3, AppendIs
      <4> QED BY <1>0, <3>2, <3>3, <4>1, AppendIs
    <3>6. q.tx = u /\ ~q.force
      BY <3>4, <3>5
    <3>7. UNCHANGED <<state, touched, missed, isolation>>
      BY <2>4, ServerFrame DEF ServerStep
    <3>8. Followed(u)
      BY <3>7 DEF Followed
    <3>9. q.crev \in 0 .. Len(log) /\ \A n \in 1 .. q.crev : Conflict(touched[u], log, n, Key) => n \in missed[u]
      BY <3>1, <3>6, <3>8 DEF SentOnlyMissed, q
    <3>10. ~ConflictsWith(Keys(q), q.crev)
      BY <3>2, <3>6 DEF Verdict
    <3>11. j \in 1 .. Len(log)
      BY <1>0, <3>5
    <3>12. Conflict(touched[u], log, j, Keys(q))
      BY <1>0, <3>4, <3>5, <3>7, <3>11, ConflictGrows
    <3>13. PICK k \in Keys(q) \cap DOMAIN touched[u] : touched[u][k] < j /\ k \in ChangedIn(log, j)
      BY <3>12 DEF Conflict
    <3>14. k \in Keys(log[j])
      BY <3>13, ChangedNamed
    <3>15. j \in 1 .. q.crev
      <4>1. j \notin q.crev + 1 .. Len(log)
        BY <3>10, <3>13, <3>14 DEF ConflictsWith
      <4> QED BY <1>0, <3>9, <3>11, <4>1
    <3>16. k \in Key
      BY <3>13 DEF TypeInv, TypeOK, AreMaps, IsMap
    <3>17. Conflict(touched[u], log, j, Key)
      BY <3>13, <3>16 DEF Conflict
    <3> QED BY <3>7, <3>9, <3>15, <3>17
  <2> QED BY <2>2, <2>3, <2>4
<1> QED BY <1>1, <1>2

(* The inductive form of OverwritesOnlyMissed: from submit() over the      *)
(* command, the request and its crev to the server's verdict, an unforced  *)
(* transaction only conflicts with commits it missed.                      *)
THEOREM IsolationSentInv == Spec => []SentInv
<1>1. ASSUME Init PROVE SentInv
  <2>1. /\ m_commands = <<>> /\ toServer = <<>> /\ Len(<<>>) = 0
        /\ log = <<Commit(Other, Null, FALSE, InitialData, {})>>
    BY <1>1 DEF Init
  <2>2. \A i \in 1 .. Len(log) : log[i].by = Null
    BY <2>1 DEF Commit
  <2>3. QueuedOnlyMissed /\ SentOnlyMissed
    BY <2>1 DEF QueuedOnlyMissed, SentOnlyMissed
  <2>4. CommittedOnlyMissed
    BY <2>2, TxAssumption DEF CommittedOnlyMissed
  <2> QED BY <2>3, <2>4 DEF SentInv
<1>2. TypeInv /\ SyncInv /\ TokensInv /\ FollowInv /\ SentInv /\ [Next]_vars => SentInv'
  BY NextQueuedOnlyMissed, NextSentOnlyMissed, NextCommittedOnlyMissed DEF SentInv
<1> QED BY <1>1, <1>2, TransactionsSync, IsolationTokensInv, IsolationFollowInv, PTL DEF Spec

(* OverwritesOnlyMissed: when an unforced READ_COMMITTED or                *)
(* REPEATABLE_READ transaction overwrites somebody's change of a key it    *)
(* had used, the event loop applied that change while the transaction was  *)
(* already SUBMITTED.  Every other conflict is caught by m_dirty or by the *)
(* server's check against crev.                                            *)
THEOREM IsolationOverwritesOnlyMissed == Spec => []OverwritesOnlyMissed
<1>1. TypeInv /\ SentInv => OverwritesOnlyMissed
  <2> SUFFICES ASSUME TypeInv, SentInv, NEW i \in DOMAIN log, NEW u \in Tx, log[i].by = u,
                      isolation[u] \in {"READ_COMMITTED", "REPEATABLE_READ"}, ~log[i].forced,
                      state[u] # "DISCARDED", NEW j \in 1 .. i - 1,
                      Conflict(touched[u], log, j, Keys(log[i]))
               PROVE  j \in missed[u]
    <3> SUFFICES ASSUME TypeInv, SentInv, NEW i \in DOMAIN log,
                        OwnCommit(i, {"READ_COMMITTED", "REPEATABLE_READ"}), ~log[i].forced,
                        state[log[i].by] # "DISCARDED", NEW j \in 1 .. i - 1,
                        ConflictAt(log[i].by, j, Keys(log[i]))
                 PROVE  j \in missed[log[i].by]
      BY DEF OverwritesOnlyMissed
    <3>1. PICK u \in Tx : u = log[i].by /\ isolation[u] \in {"READ_COMMITTED", "REPEATABLE_READ"}
      BY DEF OwnCommit
    <3>2. Conflict(touched[u], log, j, Keys(log[i]))
      BY <3>1, ConflictIs
    <3> QED BY <3>1, <3>2
  <2>1. i \in 1 .. Len(log)
    BY SyncTypes
  <2>2. Followed(u)
    BY DEF Followed
  <2> QED BY <2>1, <2>2 DEF SentInv, CommittedOnlyMissed
<1> QED BY <1>1, IsolationSentInv, TransactionsSync, PTL
=============================================================================
