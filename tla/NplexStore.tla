----------------------------- MODULE NplexStore -----------------------------
(***************************************************************************)
(* store_t (src/src/store.cpp): the client's in-memory database and the    *)
(* reference-counted metadata of the commits that wrote it.                *)
(*                                                                         *)
(* A call of update() or load() holds m_mutex from beginning to end; here  *)
(* it is a sequence of steps, one per entry of the message, so that every  *)
(* point where an exception can leave the call is a state.  pc tells where *)
(* the call is; every other variable is a member of store_t or a local of  *)
(* update_internal().                                                      *)
(***************************************************************************)
EXTENDS NplexTypes, Sequences, FiniteSets

CONSTANTS
    InvalidKey,     \* keys is_valid_key() refuses; a malformed entry counts as one
    MaxRev,         \* bound: the highest revision of any message (64 bits in the code)
    Update,         \* the update messages the server may send
    Snapshot,       \* the snapshots the server may send
    NoSnapshot,     \* the null pointer: load(nullptr), or no load in progress
    NoUser          \* owner of a revision that has no metadata object

Rev == 1 .. MaxRev

ASSUME StoreAssumption ==
    /\ IsFiniteSet(Key) /\ InvalidKey \subseteq Key
    /\ MaxRev \in Nat
    /\ Update \subseteq {u \in UpdateMsg : u.rev \in Rev}
    /\ Snapshot \subseteq [rev : 0 .. MaxRev, updates : Seq(Update)]
    /\ NoSnapshot \notin Snapshot
    /\ NoUser \notin User

VARIABLES
    m_rev,          \* current revision
    m_data,         \* key -> [data, meta]: meta is the revision of its meta_t
    nrefs,          \* meta_t::nrefs, by revision
    owner,          \* meta_t::user, by revision; NoUser once nothing points to it
    m_metas,        \* revisions registered in m_metas
    m_users,        \* user -> number of references, 0 when the map has no entry
    pc,             \* "idle", "load", "upserts", "deletes" or "thrown"
    cur,            \* update_internal: revision of the commit being applied, 0 if none
    upserts,        \* update_internal: upserts not yet applied
    deletes,        \* update_internal: deletes not yet applied
    changes,        \* update_internal: key -> change_t, what the call will return
    loading,        \* load: the snapshot, NoSnapshot outside of a load
    rest            \* load: the updates of the snapshot not yet applied

vars == <<m_rev, m_data, nrefs, owner, m_metas, m_users,
          pc, cur, upserts, deletes, changes, loading, rest>>

Entry == [data : Data, meta : Rev]

(* change_t: the entry before the change; the entry after it is in m_data. *)
NoEntry == [data |-> NoUser, meta |-> 0]
Change == [action : {"CREATE", "UPDATE", "DELETE"}, old : Entry \cup {NoEntry}]

-----------------------------------------------------------------------------
Init ==
    /\ m_rev = 0 /\ m_data = EmptyMap
    /\ nrefs = [r \in Rev |-> 0] /\ owner = [r \in Rev |-> NoUser]
    /\ m_metas = {} /\ m_users = [u \in User |-> 0]
    /\ pc = "idle" /\ cur = 0
    /\ upserts = EmptyMap /\ deletes = {} /\ changes = EmptyMap
    /\ loading = NoSnapshot /\ rest = <<>>

(* An exception leaves the call: what it changed stays as it is.           *)
Throw ==
    /\ pc' = "thrown"
    /\ UNCHANGED <<m_rev, m_data, nrefs, owner, m_metas, m_users, cur,
                   upserts, deletes, changes, loading, rest>>

(* create_meta(): a new metadata object without references, which counts   *)
(* as one reference to its user.                                           *)
create_meta(u) ==
    /\ owner' = [owner EXCEPT ![u.rev] = u.user]
    /\ nrefs' = [nrefs EXCEPT ![u.rev] = 0]
    /\ m_users' = [m_users EXCEPT ![u.user] = @ + 1]

(* Mutants: m_rev is left alone; the revision is not checked.              *)
BeginUpdate_keepsRev(u) ==
    /\ u.rev > m_rev
    /\ create_meta(u)
    /\ cur' = u.rev
    /\ upserts' = u.upserts /\ deletes' = u.deletes /\ changes' = EmptyMap
    /\ pc' = "upserts"
    /\ UNCHANGED <<m_rev, m_data, m_metas>>
BeginUpdate_anyRev(u) ==
    /\ create_meta(u)
    /\ m_rev' = u.rev /\ cur' = u.rev
    /\ upserts' = u.upserts /\ deletes' = u.deletes /\ changes' = EmptyMap
    /\ pc' = "upserts"
    /\ UNCHANGED <<m_data, m_metas>>

(* update_internal(), up to the first entry.                               *)
BeginUpdate(u) ==
    /\ u.rev > m_rev
    /\ create_meta(u)
    /\ m_rev' = u.rev /\ cur' = u.rev
    /\ upserts' = u.upserts /\ deletes' = u.deletes /\ changes' = EmptyMap
    /\ pc' = "upserts"
    /\ UNCHANGED <<m_data, m_metas>>

(* release_meta(): the metadata r after dropping one reference, and what   *)
(* happens to the registries when it was the last one.                     *)
NrefsAfterRelease(r) == IF nrefs[r] > 0 THEN nrefs[r] - 1 ELSE 0
UsersAfterRelease_erases(r) ==      \* mutant: the user is erased at once
    IF NrefsAfterRelease(r) = 0 THEN [m_users EXCEPT ![owner[r]] = 0] ELSE m_users
UsersAfterRelease(r) ==
    IF NrefsAfterRelease(r) = 0
    THEN [m_users EXCEPT ![owner[r]] = IF @ > 1 THEN @ - 1 ELSE 0]
    ELSE m_users
MetasAfterRelease(r) == IF NrefsAfterRelease(r) = 0 THEN m_metas \ {r} ELSE m_metas
OwnerAfterRelease(r) ==
    IF NrefsAfterRelease(r) = 0 THEN [owner EXCEPT ![r] = NoUser] ELSE owner

(* upsert_entry() on a new key.                                            *)
UpsertCreate(k) ==
    /\ k \notin DOMAIN m_data
    /\ changes' = Put(changes, k, [action |-> "CREATE", old |-> NoEntry])
    /\ nrefs' = [nrefs EXCEPT ![cur] = @ + 1]
    /\ UNCHANGED <<owner, m_metas, m_users>>

(* Mutants: the old metadata is not released; the change reports the new   *)
(* entry as the old one.                                                   *)
UpsertUpdate_noRelease(k) ==
    /\ k \in DOMAIN m_data
    /\ changes' = Put(changes, k, [action |-> "UPDATE", old |-> m_data[k]])
    /\ nrefs' = [nrefs EXCEPT ![cur] = @ + 1]
    /\ UNCHANGED <<owner, m_metas, m_users>>
UpsertUpdate_newAsOld(k) ==
    /\ k \in DOMAIN m_data
    /\ changes' = Put(changes, k, [action |-> "UPDATE",
                                   old |-> [data |-> upserts[k], meta |-> cur]])
    /\ LET r == m_data[k].meta IN
        /\ m_users' = UsersAfterRelease(r)
        /\ m_metas' = MetasAfterRelease(r)
        /\ owner' = OwnerAfterRelease(r)
        /\ nrefs' = [[nrefs EXCEPT ![r] = NrefsAfterRelease(r)] EXCEPT ![cur] = @ + 1]

(* upsert_entry() on an existing key: the old value's metadata loses one   *)
(* reference, then the new one gains one.                                  *)
UpsertUpdate(k) ==
    /\ k \in DOMAIN m_data
    /\ changes' = Put(changes, k, [action |-> "UPDATE", old |-> m_data[k]])
    /\ LET r == m_data[k].meta IN
        /\ m_users' = UsersAfterRelease(r)
        /\ m_metas' = MetasAfterRelease(r)
        /\ owner' = OwnerAfterRelease(r)
        /\ nrefs' = [[nrefs EXCEPT ![r] = NrefsAfterRelease(r)] EXCEPT ![cur] = @ + 1]

UpsertEntry(k) ==
    /\ pc = "upserts" /\ k \in DOMAIN upserts
    /\ k \notin InvalidKey
    /\ UpsertCreate(k) \/ UpsertUpdate(k)
    /\ m_data' = Put(m_data, k, [data |-> upserts[k], meta |-> cur])
    /\ upserts' = Drop(upserts, k)
    /\ UNCHANGED <<m_rev, pc, cur, deletes, loading, rest>>

(* The upserts vector is exhausted.                                        *)
UpsertsDone ==
    /\ pc = "upserts" /\ DOMAIN upserts = {}
    /\ pc' = "deletes"
    /\ UNCHANGED <<m_rev, m_data, nrefs, owner, m_metas, m_users, cur,
                   upserts, deletes, changes, loading, rest>>

(* delete_entry() on a key that is not there changes nothing.              *)
DeleteAbsent(k) ==
    /\ k \notin DOMAIN m_data
    /\ UNCHANGED <<m_data, nrefs, owner, m_metas, m_users, changes>>

DeletePresent(k) ==
    /\ k \in DOMAIN m_data
    /\ changes' = Put(changes, k, [action |-> "DELETE", old |-> m_data[k]])
    /\ m_data' = Drop(m_data, k)
    /\ LET r == m_data[k].meta IN
        /\ nrefs' = [nrefs EXCEPT ![r] = NrefsAfterRelease(r)]
        /\ m_users' = UsersAfterRelease(r)
        /\ m_metas' = MetasAfterRelease(r)
        /\ owner' = OwnerAfterRelease(r)

DeleteEntry(k) ==
    /\ pc = "deletes" /\ k \in deletes
    /\ k \notin InvalidKey
    /\ DeleteAbsent(k) \/ DeletePresent(k)
    /\ deletes' = deletes \ {k}
    /\ UNCHANGED <<m_rev, pc, cur, upserts, loading, rest>>

(* upsert_entry(), delete_entry(): the key is not valid.                   *)
InvalidEntry(k) ==
    /\ k \in InvalidKey
    /\ (pc = "upserts" /\ k \in DOMAIN upserts) \/ (pc = "deletes" /\ k \in deletes)
    /\ Throw

(* Mutant: the metadata of the commit is never registered.                 *)
EndUpdate_noRegister ==
    /\ pc = "deletes" /\ deletes = {}
    /\ owner' = IF nrefs[cur] > 0 THEN owner ELSE [owner EXCEPT ![cur] = NoUser]
    /\ cur' = 0
    /\ pc' = IF loading = NoSnapshot THEN "idle" ELSE "load"
    /\ UNCHANGED <<m_rev, m_data, nrefs, m_metas, m_users, upserts, deletes, changes,
                   loading, rest>>

(* End of update_internal(): metadata that is referenced is registered.    *)
EndUpdate ==
    /\ pc = "deletes" /\ deletes = {}
    /\ m_metas' = IF nrefs[cur] > 0 THEN m_metas \cup {cur} ELSE m_metas
    /\ owner' = IF nrefs[cur] > 0 THEN owner ELSE [owner EXCEPT ![cur] = NoUser]
    /\ cur' = 0
    /\ pc' = IF loading = NoSnapshot THEN "idle" ELSE "load"
    /\ UNCHANGED <<m_rev, m_data, nrefs, m_users, upserts, deletes, changes, loading, rest>>

-----------------------------------------------------------------------------
(* update(): an update that is not newer than the store is refused.        *)
CallUpdate(u) ==
    /\ pc = "idle"
    /\ BeginUpdate(u)
    /\ UNCHANGED <<loading, rest>>

CallUpdateStale(u) ==
    /\ pc = "idle"
    /\ u.rev <= m_rev
    /\ Throw

(* load(): everything is cleared first; load(nullptr) stops there.         *)
CallLoad(s) ==
    /\ pc \in {"idle", "thrown"}
    /\ m_rev' = 0 /\ m_data' = EmptyMap
    /\ nrefs' = [r \in Rev |-> 0] /\ owner' = [r \in Rev |-> NoUser]
    /\ m_metas' = {} /\ m_users' = [u \in User |-> 0]
    /\ cur' = 0 /\ upserts' = EmptyMap /\ deletes' = {} /\ changes' = EmptyMap
    /\ loading' = s
    /\ rest' = IF s = NoSnapshot THEN <<>> ELSE s.updates
    /\ pc' = IF s = NoSnapshot THEN "idle" ELSE "load"

(* Mutant: the updates are not checked against the snapshot's revision.    *)
LoadNext_unchecked ==
    /\ pc = "load" /\ rest # <<>>
    /\ BeginUpdate(Head(rest))
    /\ rest' = Tail(rest)
    /\ UNCHANGED loading

LoadNext ==
    /\ pc = "load" /\ rest # <<>>
    /\ Head(rest).rev <= loading.rev
    /\ BeginUpdate(Head(rest))
    /\ rest' = Tail(rest)
    /\ UNCHANGED loading

(* The snapshot holds an update newer than itself, or not in order.        *)
LoadThrow ==
    /\ pc = "load" /\ rest # <<>>
    /\ Head(rest).rev > loading.rev \/ Head(rest).rev <= m_rev
    /\ Throw

LoadEnd ==
    /\ pc = "load" /\ rest = <<>>
    /\ m_rev' = loading.rev
    /\ loading' = NoSnapshot
    /\ pc' = "idle"
    /\ UNCHANGED <<m_data, nrefs, owner, m_metas, m_users, cur,
                   upserts, deletes, changes, rest>>

Next ==
    \/ \E u \in Update : CallUpdate(u) \/ CallUpdateStale(u)
    \/ \E s \in Snapshot \cup {NoSnapshot} : CallLoad(s)
    \/ \E k \in Key : UpsertEntry(k) \/ DeleteEntry(k) \/ InvalidEntry(k)
    \/ UpsertsDone \/ EndUpdate
    \/ LoadNext \/ LoadThrow \/ LoadEnd

Spec == Init /\ [][Next]_vars

-----------------------------------------------------------------------------
(* Type invariant of store_t and of the locals of its calls.               *)
TypeOK ==
    /\ m_rev \in 0 .. MaxRev
    /\ IsMap(m_data, Key, Entry)
    /\ nrefs \in [Rev -> Nat]
    /\ owner \in [Rev -> User \cup {NoUser}]
    /\ m_metas \in SUBSET Rev
    /\ m_users \in [User -> Nat]
    /\ pc \in {"idle", "load", "upserts", "deletes", "thrown"}
    /\ cur \in 0 .. MaxRev
    /\ pc \in {"upserts", "deletes"} => cur = m_rev /\ cur # 0
    /\ IsMap(upserts, Key, Data)
    /\ deletes \in SUBSET Key
    /\ IsMap(changes, Key, Change)
    /\ loading \in Snapshot \cup {NoSnapshot}
    /\ pc = "load" => loading # NoSnapshot
    /\ rest \in Seq(Update)

(* The keys whose value was written by the commit of revision r.           *)
Refs(r) == {k \in DOMAIN m_data : m_data[k].meta = r}

(* The commits that wrote a value still in the store.                      *)
Live == {r \in Rev : nrefs[r] > 0}

(* release_meta() and upsert_entry(): the reference counter of a commit's  *)
(* metadata is the number of keys whose value it wrote, at every point of  *)
(* a call, the points where an exception can leave it included.            *)
RefsExact == \A r \in Rev : nrefs[r] = Cardinality(Refs(r))

(* Between two calls m_metas registers the metadata of every value of the  *)
(* store and nothing else: no value's metadata is lost by release_meta()   *)
(* and no metadata without references survives.                            *)
MetasExact == pc = "idle" => m_metas = {m_data[k].meta : k \in DOMAIN m_data}

(* The user that wrote a value of the store is in m_users, with at least   *)
(* one reference per commit of theirs that is still live: release_meta()   *)
(* never drops a user too early.                                           *)
UsersCover ==
    pc = "idle" =>
        \A u \in User : m_users[u] >= Cardinality({r \in Live : owner[r] = u})

(* The inductive invariant behind these: what holds in the middle of a     *)
(* call too, and after an exception.  A value's metadata is not newer than *)
(* the store, nor the store than the snapshot it loads; the entries still  *)
(* to be applied are not of the current commit; m_metas is what is live    *)
(* but for the current commit, which counts as a reference to its user     *)
(* from create_meta() on.                                                  *)
NotNewer ==
    /\ \A k \in DOMAIN m_data : m_data[k].meta <= m_rev
    /\ loading # NoSnapshot => m_rev <= loading.rev
CallLocals ==
    /\ pc = "idle" => loading = NoSnapshot
    /\ pc \in {"idle", "load"} => cur = 0 /\ upserts = EmptyMap /\ deletes = {}
    /\ pc = "deletes" => upserts = EmptyMap
    /\ DOMAIN upserts \cap deletes = {}
    /\ pc \in {"upserts", "deletes"} =>
        \A k \in DOMAIN m_data \cap (DOMAIN upserts \cup deletes) : m_data[k].meta # cur
MetasLive == m_metas = Live \ {cur}
Counted == Live \cup ({cur} \cap Rev)
OwnersKnown == \A r \in Counted : owner[r] \in User
UsersCounted ==
    \A u \in User : m_users[u] >= Cardinality({r \in Counted : owner[r] = u})

StoreInv ==
    /\ NotNewer /\ CallLocals /\ RefsExact
    /\ MetasLive /\ OwnersKnown /\ UsersCounted

(* The content before the call, as its changes tell it.                    *)
Undone(data, chg) ==
    [k \in {x \in DOMAIN data \cup DOMAIN chg :
                x \in DOMAIN chg => chg[x].action # "CREATE"} |->
        IF k \in DOMAIN chg THEN chg[k].old ELSE data[k]]

(* The changes that update() returns undo it: at every step of a call they *)
(* turn the content back into the one the call found, so that a SNAPSHOT   *)
(* entry of a transaction can be made out of them.                         *)
ChangesUndo ==
    [][(pc \in {"upserts", "deletes"} /\ pc' # "thrown") =>
        Undone(m_data', changes') = Undone(m_data, changes)]_vars

-----------------------------------------------------------------------------
(* The refinement: inside an update the abstract copy already shows all of *)
(* it, because m_mutex is held until the last entry is applied.            *)
Stamped(data, r) == [data |-> data, rev |-> r, user |-> owner[r]]
AbsContent ==
    Patch([k \in DOMAIN m_data |-> Stamped(m_data[k].data, m_data[k].meta)],
          upserts, deletes, cur, owner[cur])

Abs == INSTANCE KvReplica WITH
    rev <- m_rev,
    content <- AbsContent,
    usable <- pc # "thrown" /\ loading = NoSnapshot

(* Every call of store_t is one atomic step of the abstract copy: a commit *)
(* newer than the copy applied as a whole, or a snapshot that replaces it. *)
ImplementsReplica == Abs!Spec
=============================================================================
