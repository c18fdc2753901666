-------------------------- MODULE NplexTransactions --------------------------
(***************************************************************************)
(* Transactions over the client's copy of the database: transaction_impl   *)
(* (src/src/transaction_impl.cpp) and the parts of client_impl             *)
(* (src/src/client_impl.cpp) that create, update, submit and confirm them. *)
(*                                                                         *)
(* Three kinds of actors interleave.  User threads call the operations of  *)
(* their transactions; each operation holds m_mutex_items, and the store's *)
(* m_mutex while it looks at the store, so it is one step.  The event loop *)
(* applies a commit in several steps: store, then each transaction under   *)
(* its own lock, then the confirmation; between them the user threads run. *)
(* The server (external: modelled from the messages the client exchanges)  *)
(* orders the commits of everyone and streams them.                        *)
(*                                                                         *)
(* A pattern is the set of keys it matches.  The termination of the client *)
(* and the races inside set_state() are the subject of TxLifecycle.        *)
(***************************************************************************)
EXTENDS NplexTypes, Sequences, FiniteSets

CONSTANTS
    Tx,             \* transactions the users may create
    Levels,         \* Tx -> the isolation levels it may be created with
    ReadOnly,       \* the transactions created read-only
    Droppable,      \* the transactions whose tx_ptr the user may drop
    Pattern,        \* the patterns users pass to for_each, remove and ensure
    Forcing,        \* the values of submit's parameter the users pass
    Ensuring,       \* the values of read's second parameter the users pass
    CanForce,       \* user_t::can_force
    permissions,    \* user_t::permissions: a sequence of [mode, pattern]
    MaxActiveTxs,   \* client_params_t::max_active_txs
    InitialData,    \* content of the database when the client synchronised
    OtherCommit,    \* the commits of other clients, as [upserts, deletes]
    TryLater,       \* may the server answer TRY_LATER?
    ConnectionLoss, \* may the connection be lost?
    MaxOther,       \* bound: number of commits of other clients
    MaxSubmit,      \* bound: number of submit requests
    Me, Other,      \* names of this user and of the others
    Null            \* the null pointer

Level == {"READ_COMMITTED", "REPEATABLE_READ", "SERIALIZABLE"}
CRUD == {"CREATE", "READ", "UPDATE", "DELETE"}

ASSUME TxAssumption ==
    /\ Levels \in [Tx -> SUBSET Level]
    /\ ReadOnly \subseteq Tx /\ Droppable \subseteq Tx
    /\ Pattern \subseteq SUBSET Key
    /\ Forcing \subseteq BOOLEAN /\ Ensuring \subseteq BOOLEAN /\ CanForce \in BOOLEAN
    /\ permissions \in Seq([mode : SUBSET CRUD, pattern : SUBSET Key])
    /\ MaxActiveTxs \in Nat /\ MaxOther \in Nat /\ MaxSubmit \in Nat
    /\ IsMap(InitialData, Key, Data)
    /\ \A c \in OtherCommit : IsMap(c.upserts, Key, Data) /\ c.deletes \subseteq Key
    /\ TryLater \in BOOLEAN /\ ConnectionLoss \in BOOLEAN
    /\ Me \in User /\ Other \in User
    /\ Null \notin Tx /\ Null \notin [data : Data, rev : Nat, user : User \cup {Null}]

VARIABLES
    \* --- the server and the connection (external)
    log,            \* the commits, in order; log[i] has revision i
    pushed,         \* the last commit streamed to this client
    toServer,       \* submit requests in flight
    toClient,       \* submit responses and updates in flight
    \* --- client_impl
    m_con,          \* connected and receiving updates?
    m_rev, m_data,  \* the store
    m_transactions, \* the transactions the event loop knows
    m_commands,     \* submit commands queued by user threads
    m_requests,     \* submit requests sent and not answered
    m_accepted,     \* requests accepted and not yet seen as a commit
    m_correlation,  \* next correlation id
    loop,           \* where the event loop is in process_update()
    \* --- transaction_impl, for each transaction
    state, items, ensures, dirty,
    isolation, rev_creation,
    future,         \* what the future returned by the last submit() holds
    held,           \* the transactions whose tx_ptr the user still has
    \* --- history, read by the properties only
    seen,           \* key -> value first returned to the user
    touched,        \* key -> revision the transaction's use of the key is based on
    missed          \* commits that the event loop did not show to the transaction

server == <<log, pushed, toServer, toClient>>
client == <<m_con, m_rev, m_data, m_transactions, m_commands, m_requests,
            m_accepted, m_correlation, loop>>
content == <<items, ensures, dirty, seen, touched>>
created == <<isolation, rev_creation>>
txvars == <<content, state, created, future, held, missed>>
vars == <<server, client, txvars>>

-----------------------------------------------------------------------------
(* Commits.                                                                *)
Keys(c) == DOMAIN c.upserts \cup c.deletes
Commit(usr, t, forced, upserts, deletes) ==
    [user |-> usr, by |-> t, forced |-> forced, upserts |-> upserts, deletes |-> deletes]

(* The last commit up to revision r that names key k, 0 if there is none.  *)
LastWrite(k, r) ==
    LET w == {i \in 1 .. r : k \in Keys(log[i])}
    IN IF w = {} THEN 0 ELSE CHOOSE i \in w : \A j \in w : j <= i

(* The value of key k in the database at revision r.                       *)
ValueAt(k, r) ==
    LET i == LastWrite(k, r) IN
    IF i = 0 \/ k \in log[i].deletes THEN Null
    ELSE [data |-> log[i].upserts[k], rev |-> i, user |-> log[i].user]

StoreValue(k) == IF k \in DOMAIN m_data THEN m_data[k] ELSE Null

(* The value of an uncommitted upsert: its metadata is empty.              *)
Own(d) == [data |-> d, rev |-> 0, user |-> Null]

(* update(): key -> the value it had before, for the keys a commit really  *)
(* changes; change_t::action follows from that value being null or not.    *)
Changes(c) ==
    [k \in DOMAIN c.upserts \cup (c.deletes \cap DOMAIN m_data) |-> StoreValue(k)]

(* The first n entries of a queue are those that the code pops because     *)
(* their number is below v: it stops at the first one that is not.         *)
Pops(numbers, v, n) ==
    /\ \A i \in 1 .. n : numbers[i] < v
    /\ n < Len(numbers) => numbers[n + 1] >= v
Cids(q) == [i \in DOMAIN q |-> q[i].cid]
Erevs(q) == [i \in DOMAIN q |-> q[i].erev]

Closed == {"REJECTED", "COMMITTED", "DISCARDED", "ABORTED"}
Idle == [pc |-> "idle", changes |-> EmptyMap, todo |-> {}, tx |-> Null, purge |-> FALSE]

Init ==
    /\ log = <<Commit(Other, Null, FALSE, InitialData, {})>>
    /\ pushed = 1 /\ toServer = <<>> /\ toClient = <<>>
    /\ m_con = TRUE /\ m_rev = 1
    /\ m_data = Patch(EmptyMap, InitialData, {}, 1, Other)
    /\ m_transactions = {} /\ m_commands = <<>> /\ m_requests = <<>> /\ m_accepted = <<>>
    /\ m_correlation = 1
    /\ loop = Idle
    /\ state = [t \in Tx |-> "NONE"]
    /\ items = [t \in Tx |-> EmptyMap] /\ ensures = [t \in Tx |-> {}]
    /\ dirty = [t \in Tx |-> FALSE]
    /\ isolation = [t \in Tx |-> "READ_COMMITTED"] /\ rev_creation = [t \in Tx |-> 0]
    /\ future = [t \in Tx |-> "none"] /\ held = {}
    /\ seen = [t \in Tx |-> EmptyMap] /\ touched = [t \in Tx |-> EmptyMap]
    /\ missed = [t \in Tx |-> {}]

-----------------------------------------------------------------------------
(* History of a user operation on transaction t: the key's first value and *)
(* the revision it is based on.                                            *)
See(t, k, v) ==
    seen' = [seen EXCEPT ![t] = IF k \in DOMAIN @ THEN @ ELSE Put(@, k, v)]
BaseRev(t) == IF isolation[t] = "SERIALIZABLE" THEN rev_creation[t] ELSE m_rev
TouchAll(t, ks) ==
    touched' = [touched EXCEPT ![t] =
        [k \in DOMAIN @ \cup ks |-> IF k \in DOMAIN @ THEN @[k] ELSE BaseRev(t)]]

Item(a, v) == [action |-> a, value |-> v]
SetItem(t, k, a, v) == items' = [items EXCEPT ![t] = Put(@, k, Item(a, v))]
Pins(t) == isolation[t] # "READ_COMMITTED"
OwnWrite(t, k) == k \in DOMAIN items[t] /\ items[t][k].action \in {"UPSERT", "DELETE"}

(* The requests that keep a shared pointer to the transaction.             *)
Referenced(t) ==
    \/ t \in held
    \/ \E i \in DOMAIN m_commands : m_commands[i].tx = t
    \/ \E i \in DOMAIN m_requests : m_requests[i].tx = t
    \/ \E i \in DOMAIN m_accepted : m_accepted[i].tx = t

(* purge_unused_txs() drops these; those nobody else refers to are         *)
(* destroyed, and the destructor calls discard().                          *)
Unused == {t \in m_transactions : ~Referenced(t) \/ state[t] \in Closed}
Destroyed(s) ==
    [t \in Tx |-> IF t \in m_transactions /\ ~Referenced(t) /\ s[t] \notin Closed
                  THEN "DISCARDED" ELSE s[t]]

(* create_tx(), not possible while the event loop holds                    *)
(* m_mutex_transactions.  A call that throws because of max_active_txs     *)
(* changes nothing: m_transactions never has more elements than that, so   *)
(* there are too many after the purge only if there was nothing to purge.  *)
CreateTx(t, level) ==
    /\ state[t] = "NONE"
    /\ loop.pc \notin {"visit", "update"}
    /\ Cardinality(m_transactions \ Unused) < MaxActiveTxs
    /\ m_transactions' = (m_transactions \ Unused) \cup {t}
    /\ state' = [Destroyed(state) EXCEPT ![t] = "OPEN"]
    /\ isolation' = [isolation EXCEPT ![t] = level]
    /\ rev_creation' = [rev_creation EXCEPT ![t] = m_rev]
    /\ held' = held \cup {t}
    /\ UNCHANGED <<server, m_con, m_rev, m_data, m_commands, m_requests, m_accepted,
                   m_correlation, loop, content, future, missed>>

UserOp(t) ==
    /\ state[t] = "OPEN" /\ t \in held
    /\ UNCHANGED <<server, client, state, created, future, held, missed>>

(* read() of a key the transaction already holds.                          *)
ReadItem(t, k, ens) ==
    /\ k \in DOMAIN items[t]
    /\ LET it == items[t][k]
           found == it.action # "DELETE" /\ it.value # Null
           fresh == found /\ it.action = "SNAPSHOT"
       IN /\ items' = IF fresh THEN [items EXCEPT ![t][k].action = "READ"] ELSE items
          /\ dirty' = IF fresh THEN [dirty EXCEPT ![t] = TRUE] ELSE dirty
          /\ ensures' = IF found /\ ens THEN [ensures EXCEPT ![t] = @ \cup {k}] ELSE ensures
          /\ IF OwnWrite(t, k) THEN UNCHANGED <<seen, touched>>
             ELSE See(t, k, it.value) /\ TouchAll(t, {k})

(* Mutant: the value is returned but not kept in the transaction.          *)
ReadStore_noPin(t, k, ens) ==
    /\ k \notin DOMAIN items[t]
    /\ ensures' = IF k \in DOMAIN m_data /\ ens
                  THEN [ensures EXCEPT ![t] = @ \cup {k}] ELSE ensures
    /\ IF Pins(t) THEN See(t, k, StoreValue(k)) /\ TouchAll(t, {k})
       ELSE UNCHANGED <<seen, touched>>
    /\ UNCHANGED <<items, dirty>>

(* read() of a key it does not: the store's value, pinned unless the level *)
(* is READ_COMMITTED.                                                      *)
ReadStore(t, k, ens) ==
    /\ k \notin DOMAIN items[t]
    /\ ensures' = IF k \in DOMAIN m_data /\ ens
                  THEN [ensures EXCEPT ![t] = @ \cup {k}] ELSE ensures
    /\ IF Pins(t)
       THEN SetItem(t, k, "READ", StoreValue(k)) /\ See(t, k, StoreValue(k))
            /\ TouchAll(t, {k})
       ELSE UNCHANGED <<items, seen, touched>>
    /\ UNCHANGED dirty

Read(t, k, ens) ==
    /\ UserOp(t)
    /\ ReadItem(t, k, ens) \/ ReadStore(t, k, ens)

(* user_t::is_authorized(): the first entry whose pattern matches the key  *)
(* decides, and it must allow every requested operation.                   *)
is_authorized(mode, k) ==
    LET matching == {i \in DOMAIN permissions : k \in permissions[i].pattern}
    IN /\ mode # {} /\ matching # {}
       /\ \A i \in matching : (\A j \in matching : i <= j) => mode \subseteq permissions[i].mode

(* upsert_internal() of a key the transaction already holds.               *)
UpsertItem(t, k, d, force) ==
    /\ k \in DOMAIN items[t] /\ is_authorized({"UPDATE"}, k)
    /\ LET it == items[t][k] IN
        /\ dirty' = IF it.action = "SNAPSHOT" THEN [dirty EXCEPT ![t] = TRUE] ELSE dirty
        /\ IF ~force /\ it.action # "DELETE" /\ it.value # Null /\ it.value.data = d
           THEN UNCHANGED <<items, touched>>
           ELSE SetItem(t, k, "UPSERT", Own(d)) /\ TouchAll(t, {k})

(* upsert_internal() of a key it does not: a new key needs the right to    *)
(* create, an old one the right to update.                                 *)
UpsertStore(t, k, d, force) ==
    /\ k \notin DOMAIN items[t]
    /\ is_authorized(IF k \in DOMAIN m_data THEN {"UPDATE"} ELSE {"CREATE"}, k)
    /\ IF ~force /\ k \in DOMAIN m_data /\ m_data[k].data = d
       THEN IF isolation[t] = "REPEATABLE_READ"
            THEN SetItem(t, k, "READ", m_data[k]) /\ TouchAll(t, {k})
            ELSE UNCHANGED <<items, touched>>
       ELSE SetItem(t, k, "UPSERT", Own(d)) /\ TouchAll(t, {k})
    /\ UNCHANGED dirty

Upsert(t, k, d, force) ==
    /\ UserOp(t)
    /\ t \notin ReadOnly
    /\ UpsertItem(t, k, d, force) \/ UpsertStore(t, k, d, force)
    /\ UNCHANGED <<ensures, seen>>

(* remove(key): only a key that is there, as the transaction sees it.      *)
RemovableItem(t, k) ==
    /\ k \in DOMAIN items[t]
    /\ items[t][k].action = "UPSERT"
       \/ (items[t][k].action \in {"READ", "SNAPSHOT"} /\ items[t][k].value # Null)

RemoveKey(t, k) ==
    /\ UserOp(t)
    /\ t \notin ReadOnly
    /\ is_authorized({"DELETE"}, k)
    /\ RemovableItem(t, k) \/ (k \notin DOMAIN items[t] /\ k \in DOMAIN m_data)
    /\ SetItem(t, k, "DELETE", Null)
    /\ TouchAll(t, {k})
    /\ UNCHANGED <<ensures, dirty, seen>>

(* for_each_internal(): the entries the transaction and the store hold for *)
(* the keys of pattern p.  Entries of the transaction hide the store's; a  *)
(* SNAPSHOT entry becomes READ and spoils the transaction; keys that are   *)
(* only in the store are pinned, unless the level is READ_COMMITTED.       *)
VisitItem(it) == IF it.action = "SNAPSHOT" THEN Item("READ", it.value) ELSE it
VisitedItems(t, p) ==
    LET pinned == IF Pins(t) THEN (p \cap DOMAIN m_data) \ DOMAIN items[t] ELSE {}
    IN [k \in DOMAIN items[t] \cup pinned |->
            IF k \in pinned THEN Item("READ", m_data[k])
            ELSE IF k \in p THEN VisitItem(items[t][k]) ELSE items[t][k]]
VisitSpoils(t, p) == \E k \in p \cap DOMAIN items[t] : items[t][k].action = "SNAPSHOT"
Visible(t, k) ==
    IF k \in DOMAIN items[t]
    THEN IF items[t][k].action = "DELETE" THEN Null ELSE items[t][k].value
    ELSE StoreValue(k)
Listed(t, p) == {k \in p : Visible(t, k) # Null}

ForEach(t, p) ==
    /\ UserOp(t)
    /\ items' = [items EXCEPT ![t] = VisitedItems(t, p)]
    /\ dirty' = [dirty EXCEPT ![t] = @ \/ VisitSpoils(t, p)]
    /\ LET new == {k \in Listed(t, p) : ~OwnWrite(t, k) /\ Pins(t)} IN
        /\ seen' = [seen EXCEPT ![t] =
              [k \in DOMAIN @ \cup new |-> IF k \in DOMAIN @ THEN @[k] ELSE Visible(t, k)]]
        /\ TouchAll(t, new)
    /\ UNCHANGED ensures

(* remove(pattern): for_each(), then remove() on each listed key until one *)
(* may not be deleted; both locks are held all along.                      *)
RemovePattern(t, p) ==
    /\ UserOp(t)
    /\ t \notin ReadOnly
    /\ \E ks \in SUBSET {k \in Listed(t, p) : is_authorized({"DELETE"}, k)} :
        /\ (\A k \in Listed(t, p) : is_authorized({"DELETE"}, k)) => ks = Listed(t, p)
        /\ items' = [items EXCEPT ![t] =
              [k \in DOMAIN VisitedItems(t, p) \cup ks |->
                  IF k \in ks THEN Item("DELETE", Null) ELSE VisitedItems(t, p)[k]]]
        /\ TouchAll(t, IF Pins(t) THEN Listed(t, p) ELSE ks)
    /\ dirty' = [dirty EXCEPT ![t] = @ \/ VisitSpoils(t, p)]
    /\ UNCHANGED <<ensures, seen>>

(* ensure(pattern)                                                         *)
Ensure(t, p) ==
    /\ UserOp(t)
    /\ ensures' = [ensures EXCEPT ![t] = @ \cup p]
    /\ UNCHANGED <<items, dirty, seen, touched>>

(* submit(): a transaction without modifications or known to be dirty is   *)
(* closed on the spot; otherwise a command is queued for the event loop.   *)
HasModifications(t) == \E k \in DOMAIN items[t] : OwnWrite(t, k)
SubmitOutcome_ignoresDirty(t, force) ==     \* mutant: a dirty transaction is sent
    CASE t \in ReadOnly \/ (~force /\ ~HasModifications(t)) ->
            [state |-> "DISCARDED", future |-> "NO_MODIFICATIONS"]
      [] t \notin ReadOnly /\ force /\ ~CanForce ->
            [state |-> "REJECTED", future |-> "REJECTED"]
      [] OTHER -> [state |-> "SUBMITTED", future |-> "pending"]
SubmitOutcome(t, force) ==
    CASE t \in ReadOnly -> [state |-> "DISCARDED", future |-> "NO_MODIFICATIONS"]
      [] t \notin ReadOnly /\ ~force /\ ~HasModifications(t) ->
            [state |-> "DISCARDED", future |-> "NO_MODIFICATIONS"]
      [] t \notin ReadOnly /\ ~force /\ HasModifications(t) /\ dirty[t] ->
            [state |-> "REJECTED", future |-> "REJECTED"]
      [] t \notin ReadOnly /\ force /\ ~CanForce ->
            [state |-> "REJECTED", future |-> "REJECTED"]
      [] OTHER -> [state |-> "SUBMITTED", future |-> "pending"]

Submit(t, force) ==
    /\ state[t] = "OPEN" /\ t \in held
    /\ m_correlation + Len(m_commands) <= MaxSubmit
    /\ state' = [state EXCEPT ![t] = SubmitOutcome(t, force).state]
    /\ future' = [future EXCEPT ![t] = SubmitOutcome(t, force).future]
    /\ m_commands' = IF SubmitOutcome(t, force).state = "SUBMITTED"
                     THEN Append(m_commands, [tx |-> t, force |-> force]) ELSE m_commands
    /\ UNCHANGED <<server, m_con, m_rev, m_data, m_transactions, m_requests, m_accepted,
                   m_correlation, loop, content, created, held, missed>>

(* discard(), by the user.                                                 *)
Discard(t) ==
    /\ state[t] \in {"OPEN", "SUBMITTED", "ACCEPTED"} /\ t \in held
    /\ state' = [state EXCEPT ![t] = "DISCARDED"]
    /\ future' = [future EXCEPT ![t] = IF @ = "pending" THEN "EXCEPTION" ELSE @]
    /\ UNCHANGED <<server, client, content, created, held, missed>>

(* The user drops the tx_ptr; m_transactions still has its own.            *)
DropHandle(t) ==
    /\ t \in held \cap Droppable
    /\ held' = held \ {t}
    /\ UNCHANGED <<server, client, content, state, created, future, missed>>

-----------------------------------------------------------------------------
(* transaction_impl::update(): the transaction is shown the changes of a   *)
(* commit.                                                                 *)
UpdateSerializable_new(t, chg) ==       \* mutant: keeps the value after the update
    [k \in DOMAIN items[t] \cup DOMAIN chg |->
        IF k \in DOMAIN items[t] THEN items[t][k] ELSE Item("SNAPSHOT", StoreValue(k))]
UpdateSerializable(t, chg) ==
    [k \in DOMAIN items[t] \cup DOMAIN chg |->
        IF k \in DOMAIN items[t] THEN items[t][k] ELSE Item("SNAPSHOT", chg[k])]
UpdatedItems(t, chg) ==
    IF isolation[t] = "SERIALIZABLE" THEN UpdateSerializable(t, chg) ELSE items[t]
Invalidates_ensuresOnly(t, chg) ==      \* mutant: only the ensured keys count
    DOMAIN chg \cap ensures[t] # {}
Invalidates(t, chg) ==
    DOMAIN chg \cap (DOMAIN items[t] \cup ensures[t]) # {}

(* process_update(): the store first.  Accepted requests whose commit was  *)
(* skipped are given up (the code asserts that there are none).            *)
ProcessUpdate ==
    /\ loop.pc = "idle" /\ toClient # <<>> /\ Head(toClient).type = "update"
    /\ LET r == Head(toClient).rev
           c == log[r]
       IN /\ r > m_rev
          /\ m_rev' = r
          /\ m_data' = Patch(m_data, c.upserts, c.deletes, r, c.user)
          /\ loop' = [Idle EXCEPT !.pc = "updated", !.changes = Changes(c)]
          /\ \E n \in 0 .. Len(m_accepted) :
                /\ Pops(Erevs(m_accepted), r, n)
                /\ m_accepted' = SubSeq(m_accepted, n + 1, Len(m_accepted))
    /\ toClient' = Tail(toClient)
    /\ UNCHANGED <<log, pushed, toServer, m_con, m_transactions, m_commands, m_requests,
                   m_correlation, txvars>>

LockTransactions ==
    /\ loop.pc = "updated"
    /\ loop' = [loop EXCEPT !.pc = "visit", !.todo = m_transactions]
    /\ UNCHANGED <<server, m_con, m_rev, m_data, m_transactions, m_commands, m_requests,
                   m_accepted, m_correlation, txvars>>

(* One turn of the loop over m_transactions, up to the check of the state  *)
(* at the top of transaction_impl::update().                               *)
VisitOpen(t) ==
    /\ Referenced(t) /\ state[t] = "OPEN"
    /\ loop' = [loop EXCEPT !.pc = "update", !.tx = t, !.todo = @ \ {t}]
    /\ UNCHANGED missed
VisitOther(t) ==
    /\ ~Referenced(t) \/ state[t] # "OPEN"
    /\ loop' = [loop EXCEPT !.todo = @ \ {t}, !.purge = @ \/ t \in Unused]
    /\ missed' = IF state[t] \in Closed THEN missed
                 ELSE [missed EXCEPT ![t] = @ \cup {m_rev}]
VisitTx(t) ==
    /\ loop.pc = "visit" /\ t \in loop.todo
    /\ VisitOpen(t) \/ VisitOther(t)
    /\ UNCHANGED <<server, m_con, m_rev, m_data, m_transactions, m_commands, m_requests,
                   m_accepted, m_correlation, content, state, created, future, held>>

(* The rest of transaction_impl::update(), under m_mutex_items: the user   *)
(* may have submitted the transaction since its state was checked.         *)
UpdateTx ==
    /\ loop.pc = "update"
    /\ LET t == loop.tx IN
        /\ items' = [items EXCEPT ![t] = UpdatedItems(t, loop.changes)]
        /\ dirty' = [dirty EXCEPT ![t] = @ \/ Invalidates(t, loop.changes)]
        /\ missed' = IF state[t] = "OPEN" THEN missed
                     ELSE [missed EXCEPT ![t] = @ \cup {m_rev}]
    /\ loop' = [loop EXCEPT !.pc = "visit", !.tx = Null]
    /\ UNCHANGED <<server, m_con, m_rev, m_data, m_transactions, m_commands, m_requests,
                   m_accepted, m_correlation, ensures, seen, touched, state, created,
                   future, held>>

(* The end of process_update(): unused transactions are purged, if the     *)
(* loop met one, and the transaction whose commit this is, if any, is      *)
(* confirmed.                                                              *)
Confirmed_late == m_accepted # <<>> /\ Head(m_accepted).erev < m_rev     \* mutant: < for =
Confirmed == m_accepted # <<>> /\ Head(m_accepted).erev = m_rev
ConfirmCommit ==
    /\ loop.pc = "visit" /\ loop.todo = {}
    /\ loop' = Idle
    /\ m_transactions' = IF loop.purge THEN m_transactions \ Unused ELSE m_transactions
    /\ m_accepted' = IF Confirmed THEN Tail(m_accepted) ELSE m_accepted
    /\ LET mine == Confirmed /\ state[Head(m_accepted).tx] = "ACCEPTED"
           purged == IF loop.purge THEN Destroyed(state) ELSE state
       IN
        /\ state' = IF mine THEN [purged EXCEPT ![Head(m_accepted).tx] = "COMMITTED"]
                    ELSE purged
        /\ future' = IF mine THEN [future EXCEPT ![Head(m_accepted).tx] = "COMMITTED"]
                     ELSE future
    /\ UNCHANGED <<server, m_con, m_rev, m_data, m_commands, m_requests, m_correlation,
                   content, created, held, missed>>

-----------------------------------------------------------------------------
(* Mutant: crev is the store's revision whatever the isolation level.      *)
SubmitMsg_currentRev(t, cid, force) ==
    [cid |-> cid, tx |-> t, force |-> force, crev |-> m_rev,
     upserts |-> [k \in {x \in DOMAIN items[t] : items[t][x].action = "UPSERT"} |->
                      items[t][k].value.data],
     deletes |-> {k \in DOMAIN items[t] : items[t][k].action = "DELETE"},
     ensures |-> ensures[t]]

(* create_submit_msg(): the writes of the transaction, and the revision    *)
(* the server has to check them against.                                   *)
SubmitMsg(t, cid, force) ==
    [cid |-> cid, tx |-> t, force |-> force,
     crev |-> IF isolation[t] = "SERIALIZABLE" THEN rev_creation[t] ELSE m_rev,
     upserts |-> [k \in {x \in DOMAIN items[t] : items[t][x].action = "UPSERT"} |->
                      items[t][k].value.data],
     deletes |-> {k \in DOMAIN items[t] : items[t][k].action = "DELETE"},
     ensures |-> ensures[t]]

(* set_submit_result(exception) on the transactions ts.                    *)
Abort(ts) ==
    LET hit == {t \in ts : state[t] = "SUBMITTED"} IN
    /\ state' = [t \in Tx |-> IF t \in hit THEN "ABORTED" ELSE state[t]]
    /\ future' = [t \in Tx |-> IF t \in hit THEN "EXCEPTION" ELSE future[t]]

(* process_submit_cmd().  A message that send() does not write because too *)
(* many are waiting closes the connection: it is on the wire here, and is  *)
(* lost with the connection (ConnectionClosed).                            *)
ProcessSubmitCmd ==
    /\ loop.pc = "idle" /\ m_commands # <<>>
    /\ LET cmd == Head(m_commands) IN
        \/ /\ ~m_con
           /\ Abort({cmd.tx})
           /\ UNCHANGED <<toServer, m_requests, m_correlation>>
        \/ /\ m_con
           /\ toServer' = Append(toServer, SubmitMsg(cmd.tx, m_correlation, cmd.force))
           /\ m_requests' = Append(m_requests, [cid |-> m_correlation, tx |-> cmd.tx])
           /\ m_correlation' = m_correlation + 1
           /\ UNCHANGED <<state, future>>
    /\ m_commands' = Tail(m_commands)
    /\ UNCHANGED <<log, pushed, toClient, m_con, m_rev, m_data, m_transactions, m_accepted,
                   loop, content, created, held, missed>>

(* Mutants: a rejection's code is taken for the state; an accepted         *)
(* transaction is reported as committed.                                   *)
SubmitResult_raw(code) ==
    CASE code = "ACCEPTED" -> [state |-> "ACCEPTED", future |-> "pending"]
      [] code = "TRY_LATER" -> [state |-> "OPEN", future |-> "TRY_LATER"]
      [] code = "NO_MODIFICATIONS" -> [state |-> "DISCARDED", future |-> "NO_MODIFICATIONS"]
      [] OTHER -> [state |-> code, future |-> "REJECTED"]
SubmitResult_early(code) ==
    CASE code = "ACCEPTED" -> [state |-> "ACCEPTED", future |-> "COMMITTED"]
      [] code = "TRY_LATER" -> [state |-> "OPEN", future |-> "TRY_LATER"]
      [] code = "NO_MODIFICATIONS" -> [state |-> "DISCARDED", future |-> "NO_MODIFICATIONS"]
      [] OTHER -> [state |-> "REJECTED", future |-> "REJECTED"]

(* set_submit_result(code): state and future for each code.                *)
SubmitResult(code) ==
    CASE code = "ACCEPTED" -> [state |-> "ACCEPTED", future |-> "pending"]
      [] code = "TRY_LATER" -> [state |-> "OPEN", future |-> "TRY_LATER"]
      [] code = "NO_MODIFICATIONS" -> [state |-> "DISCARDED", future |-> "NO_MODIFICATIONS"]
      [] OTHER -> [state |-> "REJECTED", future |-> "REJECTED"]

(* process_submit_resp(): older requests are dropped, and the response is  *)
(* ignored unless the oldest request left is the one it answers.           *)
ProcessSubmitResp ==
    /\ loop.pc = "idle" /\ toClient # <<>> /\ Head(toClient).type = "submit"
    /\ \E n \in 0 .. Len(m_requests) :
        LET resp == Head(toClient)
            left == SubSeq(m_requests, n + 1, Len(m_requests))
        IN /\ Pops(Cids(m_requests), resp.cid, n)
           /\ IF left = <<>> \/ Head(left).cid # resp.cid
              THEN m_requests' = left /\ UNCHANGED <<m_accepted, state, future>>
              ELSE LET t == Head(left).tx IN
                   /\ m_requests' = Tail(left)
                   /\ m_accepted' = IF resp.code = "ACCEPTED"
                                    THEN Append(m_accepted, [tx |-> t, erev |-> resp.erev])
                                    ELSE m_accepted
                   /\ IF state[t] = "SUBMITTED"
                      THEN /\ state' = [state EXCEPT ![t] = SubmitResult(resp.code).state]
                           /\ future' = [future EXCEPT ![t] = SubmitResult(resp.code).future]
                      ELSE UNCHANGED <<state, future>>
    /\ toClient' = Tail(toClient)
    /\ UNCHANGED <<log, pushed, toServer, m_con, m_rev, m_data, m_transactions, m_commands,
                   m_correlation, loop, content, created, held, missed>>

(* on_connection_closed() of the server's connection, the manager wanting  *)
(* to retry: cancel_requests() aborts what is SUBMITTED and forgets what   *)
(* is ACCEPTED.  Whatever was in flight is lost.                           *)
TxsOf(q) == {q[i].tx : i \in DOMAIN q}
ConnectionClosed_keepsRequests ==       \* mutant: m_requests is not emptied
    /\ ConnectionLoss
    /\ loop.pc = "idle" /\ m_con
    /\ m_con' = FALSE
    /\ Abort(TxsOf(m_requests) \cup TxsOf(m_accepted))
    /\ m_accepted' = <<>>
    /\ toServer' = <<>> /\ toClient' = <<>>
    /\ UNCHANGED <<log, pushed, m_rev, m_data, m_transactions, m_commands, m_requests,
                   m_correlation, loop, content, created, held, missed>>
ConnectionClosed ==
    /\ ConnectionLoss
    /\ loop.pc = "idle" /\ m_con
    /\ m_con' = FALSE
    /\ Abort(TxsOf(m_requests) \cup TxsOf(m_accepted))
    /\ m_requests' = <<>> /\ m_accepted' = <<>>
    /\ toServer' = <<>> /\ toClient' = <<>>
    /\ UNCHANGED <<log, pushed, m_rev, m_data, m_transactions, m_commands, m_correlation,
                   loop, content, created, held, missed>>

(* Mutant: the client asks for what follows the server's revision.         *)
Reconnected_serverRev ==
    /\ loop.pc = "idle" /\ ~m_con
    /\ m_con' = TRUE
    /\ pushed' = Len(log)
    /\ UNCHANGED <<log, toServer, toClient, m_rev, m_data, m_transactions, m_commands,
                   m_requests, m_accepted, m_correlation, loop, txvars>>

(* process_login_resp() on a client that has data: the server streams what *)
(* follows the revision of the store.                                      *)
Reconnected ==
    /\ loop.pc = "idle" /\ ~m_con
    /\ m_con' = TRUE
    /\ pushed' = m_rev
    /\ UNCHANGED <<log, toServer, toClient, m_rev, m_data, m_transactions, m_commands,
                   m_requests, m_accepted, m_correlation, loop, txvars>>

-----------------------------------------------------------------------------
(* The server (external).  It checks a request against the commits after   *)
(* the request's crev, appends it, answers, and streams the log in order.  *)
ConflictsWith(ks, crev) == \E i \in crev + 1 .. Len(log) : ks \cap Keys(log[i]) # {}

Verdict(q) ==
    IF Keys(q) = {} /\ q.force = FALSE THEN "NO_MODIFICATIONS"
    ELSE IF ConflictsWith(q.ensures, q.crev) THEN "REJECTED_ENSURE"
    ELSE IF ~q.force /\ ConflictsWith(Keys(q), q.crev) THEN "REJECTED_INTEGRITY"
    ELSE "ACCEPTED"

Answer(q, code, erev) ==
    toClient' = Append(toClient, [type |-> "submit", cid |-> q.cid, code |-> code,
                                  erev |-> erev, rev |-> 0])

ServerSubmit ==
    /\ toServer # <<>>
    /\ LET q == Head(toServer) IN
        \/ /\ TryLater
           /\ Answer(q, "TRY_LATER", 0)
           /\ UNCHANGED log
        \/ /\ Verdict(q) # "ACCEPTED"
           /\ Answer(q, Verdict(q), 0)
           /\ UNCHANGED log
        \/ /\ Verdict(q) = "ACCEPTED"
           /\ log' = Append(log, Commit(Me, q.tx, q.force, q.upserts, q.deletes))
           /\ Answer(q, "ACCEPTED", Len(log) + 1)
    /\ toServer' = Tail(toServer)
    /\ UNCHANGED <<pushed, client, txvars>>

ServerCommit ==
    /\ Cardinality({i \in DOMAIN log : log[i].by = Null}) <= MaxOther
    /\ \E c \in OtherCommit : log' = Append(log, Commit(Other, Null, FALSE, c.upserts, c.deletes))
    /\ UNCHANGED <<pushed, toServer, toClient, client, txvars>>

ServerPush ==
    /\ m_con /\ pushed < Len(log)
    /\ pushed' = pushed + 1
    /\ toClient' = Append(toClient, [type |-> "update", cid |-> 0, code |-> "", erev |-> 0,
                                     rev |-> pushed + 1])
    /\ UNCHANGED <<log, toServer, client, txvars>>

-----------------------------------------------------------------------------
UserStep ==
    \E t \in Tx :
        \/ \E level \in Levels[t] : CreateTx(t, level)
        \/ Discard(t) \/ DropHandle(t)
        \/ \E k \in Key : RemoveKey(t, k) \/ \E e \in Ensuring : Read(t, k, e)
        \/ \E k \in Key, d \in Data, f \in BOOLEAN : Upsert(t, k, d, f)
        \/ \E p \in Pattern : ForEach(t, p) \/ RemovePattern(t, p) \/ Ensure(t, p)
        \/ \E f \in Forcing : Submit(t, f)

LoopStep ==
    \/ ProcessUpdate \/ LockTransactions \/ UpdateTx \/ ConfirmCommit
    \/ \E t \in Tx : VisitTx(t)
    \/ ProcessSubmitCmd \/ ProcessSubmitResp

ServerStep == ServerSubmit \/ ServerCommit \/ ServerPush

Next == UserStep \/ LoopStep \/ ServerStep \/ ConnectionClosed \/ Reconnected

Spec == Init /\ [][Next]_vars

-----------------------------------------------------------------------------
State == {"NONE", "OPEN", "SUBMITTED", "ACCEPTED"} \cup Closed
Result == {"none", "pending", "COMMITTED", "NO_MODIFICATIONS", "TRY_LATER", "REJECTED", "EXCEPTION"}
Code == {"ACCEPTED", "TRY_LATER", "NO_MODIFICATIONS", "REJECTED_ENSURE", "REJECTED_INTEGRITY"}
Value == [data : Data, rev : Nat, user : User \cup {Null}]
ValueOrNull == Value \cup {Null}
ItemRec == [action : {"READ", "SNAPSHOT"}, value : ValueOrNull]
           \cup [action : {"UPSERT"}, value : Value] \cup [action : {"DELETE"}, value : {Null}]
CommitRec == [user : User, by : Tx \cup {Null}, forced : BOOLEAN,
              upserts : PartialFcn(Key, Data), deletes : SUBSET Key]
SubmitRec == [cid : Nat, tx : Tx, force : BOOLEAN, crev : Nat,
              upserts : PartialFcn(Key, Data), deletes : SUBSET Key, ensures : SUBSET Key]
ClientMsg == [type : {"submit"}, cid : Nat, code : Code, erev : Nat, rev : {0}]
             \cup [type : {"update"}, cid : {0}, code : {""}, erev : {0}, rev : Nat]
LoopRec(changes) == [pc : {"idle", "updated", "visit", "update"}, todo : SUBSET Tx,
                     tx : Tx \cup {Null}, purge : BOOLEAN, changes : {changes}]
AreMaps(f, S, T) == f = [t \in Tx |-> f[t]] /\ \A t \in Tx : IsMap(f[t], S, T)

(* Type invariant of the client, its transactions and the messages.        *)
TypeOK ==
    /\ log \in Seq(CommitRec) /\ pushed \in Nat
    /\ toServer \in Seq(SubmitRec) /\ toClient \in Seq(ClientMsg)
    /\ m_con \in BOOLEAN /\ m_rev \in Nat /\ m_correlation \in Nat
    /\ IsMap(m_data, Key, Value)
    /\ m_transactions \in SUBSET Tx /\ held \in SUBSET Tx
    /\ m_commands \in Seq([tx : Tx, force : BOOLEAN])
    /\ m_requests \in Seq([cid : Nat, tx : Tx])
    /\ m_accepted \in Seq([tx : Tx, erev : Nat])
    /\ loop \in LoopRec(loop.changes) /\ IsMap(loop.changes, Key, ValueOrNull)
    /\ loop.pc = "update" <=> loop.tx # Null
    /\ state \in [Tx -> State] /\ future \in [Tx -> Result]
    /\ AreMaps(items, Key, ItemRec)
    /\ AreMaps(seen, Key, ValueOrNull) /\ AreMaps(touched, Key, Nat)
    /\ ensures \in [Tx -> SUBSET Key] /\ dirty \in [Tx -> BOOLEAN]
    /\ isolation \in [Tx -> Level] /\ rev_creation \in [Tx -> Nat] /\ missed \in [Tx -> SUBSET Nat]

(* read() and for_each() under REPEATABLE_READ and SERIALIZABLE: what the  *)
(* user was once shown for a key stays what the transaction shows, through *)
(* commits, reconnections and TRY_LATER answers, until the transaction     *)
(* writes the key itself.                                                  *)
RepeatableReads ==
    \A t \in Tx : Pins(t) /\ state[t] = "OPEN" =>
        \A k \in DOMAIN seen[t] : OwnWrite(t, k) \/
            (k \in DOMAIN items[t] /\ items[t][k].value = seen[t][k])

(* The keys whose value commit j really changed.                           *)
Changed(j) ==
    DOMAIN log[j].upserts \cup {k \in log[j].deletes : ValueAt(k, j - 1) # Null}

(* Commit j changed a key of ks after transaction t based its use on it.   *)
ConflictAt(t, j, ks) ==
    \E k \in ks \cap DOMAIN touched[t] : touched[t][k] < j /\ k \in Changed(j)

(* The event loop has still to show commit m_rev to transaction t.         *)
Pending(t) == loop.pc = "updated" \/ t \in loop.todo \/ loop.tx = t

(* The keys that count as used by an open transaction.  For SERIALIZABLE   *)
(* these are the ones it showed a value of: read() of a key that somebody  *)
(* created and remove() of a key that somebody changed go unnoticed.       *)
Used(t) ==
    IF isolation[t] # "SERIALIZABLE" THEN Key
    ELSE {k \in DOMAIN seen[t] : seen[t][k] # Null}

(* is_dirty(): an open transaction is dirty as soon as the event loop is   *)
(* done with a commit that changed one of its keys, unless the loop        *)
(* skipped it because the transaction was SUBMITTED at that moment.        *)
DirtySound ==
    \A t \in Tx : state[t] = "OPEN" /\ ~Pending(t) =>
        \A j \in 1 .. m_rev :
            ConflictAt(t, j, Used(t)) => dirty[t] \/ j \in missed[t]

(* The commits of this client's transactions that were not forced.         *)
OwnCommit(i, levels) == log[i].by \in Tx /\ isolation[log[i].by] \in levels

(* Between submit() and commit: when a READ_COMMITTED or REPEATABLE_READ   *)
(* transaction overwrites somebody's change of a key it had used, that     *)
(* change is one the event loop applied while the transaction was already  *)
(* SUBMITTED.  Every other conflict is caught by the dirty flag or by the  *)
(* server's check against crev.  (A transaction that its user discards     *)
(* after submit() is still sent, and is not followed any more.)            *)
OverwritesOnlyMissed ==
    \A i \in DOMAIN log :
        /\ OwnCommit(i, {"READ_COMMITTED", "REPEATABLE_READ"}) /\ ~log[i].forced
        /\ state[log[i].by] # "DISCARDED"
        => \A j \in 1 .. i - 1 :
                ConflictAt(log[i].by, j, Keys(log[i])) => j \in missed[log[i].by]

(* transaction.hpp:56-60 and :91: a commit that is not forced overwrites   *)
(* no change made to its keys since it used them, a change that arrives    *)
(* while it is being sent included.                                        *)
NoLostUpdate ==
    \A i \in DOMAIN log : OwnCommit(i, Level) /\ ~log[i].forced =>
        \A j \in 1 .. i - 1 : ~ConflictAt(log[i].by, j, Keys(log[i]))

(* create_submit_msg() with rev_creation: a SERIALIZABLE transaction only  *)
(* commits if nobody named its keys since it was created, and, forced or   *)
(* not, if nobody named a key it ensured.                                  *)
SerializableCommits ==
    \A i \in DOMAIN log : OwnCommit(i, {"SERIALIZABLE"}) =>
        \A j \in rev_creation[log[i].by] + 1 .. i - 1 :
            /\ Keys(log[j]) \cap ensures[log[i].by] = {}
            /\ ~log[i].forced => Keys(log[j]) \cap Keys(log[i]) = {}

(* process_update() discards no accepted request (its assert(false)): each *)
(* one waits for a commit still to come, in the order of their commits.    *)
AcceptedAhead ==
    /\ \A i \in DOMAIN m_accepted :
        /\ m_accepted[i].erev \in DOMAIN log
        /\ log[m_accepted[i].erev].by = m_accepted[i].tx
        /\ m_accepted[i].erev > m_rev \/ (loop.pc # "idle" /\ m_accepted[i].erev = m_rev)
    /\ \A i, j \in DOMAIN m_accepted : i < j => m_accepted[i].erev < m_accepted[j].erev

(* The writes of transaction t, as the user made them.                     *)
WritesOf(t) == {k \in DOMAIN items[t] : OwnWrite(t, k)}

(* What a future says is true of the database: COMMITTED only when the     *)
(* local copy has the transaction's writes as one commit, and REJECTED,    *)
(* TRY_LATER or NO_MODIFICATIONS only when the database never got them.    *)
FutureTruthful ==
    \A t \in Tx :
        LET mine == {i \in DOMAIN log : log[i].by = t} IN
        /\ future[t] = "COMMITTED" => \E i \in mine : i <= m_rev /\ Keys(log[i]) = WritesOf(t)
        /\ future[t] \in {"none", "REJECTED", "TRY_LATER", "NO_MODIFICATIONS"} => mine = {}

(* The messages of type ty in a queue.                                     *)
OfType(q, ty) ==
    LET sel[i \in 0 .. Len(q)] ==
            IF i = 0 THEN <<>>
            ELSE IF q[i].type = ty THEN Append(sel[i - 1], q[i]) ELSE sel[i - 1]
    IN sel[Len(q)]

(* Correlation ids: the requests not yet answered are exactly those on the *)
(* wire, in order, so process_submit_resp() never drops or mismatches one. *)
RequestsAligned ==
    m_con => Cids(m_requests) = Cids(OfType(toClient, "submit")) \o Cids(toServer)

(* The copy is the database at revision m_rev, and the updates in flight   *)
(* continue it without a gap or a repetition, across reconnections: the    *)
(* store never has to refuse an update.                                    *)
ReplicaInSync ==
    /\ \A k \in Key : StoreValue(k) = ValueAt(k, m_rev)
    /\ LET up == OfType(toClient, "update") IN
        m_con => /\ \A i \in DOMAIN up : up[i].rev = m_rev + i
                 /\ pushed = m_rev + Len(up)
=============================================================================
