# A TLA+ model of nplex-cpp

nplex-cpp is the C++ client of nplex, a replicated in-memory key-value database.
A client keeps a full copy of the database, follows the commits that a server
streams, and lets its user run transactions on the copy, which the server then
accepts or rejects. This directory holds specifications of the client, the TLC
configurations that check them on small instances, and TLAPS proofs about them. Paths below are relative to `src/src/` unless they say otherwise.

## 1. The system

| component | state | operations | interacts through |
|---|---|---|---|
| store (`store.cpp`) | `m_rev`, `m_data`, the registries `m_metas` and `m_users` with hand-made reference counts | `load`, `update`, and their helpers `create_meta`, `release_meta`, `upsert_entry`, `delete_entry` | called by the event loop under `m_mutex`; read by transactions under the same mutex |
| transactions (`transaction_impl.cpp`) | `m_items` (key, action, value), `m_ensures`, `m_dirty`, `m_state`, isolation level, creation revision, a promise | `read`, `upsert`, `upsert_if_changed`, `remove`, `for_each`, `ensure`, `submit`, `discard`; `update`, `set_submit_result`, `confirm_commit` from the event loop | user threads and the event loop share it under `m_mutex_items` and `m_mutex_promise` |
| client: queues and waiting (`client_impl.cpp`) | `m_commands`, `m_requests`, `m_accepted`, `m_transactions`, `m_correlation`, `m_sessions_cid` | `create_tx`, `ping`, `fetch_sessions`, `close`, `push_command`, `process_commands`, the responses, `process_update`, `cancel_requests`, `wait_for_*` | user threads push commands, wake the loop with `uv_async_send` and wait on `m_cv` or on futures |
| client: life cycle (`client_impl.cpp`) | `m_state`, `m_con`, `m_data_cid`, `m_initialized`, two timers | `run`, `try_to_connect`, `on_connection_*`, `process_login_resp`, `process_snapshot_resp`, `process_updates_resp`, `abort` | callbacks of libuv and of the user's manager and reactor |
| connection (`connection.cpp`) | `m_state`, input buffer, counters of unacknowledged messages | `connect`, `disconnect`, `send`, the callbacks of libuv | calls the client; `uv_close` is asynchronous |
| users (`user.cpp`) | the ordered permissions the server sent at login | `is_authorized` | asked by every write of a transaction |
| messages (`messaging.cpp`), JSON (`json.cpp`), utilities, logging | no state of their own | framing and encoding, formatting | |
| examples (`src/examples/`) | a main thread, a reactor, a signal handler | `functests`, `watcher`, `example1`, `flooder` | the library's interface; `watcher` prints JSON lines for other programs |
| server (another program) | the log of commits | login, snapshot, updates, submit | flatbuffers messages over TCP (`schema*.fbs`) |

What is hard here: user threads run between any two steps with which the event
loop applies a commit; a transaction is submitted, sent, answered and confirmed
at four different moments and a commit, a lost connection, a `discard()` or the
end of the client may fall between any two of them; several servers are tried at
once and connections close asynchronously; reference counts are kept by hand
along paths that exceptions interrupt; messages arrive in pieces while their
handlers send and close; threads wait on a condition whose notifier does not
always hold the lock. `PROJECT.json` lists these hazards, each
at its line, with the properties that watch over it.

What makes each component correct:

* store: counters and registries agree with the data after any sequence of calls;
  whoever looks sees whole commits; the reported changes undo the commit.
* transactions: reads stay what they were where the level says so; a transaction
  whose keys somebody changed is dirty; what is not dirty and not forced does not
  overwrite what it has not seen; the future tells the truth and is always told.
* queues: no command, request or accepted transaction is lost, mismatched or left
  without a wake-up.
* waiting: no future and no wait outlives the client, nor misses what it waits for.
* connection: whole messages, in order, each at once; exact and bounded counters of
  what is not yet written; closing ends and is reported once.
* examples: the checks of `functests` hold in every order of the threads; what
  `watcher` prints is enough to rebuild the database and the sessions.
* life cycle: one session at a time; the replica continues without gap or
  repetition over reconnections; a session gets synced; a stop ends.

## 2. Modules

| module | models |
|---|---|
| `NplexTypes` | commits, maps, the effect of a commit on a content |
| `KvReplica` | abstract specification: a copy that moves in whole commits and snapshots |
| `NplexStore` | `store_t`, one step per entry of a message |
| `NplexStoreProofs` | theorems about `NplexStore`, its refinement of `KvReplica` included |
| `NplexTransactions` | transactions, `process_update()`, the submit protocol, with the server and its log (external) |
| `NplexTransactionsProofs`, `NplexIsolationProofs` | theorems about `NplexTransactions`: the submit protocol and the copy; isolation, futures and commits |
| `TxLifecycle` | threads: the steps of `submit()`, `discard()`, `set_state()`, `push_command()` and of the event loop that no lock holds together |
| `TxLifecycleProofs` | theorems about `TxLifecycle` |
| `NplexClient` | connections, logins, snapshot and updates, timers, reconnection, stopping, with the servers (external) |
| `NplexClientProofs` | theorems about `NplexClient` |
| `NplexFuncTests` | `functests.cpp`: each test as its sequence of calls, on top of `NplexTransactions` |
| `MsgFifo` | abstract specification: what a connection promises, a queue of whole messages |
| `NplexConnection` | `connection_impl`: the callbacks of libuv, framing, the limits of `send()`, with the peer and the kernel (external) |
| `NplexConnectionProofs` | theorems about `NplexConnection`, its refinement of `MsgFifo` included |
| `LoopTheorems` | induction up to a bound, and the value of a loop written as a recursive function, for the proofs |
| `NplexWatcher` | `wait_for_*`, `ping`, `fetch_sessions`, `close` and signals against the event loop, in the programs `watcher` and `example1`, with the lines they print |
| `NplexWatcherProofs` | theorems about `NplexWatcher` |
| `MCNplexStore`, `MCNplexTransactions`, `MCNplexFuncTests`, `MCNplexClient`, `MCNplexConnection`, `MCNplexWatcher` | instances for TLC |

**NplexStore.** A call holds `m_mutex` from beginning to end, yet it is modelled
entry by entry: an exception can leave it at each entry (an invalid key, a
malformed message, a snapshot out of order), and `pc = "thrown"` keeps what it
left behind. `nrefs` and `owner` are the fields of the `meta_t` objects, by
revision. A null message, which only asserts, is left out. Upserts and deletes of
one commit are disjoint, as a transaction keeps one entry per key.

**NplexTransactions.** An operation of a user thread is one step, because it
holds `m_mutex_items` and, while it looks at the store, the store's mutex.
`process_update()` is several: the store (`ProcessUpdate`), taking the list of
transactions (`LockTransactions`), each transaction (`VisitTx`, `UpdateTx`), the
confirmation (`ConfirmCommit`). A pattern is the set of keys it matches, in the
entries of `permissions` too: `is_authorized` takes the first entry that matches.
`seen`, `touched` and `missed` are history that only the properties read. A
`create_tx()` refused for `max_active_txs` is not a step: nothing was purged, as the list
is never longer than that. A message that `send()` refuses is one lost with the connection.
A lost connection empties what is in flight, and a new login continues the stream from
the store's revision; `NplexClient` models how that comes about. The server
rejects a submit that names a key changed after the request's `crev`, gives
consecutive revisions and streams every commit in order.

**TxLifecycle.** Leaves the data out and splits the steps: `set_state()` reads
and writes the atomic `m_state` separately, `push_command()` looks at the client's
state before it takes the queue's lock, results are reported one transaction at a
time. `Modulus` stands for the 2^32 of the queue limit's arithmetic.

**NplexClient.** An action is one callback of the event loop with everything it
calls. `closing` holds the handles on which `uv_close()` was called, newest first;
at the end of a turn they become `running` and are called back in that order,
which is what libuv does. `reading` is the connection whose input buffer is being
emptied: its messages are handled to the last even if one of them closes the
connection. The store is its revision. Every failure (refused connection or
request, failed write, closed or silent server) counts against `MaxFault`. A push
of several updates is a sequence of pushes.

**NplexFuncTests.** A test is a sequence of records, one per call or check, that a
thread executes with the actions of `NplexTransactions`; `get()` blocks it. The
event loop, the server and another client, which commits to a key of its own, run
beside it. The tests run one by one from the content an earlier one may have left.

**NplexConnection.** A byte is named after its frame and its place in it, so that
a buffer cut in the wrong place is seen as such; a frame has its length field, its
true size, and whether checksum and content are good. `pc` is where `cb_tcp_read()`
is: between messages (`reading`) or inside `on_msg_received()` (`handling`), where
the client may call `send()` and `disconnect()`. A write is taken by the kernel, or
fails, after `send()` has returned; the writes pending at `uv_close()` are
called back before the handle. The mapping to `MsgFifo` hides the bytes: the queue
holds the well-formed frames sent and not yet handed over.

**NplexWatcher.** The main thread executes a script of library calls; each is split
where another thread can look: `wait_for_*` into check, lock, predicate and sleep,
`push_command()` into check, lock and insertion, `set_state()` into the write of
`m_state`, the clearing under the lock (for CLOSED) and the notification. The
handler of SIGTERM runs on top of the main thread; SIGINT goes to libuv.
`reader` is a program outside the repository that applies the printed lines.

The modules compose by interface: `NplexFuncTests` extends `NplexTransactions`; `NplexStore` implements `KvReplica`, whose
`Patch` is the store of `NplexTransactions`; what `NplexTransactions` takes as one
step is taken apart in `TxLifecycle` (threads) and `NplexClient` (connection).

## 3. What is checked

Passing runs:

| run | instance | properties |
|---|---|---|
| `store` | 2 valid keys and an invalid one, 2 users, revisions to 3, all commits of up to 2 entries, snapshots of up to 2 updates | `RefsExact`, `MetasExact`, `UsersCover`: counters and registries; `StoreInv`: their inductive form; `ChangesUndo`; `ImplementsReplica`: the refinement |
| `tx_single` | one transaction of any level, 2 keys, permissions in which an entry hides a later one, every operation, forced or not, TRY_LATER, a commit of another client, 2 submits | `RepeatableReads`, `DirtySound`, `OverwritesOnlyMissed`, `SerializableCommits` |
| `tx_pair` | a REPEATABLE_READ and a SERIALIZABLE transaction, 1 key, a commit of another client, a dropped `tx_ptr`, lost connections | `AcceptedAhead` (the client's own assertion), `FutureTruthful`, `RequestsAligned`, `ReplicaInSync` |
| `functests` | the 23 tests and the clean-up, 8 transactions of which 2 read-only, at most 3 active, a commit of another client | `ChecksPass`, `TestsEnd` (liveness) |
| `life` | 2 transactions, one of which may be discarded, a ping, a close, lost connections, `max_active_txs = 0` (so the queue really fills: its limit is 2) | `SubmittedTracked`, `ClosedResolved`, `CommandsDrain` (liveness) |
| `client` | 2 servers, 2 failures of any kind, callbacks that throw, 2 revisions at the start and one commit, any snapshot | `OneServer`, `NoUpdateMissed`, `NoUpdateTwice`, `SyncedCaughtUp`, `SessionSyncs`, `StopEnds` (the last two liveness) |
| `connection` | 2 sessions on one connection, frames that are good, badly checksummed or wrong in length, pieces of every size, messages of different length against limits of messages and bytes | `UnackExact`, `UnackBounded`, `NothingWaits`, `ImplementsFifo` (the refinement), `AllArrive`, `DisconnectEnds` (the last two liveness) |
| `watcher` | `watcher` with each option, `example1`, and a reader that waits for the snapshot only; 2 keys, text and binary data, 2 commits (one overwrites and creates, one deletes), 2 session events, SIGINT, SIGTERM, a lost connection | `PrintedRebuilds`, `SessionsMirrored`, `OncePrintsAll`, `RequestEnds`, `ClosedEnds` (the last two liveness) |

The runs `store`, `tx_single`, `life` and `client` also check the `TypeOK` of their
module. Every property has a mutant in `PROJECT.json`: an operator, beside the one
it replaces, with a plausible bug that makes the property fail.

Runs that show a disagreement between the code and what it says of itself
(findings, quoted in `PROJECT.json`):

| run | what TLC shows |
|---|---|
| `tx_lost_update` | a commit applied after `submit()` and before the request is sent is overwritten: the transaction is not shown it and `crev` is taken at sending |
| `life_crash` | `discard()` between the check and the write of `set_state()` makes the event loop set a promise twice, and the exception ends the client |
| `client_retry` | after `on_connection_failed()` the reconnect timer expires and `try_to_connect()` returns: the state is CONNECTING, not OFFLINE |
| `watcher_wait` | `set_state(SYNCED)` notifies without the lock while `wait_for_synced()` is between its predicate and its sleep: it sleeps on |

**Bounds.** The transaction properties are about one key against one commit at a
time, with a second key for patterns; two transactions show order in the queues;
one commit of somebody else falls at every point. Two failures allow a session, its
loss and another loss, or the failure of both servers. Three bytes of
overhead per frame would be twelve in the code: what matters is that a piece can
end inside each field and between two messages, and that two messages can come in
one piece. A second session on the same connection shows what the first leaves
behind. Two commits and two session events are a change and its reversal. The safety properties, all
but one, are proved for all values besides (section 4). Deadlock is checked for the store only: the other
systems stop when their users and the bounded environment do.

**Fairness.** The event loop takes its steps (weak fairness): it
is one thread that does not block. `WakeUp` has strong fairness, because libuv
serves every ready handle in each turn, whatever else arrives. The main threads of
the examples run, and the kernel writes, or fails to write, what it was given. The server answers
and streams, a connection attempt ends and a user thread inside a call of the
library returns; these the code cannot guarantee and the liveness properties
assume. Commits of others, failures, closing, and the calls of users are not fair.

## 4. What is proved

Every theorem is about the specification the runs check, for every value of the
constants that its `ASSUME` admits; hypotheses of a single theorem are named below.
Each inductive invariant was first an invariant of a TLC run.

**NplexStore** (`NplexStoreProofs`), for any finite set of keys, any users, updates
and snapshots.

* `StoreTypeOK`: types, one lemma per helper.
* `StoreBounds`, then `StoreInvariant` and `StoreInvHolds`: the inductive
  invariant `IInv` (types, bounds and `StoreInv`). `RefsExact` alone is not
  inductive: `upsert_entry()` releases the metadata it replaces, and only if that
  is not the current commit's (`CallLocals`: the entries still to come are not yet
  of this commit) are the two counters different ones; a revision used anew must
  have no references, which follows from `NotNewer`. `MetasExact` holds between
  calls only; what holds inside is `MetasLive`, all that is referenced but for
  the current commit. `UsersCounted` counts the current commit from `create_meta()`
  on. `UsersCover` is an inequality because the code leaks (section 6).
* `StoreRefsExact`, `StoreMetasExact`, `StoreUsersCover` follow.
* `StoreImplementsReplica`: under the mapping `AbsContent`, which shows a commit as
  applied from its first step because the mutex is held, every step is a step of
  `KvReplica` or a stutter. A load ends with exactly the content of a snapshot
  (`ContentOf`: for each key what the last commit that names it says) whose commits are
  in order; this needs the auxiliary invariant `LoadedSoFar`, that the content is what
  the commits taken so far make and the rest of the snapshot is still to come.
* `StoreChangesUndo`: an action property, with the auxiliary invariant
  `ChangesFresh` that a change is recorded once per key.

**TxLifecycle** (`TxLifecycleProofs`), for any number of transactions and pings.

* `LifecycleTypeOK`, `TransactionsTracked` (`SubmittedTracked`) and
  `ClosedTransactionsResolved` (`ClosedResolved`), all from one `IInv`: types,
  what kind of command each queue may hold (`QueuesOK`), where the event loop may be
  and with which transaction (`LoopOK`), and for each transaction (`PerTx`) that
  it has at most one token (`OneToken`). A token is an entry in `m_commands`, `m_requests`
  or `m_accepted`, or the answer the event loop is about to report; an OPEN transaction,
  and one whose `submit()` has not queued it yet, has none. `ClosedResolved` is not inductive without it: an answer is
  reported in steps (state checked, state written, promise set), and only because
  no second answer for the same transaction exists is the promise still the one of
  the submit it answers.

**NplexConnection** (`NplexConnectionProofs`), for any limits and any sequence of frames.

* `UnackCountersExact`, `UnackWithinLimits`: what `send()` counts as not yet
  written is what the kernel and libuv hold, and stays within the limits: at most
  `MaxUnackMsgs` messages, less than `MaxUnackBytes` bytes.
* `NoMessageWaits`: a whole message in the buffer is handled in the read that
  completes it. It needs `Stream`, a description of the bytes received and
  in flight as the frames the peer sent, cut at any place, and `Delivered`,
  that what the reactor got is a prefix of those frames.
* `ConnectionImplementsFifo`: every step is a step of `MsgFifo` or a stutter, with the
  frames delivered and not delivered as the queue.

**NplexClient** (`NplexClientProofs`), for any number of servers, any bounds.

* `ClientTypeOK`, `OneServerAtATime` (`OneServer`), `SyncedHasCaughtUp`
  (`SyncedCaughtUp`).
* `NoUpdateReceivedTwice` (`NoUpdateTwice`) and `NoUpdateIsMissed` (`Gapless`: the
  updates in flight continue `m_rev` one by one), assuming `m_rev0 > 0` and
  `OldestRev > 0`. Both hypotheses are needed, and TLC shows why: with `m_rev0 = 0` a
  reconnection moves `m_rev` to the server's revision; with `OldestRev = 0` a snapshot
  of revision 0 makes the client ask for the updates since 0, which the protocol
  reads as "the new ones" (both in section 6).
* The argument: a connection carries one request or its answer at a time (`Turns`),
  so what is in flight on `m_con` belongs to the client's last request, made from
  the revision it had at that moment; everything in flight on other connections is
  of no consequence because the client only listens to `m_con` (`Session`,
  `OneServer`). `IInv` is types, the shape of the network (`NetworkOK`), that nobody
  knows a revision the server has not reached (`Known`), `TurnsOK`, `Session`, and
  the three properties.

**NplexTransactions** (`NplexTransactionsProofs`, `NplexIsolationProofs`), for any
keys, data, transactions, levels, patterns, permissions and bounds, with lost
connections and TRY_LATER.

* `TransactionsTypeOK`, with the addition that an update in flight names a commit of
  the log (`UpdatesKnown`), so that applying it keeps the types.
* `TransactionsRequestsAligned`, `TransactionsReplicaInSync`,
  `TransactionsAcceptedAhead`, all from `SyncInv`. Its parts are `Wire` (the requests
  not answered are the answers in flight followed by the requests in flight, each
  ACCEPTED answer naming the commit of its request), `Copy` (the store is the database
  at `m_rev`, which is computed from the log, and the updates in flight follow it one by
  one) and `Awaited`. `AcceptedAhead` is not inductive: an accepted request stays
  ahead of the store because its answer was put on the same connection before the
  update of its commit, so `Awaited` orders the answers against the updates that
  travel in front of them, and against the requests accepted earlier.
* `IsolationRepeatableReads`, from `ReadsInv`: what was shown is an entry of the
  transaction, with that value, unless it is now a write; a transaction that does not
  pin has shown nothing that counts, and one not yet created nothing at all. Each
  operation is first reduced to what it may do to the content of its own transaction
  (`ContentStep`); `update()` only adds SNAPSHOT entries for keys that had none.
* `IsolationFutureTruthful` and `IsolationSerializableCommits`, from `TokensInv`: a
  transaction is at most once among the commands and the requests (`Queues`), and if it
  is OPEN, or its future says that it was refused, it is in neither and the log has
  no commit of it; what is on the wire and in the log carries the writes of its
  transaction and, for SERIALIZABLE, its ensured keys and creation revision
  (`Requests`, `Commits`). These stay true because what a submitted transaction sends
  is frozen (`FrozenStep`): the only step that still changes its entries is `update()`
  finding it SUBMITTED, which adds no writes.
* `IsolationDirtySound`, from `FollowInv`. `DirtySound` speaks of an OPEN transaction,
  but one that TRY_LATER sends back to OPEN was followed, or missed commits, while it was
  SUBMITTED, so the invariant is about every transaction that is not closed (`Live`).
  Its parts: the loop knows every such transaction (`Follows`: purging one also discards
  it) and `loop.changes` is what the commit changed (`LoopAt`); a used key has an
  entry, based on the creation revision for SERIALIZABLE (`TouchInv`); and for every
  commit the loop is done with (`Shown`) a changed used key has set `m_dirty` or the
  commit was missed (`DirtyPlain`). For SERIALIZABLE more is kept: every key changed
  since the creation has an entry which is a SNAPSHOT or a write of which no value has
  been shown, or the transaction is dirty (`DirtySerial`). `ShownStep` says that there
  are only two ways from not shown to shown.
* `IsolationOverwritesOnlyMissed`, from `SentInv`: the same statement carried along the
  way of an unforced transaction. A command has it because `submit()` refuses a dirty
  transaction; a request has it up to its `crev`, because the command is taken when the
  loop is idle and `crev` is then the last commit shown; a commit has it because the
  server looks at everything after `crev`. The recorded revisions do not change on the
  way, as a transaction that is not OPEN uses no key.

**NplexWatcher** (`NplexWatcherProofs`), for any database, commits, encodings, sessions,
signals and losses of the connection. The assumptions on the constants only say that the
database and the commits are functions and sequences (`DataAssumption`) and that `Null` is
not a value it stands for the absence of (`NullAssumption`).

* `WatcherInvariant`: the inductive invariant `Inv`. Besides types and what `m_state`
  says of the connection (`Standing`) it has four parts. `Stream`: the store is the
  content of the log at `m_rev`, so is what a reader of the output has, and the commits
  in flight continue it one by one; it follows the data from the request on, when there is
  no stream yet (`Before`, `Asking`, `Streaming`, `Ordered`). `Told`: the revision in the
  messages rises along the queue, so what the server said when it answered is behind what
  it sends later. `Listing`: the request for the sessions is in one place only (the command
  queue, the wire, the answer, the event loop) with the identifier the client expects
  (`Stage`), and there is a sequence of session sets from the printed one to the
  server's, one per message in flight (`Mirror`). `Progress`: what `main()` can
  count on once it is past a call (`Calls`, `Synced`, `Listed`).
* `PrintedLinesRebuild` (`PrintedRebuilds`) follows from `Stream`. It needs that no line
  puzzles the reader, hence that each event names the value the reader has, which the
  encoding may have changed: base64 can be undone.
* `PrintedSessionsMirror` (`SessionsMirrored`) follows from `Listing`. The property speaks
  of an empty queue only and is not inductive; `Mirror` is what is true with
  messages in flight.
* `OncePrintsEverything` (`OncePrintsAll`) follows from `Told` and `Progress`: `main()`
  gets the list and closes the client while the event loop is still to print it, so the
  invariant keeps that a future with a value means printed, or about to be by a loop that
  no command can interrupt.

**Induction over data.** The loops that proofs unfold (the bytes queued, the connections
to shut down) are recursive functions. The prover cannot instantiate the library's
induction principles; `LoopTheorems` states them with a set or a function as the
parameter instead (`Least`, `UpTo`, `LoopExists`).

Only model-checked: all liveness (`CommandsDrain`, `SessionSyncs`, `StopEnds`,
`TestsEnd`, `AllArrive`, `DisconnectEnds`, `RequestEnds`, `ClosedEnds`: the prover does
not handle fairness), and `ChecksPass` of `NplexFuncTests`. The latter is about 24 fixed
scripts (the 23 tests and the clean-up) on the keys and data they name; TLC runs those
very scripts in all interleavings, so a proof would only add that any number of commits
by others to other keys changes nothing, at the price of an annotation of the whole
state before each call of each script. What the checks rest on for every client, the
isolation levels, is proved of `NplexTransactions`.

## 5. What is not modelled

Keepalives (they restart a timer whose expiry may happen at any time), the timeouts
of `wait_for_*` (49 days by default), how an address is parsed and what it resolves
to, the matching of characters by patterns (sets of keys), key validation (a set of
keys), the escaping of JSON text, the test for valid UTF-8 (a set of
data), logging, `schema.hpp` (generated), callbacks of
users inside `for_each()` other than those of `remove(pattern)`, the transaction of
`example1` (`functests` does the same all the time), and `flooder`, a load generator
made of clocks, random data and statistics around forced transactions.
`NplexClient` takes `m_rev0` > 0 in its passing run.

## 6. Known deviations without a run of their own

Met while modelling; the models contain the behaviour and the properties above
are stated so as to hold with it.

* `create_meta()` counts a reference on the user that is never released when a
  commit ends without references (only deletes): `m_users` keeps the user.
* A transaction reopened by TRY_LATER never learns of the commits it missed while
  SUBMITTED (`missed` in `DirtySound`).
* Under SERIALIZABLE, `remove()` of a key that a commit has changed, and `read()`
  of one that a commit created, do not make the transaction dirty (`Used`).
* `discard()` racing an answer can be overwritten by the state of the answer.
* `submit()` on a closed client returns a future that is never set.
* With `max_active_txs = 0` the queue limit `max_active_txs + 3` wraps to 2.
* With `m_rev0 = 0`, a reconnection moves the store's revision to the server's
  before the updates in between arrive, and the first of them ends the loop.
* Revision 0 in the request for updates means "new updates", so a client
  initialised with an empty database (store at revision 0) that reconnects asks
  for the new updates only.
* After an exception of the manager in `process_login_resp()`, the state goes from
  CLOSED back to SYNCING or LOADING_SNAPSHOT until `run()` ends.

* Between `store.update()` and `transaction.update()` a SERIALIZABLE transaction
  that does not hold a key yet reads it from the new store: a value newer than its
  creation, against transaction.hpp:149 ("The value is fixed at the transaction
  creation revision."). `NplexTransactions` has the step in between.
* `cancel_requests()` calls `set_submit_result(exception)` on accepted requests too,
  which returns because the state is not SUBMITTED: the future of an ACCEPTED
  transaction whose connection is lost is never set. So `TestsEnd` is checked
  without losses of the connection.
* A connection lost in the turn of its login is called back before the other
  servers' connections are closed; `connect()` throws on those and the client ends,
  against the assertion of client_impl.cpp:463 (`died = "connect"` in
  `NplexClient`, exempted in `StopEnds`).
* A request pushed between the last clearing of the queue and the end of its
  caller's check stays in the queue of a client whose `run()` has returned; the
  future is never set (`Stranded`), against client.hpp:462-463 ("or the exception if
  the client is closed while waiting for the response").
* The handler of SIGTERM in `watcher.cpp` locks a mutex that its own thread may hold
  (`SelfDeadlock`).
* `connection::send()` on a full queue closes the connection and returns, without
  freeing the message; connection.hpp:90 announces an exception.
* `connect()` to an address that does not resolve throws with the state already
  CONNECTING: only `disconnect()` ends it (`Connect` in `NplexConnection`).
* An exception of the reactor in `on_event_data()` is logged and ignored;
  client.hpp:219 says that the client will terminate.
* The comment on `acl_t::mode` (user.hpp) has 1 = CREATE and 2 = READ, the constants
  have them the other way round.

## 7. Plan

Done: the store with its proofs, transactions and permissions, life cycle of a
transaction, life cycle of the client, connection and framing, waiting and the
sessions commands, the examples `functests`, `watcher` and `example1`. Next, in this
order:

1. The lock order of `for_each()` callbacks, `create_tx()` and the event loop.
2. `NplexClient`: the case `m_rev0 = 0`, and a refinement of the abstract replica
   by the client over reconnections.
