---------------------------- MODULE NplexWatcher ----------------------------
(***************************************************************************)
(* The programs that use a client from their main thread while its event   *)
(* loop runs in another one: watcher (src/examples/watcher.cpp), with its  *)
(* options, and example1 (src/examples/example1.cpp).  They block in       *)
(* wait_for_synced(), wait_for_closed() and future.get(), and print as     *)
(* JSON (src/src/json.cpp) what the reactor's callbacks tell them.         *)
(*                                                                         *)
(* A step is what a thread does without being seen in between: m_state is  *)
(* atomic and set_state() writes it without a lock, m_mutex_commands is    *)
(* held from the check of a wait to its sleep and around the queue.  The   *)
(* signal handler of SIGTERM runs on the main thread, in the middle of     *)
(* whatever that was doing.                                                *)
(*                                                                         *)
(* How a client finds its server is in NplexClient, transactions are in    *)
(* NplexTransactions; here is one server (external), and the default       *)
(* manager, that closes the client when the connection is lost.  The       *)
(* timeout of a wait (49 days by default) never comes.                     *)
(***************************************************************************)
EXTENDS Integers, Sequences, FiniteSets, Functions

CONSTANTS
    Programs,       \* the programs to run, of those in DOMAIN Script
    InitialData,    \* content of the database when the program starts
    Commits,        \* what others commit, in order: functions from keys to data or Null
    Utf8,           \* the data that is valid UTF-8
    Self,           \* the session of the program
    Others,         \* sessions of other users
    CanMonitor,     \* user_t::can_monitor
    MaxEvent,       \* bound: session events
    Faults,         \* may the connection be lost?
    Signals,        \* the signals that may come: subset of {"SIGINT", "SIGTERM"}
    Null

ASSUME WatcherAssumption ==
    /\ Self \notin Others /\ CanMonitor \in BOOLEAN /\ Faults \in BOOLEAN
    /\ MaxEvent \in Nat
    /\ Signals \subseteq {"SIGINT", "SIGTERM"}

(* What each program calls, from the end of the client's creation.         *)
Watch == <<"wait_synced", "fetch_stream", "get", "wait_closed">>
Once == <<"wait_synced", "fetch", "get", "close", "wait_closed">>
print_active_sessions == <<"fetch", "get">>
print_database_content == <<"scan">>
measure_latency == <<"ping", "get">>
Script == [
    watcher       |-> Watch,
    data_only     |-> <<"wait_synced", "wait_closed">>,
    sessions_only |-> Watch,
    once          |-> Once,
    data_once     |-> <<"wait_synced", "close", "wait_closed">>,
    example1      |-> <<"wait_synced">> \o print_active_sessions \o print_database_content
                      \o measure_latency,
    populated     |-> <<"wait_populated", "scan">>]     \* no example, a reader of the local copy

ASSUME ProgramsAssumption == Programs \subseteq DOMAIN Script

VARIABLES
    \* --- client_impl
    m_state, m_con, m_initialized,
    m_store, m_rev, \* the content of the store and its revision
    m_correlation, m_data_cid, m_sessions_cid,
    m_commands, async, m_requests,
    m_mutex_commands,   \* is it held, by the main thread?
    loop,           \* where the event loop is, and where it goes on after a call
    \* --- the main thread
    program, next,  \* the program and its next call
    at,             \* where the thread is inside that call
    future,         \* what the last request's future holds
    failed,         \* an exception was caught
    handler,        \* the signal handler: "none", "running" or "done"
    \* --- who reads the standard output
    reader,
    \* --- the server (external)
    log,            \* the contents of the database, by revision
    sessions,       \* the active sessions
    data_stream, sessions_stream,   \* the cid and, for the data, the last revision streamed
    outbox, inbox, events,
    told            \* history: the revision in the UpdatesResponse

replica == <<m_initialized, m_store, m_rev>>
session == <<m_state, m_con, m_correlation, m_data_cid, m_sessions_cid>>
clientvars == <<m_state, m_con, m_initialized, m_store, m_rev, m_correlation, m_data_cid,
                m_sessions_cid, m_commands, async, m_requests, loop>>
mainvars == <<program, next, at, future, failed, m_mutex_commands, handler>>
servervars == <<log, sessions, data_stream, sessions_stream, outbox, inbox, events>>
vars == <<clientvars, mainvars, reader, servervars, told>>

PrintsData == program \in {"watcher", "data_only", "once", "data_once"}
PrintsSessions == program \in {"watcher", "sessions_only", "once"}

Idle == [pc |-> "idle", ret |-> "idle"]
Request(type, cid, rev) == [type |-> type, cid |-> cid, rev |-> rev]
Command(kind) == [kind |-> kind, cid |-> 0]

(* The data of the database.  InitialData and the commits are functions,   *)
(* and Null is something else than what it stands for the absence of.      *)
Data == (Range(InitialData) \cup UNION {Range(Commits[i]) : i \in DOMAIN Commits}) \ {Null}
Base64(data) == <<"base64", data>>

ASSUME DataAssumption ==
    /\ InitialData \in [DOMAIN InitialData -> Data]
    /\ Commits \in Seq(Range(Commits))
ASSUME NullAssumption ==
    /\ Null \notin Nat
    /\ Null \notin [cid : Nat, rev : Nat]
    /\ Null \notin [data : Data, rev : Nat]
    /\ Null \notin [data : Data \cup {Base64(d) : d \in Data}, encoding : {"text", "base64"},
                    rev : Nat]

(* The login request has been sent.                                        *)
Init ==
    /\ m_state = "CONNECTING" /\ m_con = FALSE /\ m_initialized = FALSE
    /\ m_store = << >> /\ m_rev = 0
    /\ m_correlation = 1 /\ m_data_cid = 0 /\ m_sessions_cid = 0
    /\ m_commands = <<>> /\ async = FALSE /\ m_requests = <<>>
    /\ m_mutex_commands = FALSE /\ loop = Idle
    /\ program \in Programs /\ next = 1 /\ at = "call"
    /\ future = "none" /\ failed = FALSE /\ handler = "none"
    /\ reader = [data |-> << >>, rev |-> 0, sessions |-> {}, listed |-> FALSE, puzzled |-> FALSE]
    /\ log = <<InitialData>> /\ sessions = {Self}
    /\ data_stream = Null /\ sessions_stream = Null
    /\ outbox = <<Request("login", 1, 0)>> /\ inbox = <<>> /\ events = 0
    /\ told = 0

-----------------------------------------------------------------------------
(* The lines that the program prints.  A line has one field, which says    *)
(* what kind of line it is.  A value says how its data is encoded, and the *)
(* values of a change are those that its action has.                       *)
json_append_value_text(v) ==    \* mutant: the encoding is always the same
    [data |-> IF v.data \in Utf8 THEN v.data ELSE Base64(v.data), encoding |-> "text", rev |-> v.rev]
json_append_value(v) ==
    IF v.data \in Utf8 THEN [data |-> v.data, encoding |-> "text", rev |-> v.rev]
    ELSE [data |-> Base64(v.data), encoding |-> "base64", rev |-> v.rev]

json_append_keyval(k, v) == [key |-> k, value |-> json_append_value(v)]
data_to_json(k, v) == [data |-> json_append_keyval(k, v)]

json_append_change(c) ==
    [action |-> c.action, key |-> c.key,
     new_value |-> IF c.action # "DELETE" THEN json_append_value(c.new_value) ELSE Null,
     old_value |-> IF c.action # "CREATE" THEN json_append_value(c.old_value) ELSE Null]
json_append_event_data(rev, changes) ==
    [rev |-> rev, changes |-> {json_append_change(c) : c \in changes}]
event_data_to_json(rev, changes) == [event_data |-> json_append_event_data(rev, changes)]

json_append_session(s) == [user |-> s.user]
session_to_json(s) == [session |-> json_append_session(s)]

(* until is left out while the session is active.                          *)
json_append_event_session(s) ==
    [user |-> s.user, code |-> s.code, until |-> IF s.until # 0 THEN s.until ELSE Null]
event_session_to_json(s) == [event_session |-> json_append_event_session(s)]

(* Whoever reads them (not part of the repository) keeps a copy of the     *)
(* database and of the sessions, and is puzzled by a line that does not    *)
(* fit into it.  The lines of a first state come together.                 *)
Decode(j) == [data |-> IF j.encoding = "text" THEN j.data ELSE j.data[2], rev |-> j.rev]
Forget(f, keys) == [k \in DOMAIN f \ keys |-> f[k]]

ReadData(keyvals, rev) ==
    [reader EXCEPT
        !.rev = rev,
        !.data = [k \in {l.key : l \in keyvals} |->
                    Decode((CHOOSE l \in keyvals : l.key = k).value)]]

ReadEventData(event) ==
    LET kept == Forget(reader.data, {c.key : c \in event.changes})
        fits(c) ==
            /\ (c.action = "CREATE") = (c.key \notin DOMAIN reader.data)
            /\ c.action # "CREATE" =>
                /\ c.old_value # Null
                /\ Decode(c.old_value) = reader.data[c.key]
        new == {c \in event.changes : c.new_value # Null}
    IN [reader EXCEPT
        !.rev = event.rev,
        !.puzzled = @ \/ \E c \in event.changes : ~fits(c),
        !.data = [k \in DOMAIN kept \cup {c.key : c \in new} |->
                    IF k \in DOMAIN kept THEN kept[k]
                    ELSE Decode((CHOOSE c \in new : c.key = k).new_value)]]

ReadSessions(list) == [reader EXCEPT !.sessions = {l.user : l \in list}, !.listed = TRUE]

ReadEventSession(event) ==
    LET comes == event.code = "CONNECTED" IN
    [reader EXCEPT
        !.sessions = IF comes THEN @ \cup {event.user} ELSE @ \ {event.user},
        !.puzzled = @ \/ comes = (event.user \in reader.sessions) \/ comes = (event.until # Null)]

(* watcher_reactor: what its callbacks print, as it is read.               *)
on_initial_data(content, rev) ==
    IF PrintsData
    THEN ReadData({data_to_json(k, content[k]).data : k \in DOMAIN content}, rev) ELSE reader
on_event_data(rev, changes) ==
    IF PrintsData THEN ReadEventData(event_data_to_json(rev, changes).event_data) ELSE reader
on_initial_sessions(list) ==
    IF PrintsSessions THEN ReadSessions({session_to_json(s).session : s \in list}) ELSE reader
on_event_session(s) ==
    IF PrintsSessions THEN ReadEventSession(event_session_to_json(s).event_session) ELSE reader

-----------------------------------------------------------------------------
(* The main thread runs while no signal handler runs on top of it.         *)
Op == Script[program][next]
Main == handler # "running" /\ at # "ended"
Go(where) == at' = where /\ UNCHANGED <<next, failed>>

(* The call returns; after the last one, and after an exception, main()    *)
(* returns and the jthread is destroyed.                                   *)
Return ==
    /\ IF next < Len(Script[program]) THEN at' = "call" /\ next' = next + 1
       ELSE at' = "stop" /\ UNCHANGED next
    /\ UNCHANGED failed
Throw == at' = "stop" /\ failed' = TRUE /\ UNCHANGED next

inside == <<clientvars, program, handler, reader, servervars, told>>

(* wait_for_populated(), wait_for_synced() and wait_for_closed(): before   *)
(* they take the lock ...                                                  *)
WaitOp == Op \in {"wait_populated", "wait_synced", "wait_closed"}
WaitEnter ==
    /\ Main /\ at = "call" /\ WaitOp
    /\ IF m_state # "CLOSED" THEN Go("lock")
       ELSE IF Op = "wait_closed" THEN Return ELSE Throw
    /\ UNCHANGED <<inside, future, m_mutex_commands>>

(* ... when they have it ...                                               *)
WaitLock ==
    /\ Main /\ at = "lock" /\ ~m_mutex_commands
    /\ m_mutex_commands' = TRUE
    /\ Go("check")
    /\ UNCHANGED <<inside, future>>

(* ... the predicate, which throws on a closed client ...                  *)
Reached ==
    CASE Op = "wait_populated" -> m_initialized /\ m_state # "CLOSED"
      [] Op = "wait_synced" -> m_state = "SYNCED"
      [] Op = "wait_closed" -> m_state = "CLOSED"
WaitCheck ==
    /\ Main /\ at = "check"
    /\ IF Reached THEN Return /\ m_mutex_commands' = FALSE
       ELSE IF m_state = "CLOSED" THEN Throw /\ m_mutex_commands' = FALSE
       ELSE Go("falling asleep") /\ UNCHANGED m_mutex_commands
    /\ UNCHANGED <<inside, future>>

(* ... and m_cv.wait_for(), which gives the lock back.  A notification     *)
(* before this step is for nobody.                                         *)
WaitSleep ==
    /\ Main /\ at = "falling asleep"
    /\ m_mutex_commands' = FALSE
    /\ Go("asleep")
    /\ UNCHANGED <<inside, future>>

(* fetch_sessions(), up to push_command().                                 *)
FetchSessions ==
    /\ Main /\ at = "call" /\ Op \in {"fetch", "fetch_stream"}
    /\ IF m_state \in {"OFFLINE", "CONNECTING", "CLOSED"} \/ ~CanMonitor THEN Throw ELSE Go("push")
    /\ UNCHANGED <<inside, future, m_mutex_commands>>

(* ping(), close() ...                                                     *)
Ping ==
    /\ Main /\ at = "call" /\ Op = "ping"
    /\ IF m_state = "CLOSED" THEN Throw ELSE Go("push")
    /\ UNCHANGED <<inside, future, m_mutex_commands>>

Close ==
    /\ Main /\ at = "call" /\ Op = "close"
    /\ Go("push")
    /\ UNCHANGED <<inside, future, m_mutex_commands>>

(* ... and the destructor of the jthread, that requests the stop and so    *)
(* pushes a close command.                                                 *)
Stopping == at \in {"stop", "stop lock", "stop insert"}
HasPromise == ~Stopping /\ Op # "close"

(* After push_command(): the future of a command that was not pushed is    *)
(* broken, the destructor waits for the end of run().                      *)
Pushed(result) ==
    /\ future' = IF HasPromise THEN result ELSE future
    /\ IF Stopping THEN Go("join") ELSE Return

(* push_command(): the state is read before the lock is taken.             *)
PushCheck ==
    /\ Main /\ at \in {"push", "stop"}
    /\ IF m_state = "CLOSED" THEN Pushed("exception")
       ELSE Go(IF Stopping THEN "stop lock" ELSE "push lock") /\ UNCHANGED future
    /\ UNCHANGED <<inside, m_mutex_commands>>

PushLock ==
    /\ Main /\ at \in {"push lock", "stop lock"} /\ ~m_mutex_commands
    /\ m_mutex_commands' = TRUE
    /\ Go(IF Stopping THEN "stop insert" ELSE "push insert")
    /\ UNCHANGED <<inside, future>>

Enqueue_wakesLate(kind) ==      \* mutant: the wake-up is for the second command
    /\ m_commands' = Append(m_commands, Command(kind))
    /\ async' = (async \/ Len(m_commands) = 1)
    /\ UNCHANGED <<session, replica, m_requests, loop>>
Enqueue(kind) ==
    /\ m_commands' = Append(m_commands, Command(kind))
    /\ async' = (async \/ m_commands = <<>>)
    /\ UNCHANGED <<session, replica, m_requests, loop>>

PushInsert ==
    /\ Main /\ at \in {"push insert", "stop insert"}
    /\ Enqueue(IF Stopping THEN "close" ELSE Op)
    /\ m_mutex_commands' = FALSE
    /\ Pushed("pending")
    /\ UNCHANGED <<program, handler, reader, servervars, told>>

(* future.get()                                                            *)
Get ==
    /\ Main /\ at = "call" /\ Op = "get" /\ future # "pending"
    /\ IF future = "value" THEN Return ELSE Throw
    /\ UNCHANGED <<inside, future, m_mutex_commands>>

(* print_database_content(): create_tx() throws on a closed client.        *)
Scan ==
    /\ Main /\ at = "call" /\ Op = "scan"
    /\ IF m_state = "CLOSED" THEN Throw ELSE Return
    /\ UNCHANGED <<inside, future, m_mutex_commands>>

Join ==
    /\ Main /\ at = "join" /\ loop.pc = "ended"
    /\ Go("ended")
    /\ UNCHANGED <<inside, future, m_mutex_commands>>

(* signal_handler(), on the main thread: close(), whose lock the thread    *)
(* may hold already.                                                       *)
Signal ==
    /\ "SIGTERM" \in Signals /\ Main /\ handler = "none"
    /\ handler' = IF m_state = "CLOSED" THEN "done" ELSE "running"
    /\ UNCHANGED <<clientvars, program, next, at, future, failed, m_mutex_commands, reader,
                   servervars, told>>

HandlerPush ==
    /\ handler = "running" /\ ~m_mutex_commands
    /\ Enqueue("close")
    /\ handler' = "done"
    /\ UNCHANGED <<program, next, at, future, failed, m_mutex_commands, reader, servervars, told>>

MainStep ==
    \/ WaitEnter \/ WaitLock \/ WaitCheck \/ WaitSleep
    \/ FetchSessions \/ Ping \/ Close
    \/ PushCheck \/ PushLock \/ PushInsert
    \/ Get \/ Scan \/ Join \/ HandlerPush

-----------------------------------------------------------------------------
(* The event loop.  mainrest is what it leaves to the main thread.         *)
mainrest == <<program, next, failed, m_mutex_commands, handler>>
At(pc) == loop.pc = pc
To(pc) == loop' = [loop EXCEPT !.pc = pc]

(* set_state(), after m_state was written and, for CLOSED, the lists       *)
(* cleared.                                                                *)
Notify ==
    /\ At("notify")
    /\ at' = IF at = "asleep" THEN "lock" ELSE at
    /\ To(IF m_state = "CLOSED" THEN "closed" ELSE "idle")
    /\ UNCHANGED <<session, replica, m_commands, async, m_requests, mainrest, future, reader,
                   servervars, told>>

(* abort(), up to m_state = CLOSED; ret is where its caller goes on.  What *)
(* was under way on the connection is lost.                                *)
wire == <<outbox, data_stream, sessions_stream>>
Abort(ret) ==
    /\ outbox' = <<>> /\ data_stream' = Null /\ sessions_stream' = Null
    /\ m_con' = FALSE /\ m_data_cid' = 0 /\ m_sessions_cid' = 0
    /\ m_state' = "CLOSED"
    /\ loop' = [pc |-> "clear", ret |-> ret]

(* Promises are destroyed with the lists they are in.                      *)
Broken(list) ==
    future' = IF future = "pending" /\ \E i \in DOMAIN list : list[i].kind # "close"
              THEN "exception" ELSE future

(* set_state(CLOSED): under the lock, or no waiter between its check and   *)
(* its sleep would hear of it ...                                          *)
ClearLists_unlocked ==      \* mutant: without m_mutex_commands
    /\ At("clear")
    /\ m_commands' = <<>> /\ m_requests' = <<>>
    /\ Broken(m_commands \o m_requests)
    /\ To("notify")
    /\ UNCHANGED <<session, replica, async, at, mainrest, reader, servervars, told>>
ClearLists ==
    /\ At("clear") /\ ~m_mutex_commands
    /\ m_commands' = <<>> /\ m_requests' = <<>>
    /\ Broken(m_commands \o m_requests)
    /\ To("notify")
    /\ UNCHANGED <<session, replica, async, at, mainrest, reader, servervars, told>>

(* ... and the rest of abort(), after the notification.                    *)
AbortEnds ==
    /\ At("closed") /\ ~m_mutex_commands
    /\ m_commands' = <<>>
    /\ Broken(m_commands)
    /\ To(loop.ret)
    /\ UNCHANGED <<session, replica, async, m_requests, at, mainrest, reader, servervars, told>>

(* The end of run(): what is left in the lists is cancelled or destroyed,  *)
(* without the lock.                                                       *)
RunEnds ==
    /\ At("stopped")
    /\ m_commands' = <<>> /\ m_requests' = <<>>
    /\ Broken(m_commands \o m_requests)
    /\ To("ended")
    /\ UNCHANGED <<session, replica, async, at, mainrest, reader, servervars, told>>

-----------------------------------------------------------------------------
(* process_commands(): one turn.                                           *)
WakeUp ==
    /\ At("idle") /\ async
    /\ async' = FALSE
    /\ To("commands")
    /\ UNCHANGED <<session, replica, m_commands, m_requests, at, mainrest, future, reader,
                   servervars, told>>

(* process_sessions_cmd(), process_ping_cmd()                              *)
SendRequest(cmd) ==
    /\ m_requests' = Append(m_requests, [cmd EXCEPT !.cid = m_correlation])
    /\ outbox' = Append(outbox, Request(cmd.kind, m_correlation, 0))
    /\ m_correlation' = m_correlation + 1
    /\ UNCHANGED <<m_state, m_con, m_data_cid, m_sessions_cid, loop, future, data_stream,
                   sessions_stream, inbox>>

IsClose(cmd) == cmd.kind = "close"
PopCommand ==
    /\ At("commands") /\ m_commands # <<>> /\ ~m_mutex_commands
    /\ m_commands' = Tail(m_commands)
    /\ LET cmd == Head(m_commands) IN
        \/ /\ IsClose(cmd) /\ m_state # "CLOSED"
           /\ Abort("commands") /\ inbox' = <<>>
           /\ UNCHANGED <<m_requests, m_correlation, future>>
        \/ ~IsClose(cmd) /\ m_con /\ SendRequest(cmd)   \* there is m_con unless CLOSED
        \/ /\ m_state = "CLOSED"
           /\ Broken(<<cmd>>)
           /\ UNCHANGED <<m_requests, m_correlation, m_state, m_con, m_data_cid, m_sessions_cid,
                          loop, wire, inbox>>
    /\ UNCHANGED <<replica, async, at, mainrest, reader, log, sessions, events, told>>

CommandsDone ==
    /\ At("commands") /\ m_commands = <<>>
    /\ To(IF m_state = "CLOSED" THEN "stopped" ELSE "idle")
    /\ UNCHANGED <<session, replica, m_commands, async, m_requests, at, mainrest, future, reader,
                   servervars, told>>

(* cb_signal_sigint(), and on_connection_closed() with the default         *)
(* manager: an established session answers its requests, the client is     *)
(* aborted.  The OFFLINE in between is over before a waiter is told of it. *)
Interrupt ==
    /\ At("idle") /\ m_state # "CLOSED" /\ "SIGINT" \in Signals
    /\ Abort("stopped") /\ inbox' = <<>>
    /\ UNCHANGED <<replica, m_correlation, m_commands, async, m_requests, at, mainrest, future,
                   reader, log, sessions, events, told>>

ConnectionClosed ==
    /\ At("idle") /\ m_state # "CLOSED" /\ Faults
    /\ m_requests' = <<>>
    /\ Broken(m_requests)
    /\ Abort("stopped") /\ inbox' = <<>>
    /\ UNCHANGED <<replica, m_correlation, m_commands, async, at, mainrest, reader, log, sessions,
                   events, told>>

-----------------------------------------------------------------------------
(* The messages.  SetState(s) writes the state and goes on to notify.      *)
SetState(s) == m_state' = s /\ loop' = [pc |-> "notify", ret |-> "idle"]
Ask(type, rev) ==
    /\ m_data_cid' = m_correlation
    /\ m_correlation' = m_correlation + 1
    /\ outbox' = Append(outbox, Request(type, m_correlation, rev))
    /\ UNCHANGED <<data_stream, sessions_stream>>

(* m_con->disconnect() ends in on_connection_closed().                     *)
Disconnect ==
    /\ m_requests' = <<>>
    /\ Broken(m_requests)
    /\ Abort("stopped")
    /\ UNCHANGED <<replica, m_correlation, reader, told>>

(* process_login_resp(); nobody who waits tells AUTHENTICATED, which comes *)
(* in between, from LOADING_SNAPSHOT.                                      *)
LoginResp(msg) ==
    /\ m_con' = TRUE
    /\ SetState("LOADING_SNAPSHOT")
    /\ Ask("snapshot", 0)
    /\ UNCHANGED <<replica, m_sessions_cid, m_requests, future, reader, told>>

Stamped(data, rev) == [k \in DOMAIN data |-> [data |-> data[k], rev |-> rev]]

(* process_snapshot_resp() and on_initial_data().                          *)
SnapshotResp(msg) ==
    /\ m_store' = Stamped(msg.data, msg.rev) /\ m_rev' = msg.rev
    /\ reader' = on_initial_data(m_store', msg.rev)
    /\ m_initialized' = TRUE
    /\ SetState("SYNCING")
    /\ Ask("updates", msg.rev)
    /\ UNCHANGED <<m_con, m_sessions_cid, m_requests, future, told>>

UpdatesResp(msg) ==
    /\ IF m_rev = msg.crev THEN SetState("SYNCED") ELSE UNCHANGED <<m_state, loop>>
    /\ told' = msg.crev
    /\ UNCHANGED <<m_con, replica, m_correlation, m_data_cid, m_sessions_cid, m_requests, future,
                   wire, reader>>

(* store_t::update() and its list of changes.                              *)
Change(action, k, new, old) == [action |-> action, key |-> k, new_value |-> new, old_value |-> old]
ChangesOf(data, rev) ==
    LET new(k) == [data |-> data[k], rev |-> rev] IN
    {Change("CREATE", k, new(k), Null) :
        k \in {x \in DOMAIN data \ DOMAIN m_store : data[x] # Null}}
    \cup {Change("UPDATE", k, new(k), m_store[k]) :
        k \in {x \in DOMAIN data \cap DOMAIN m_store : data[x] # Null}}
    \cup {Change("DELETE", k, Null, m_store[k]) :
        k \in {x \in DOMAIN data \cap DOMAIN m_store : data[x] = Null}}
Apply(data, content) ==
    [k \in (DOMAIN content \cup DOMAIN data) \ {x \in DOMAIN data : data[x] = Null} |->
        IF k \in DOMAIN data THEN data[k] ELSE content[k]]

Syncs_any(msg) == m_state = "SYNCING"       \* mutant: the first update of the stream is enough
Syncs(msg) == m_state = "SYNCING" /\ msg.rev = msg.crev

(* process_updates_push(), process_update() and on_event_data().           *)
UpdatesPush(msg) ==
    /\ m_store' = Apply([k \in DOMAIN msg.data |->
            IF msg.data[k] = Null THEN Null ELSE [data |-> msg.data[k], rev |-> msg.rev]], m_store)
    /\ m_rev' = msg.rev
    /\ reader' = on_event_data(msg.rev, ChangesOf(msg.data, msg.rev))
    /\ IF Syncs(msg) THEN SetState("SYNCED") ELSE UNCHANGED <<m_state, loop>>
    /\ UNCHANGED <<m_con, m_initialized, m_correlation, m_data_cid, m_sessions_cid, m_requests,
                   future, wire, told>>

(* process_ping_resp() and process_sessions_resp(): a response that is not *)
(* the oldest request's is ignored.                                        *)
Answered(msg) == m_requests # <<>> /\ Head(m_requests).cid = msg.cid
Answer ==
    /\ m_requests' = Tail(m_requests)
    /\ future' = "value"
    /\ UNCHANGED <<m_state, m_con, replica, m_correlation, m_data_cid, wire, told>>

Ignore == UNCHANGED <<session, replica, m_requests, loop, future, reader, wire, told>>

PingResp(msg) ==
    IF ~Answered(msg) THEN Ignore
    ELSE Answer /\ UNCHANGED <<m_sessions_cid, loop, reader>>

(* The promise is set before the callback of the reactor is called.        *)
StreamCid_negated(req) == IF req.kind = "fetch_stream" THEN 0 ELSE req.cid     \* mutant
StreamCid(req) == IF req.kind = "fetch_stream" THEN req.cid ELSE 0
SessionsResp(msg) ==
    IF ~Answered(msg) THEN Ignore
    ELSE /\ Answer
         /\ m_sessions_cid' = StreamCid(Head(m_requests))
         /\ loop' = [pc |-> "sessions", ret |-> "idle"]
         /\ UNCHANGED reader

(* process_sessions_push() and on_event_session().                         *)
SessionsPush(msg) ==
    /\ reader' = on_event_session(msg.data)
    /\ UNCHANGED <<session, replica, m_requests, loop, future, wire, told>>

(* The messages that make their handler call m_con->disconnect().          *)
Unexpected(msg) ==
    CASE msg.type = "login" -> m_con
      [] msg.type = "snapshot" -> m_state # "LOADING_SNAPSHOT" \/ msg.cid # m_data_cid
      [] msg.type = "updates" -> m_state # "SYNCING" \/ msg.cid # m_data_cid
      [] msg.type = "updates_push" -> msg.cid # m_data_cid
      [] msg.type = "sessions_push" -> msg.cid = 0 \/ msg.cid # m_sessions_cid
      [] OTHER -> FALSE

(* on_msg_received()                                                       *)
Receive ==
    /\ At("idle") /\ m_state # "CLOSED" /\ inbox # <<>>
    /\ LET msg == Head(inbox) IN
        CASE Unexpected(msg) -> Disconnect
          [] msg.type = "login" /\ ~Unexpected(msg) -> LoginResp(msg)
          [] msg.type = "snapshot" /\ ~Unexpected(msg) -> SnapshotResp(msg)
          [] msg.type = "updates" /\ ~Unexpected(msg) -> UpdatesResp(msg)
          [] msg.type = "updates_push" /\ ~Unexpected(msg) -> UpdatesPush(msg)
          [] msg.type = "ping" -> PingResp(msg)
          [] msg.type = "sessions" -> SessionsResp(msg)
          [] msg.type = "sessions_push" /\ ~Unexpected(msg) -> SessionsPush(msg)
    /\ inbox' = IF Head(inbox).type = "sessions" /\ Answered(Head(inbox)) THEN inbox
                ELSE Tail(inbox)
    /\ UNCHANGED <<m_commands, async, at, mainrest, log, sessions, events>>

(* on_initial_sessions()                                                   *)
InitialSessions ==
    /\ At("sessions")
    /\ reader' = on_initial_sessions(Head(inbox).data)
    /\ inbox' = Tail(inbox)
    /\ To("idle")
    /\ UNCHANGED <<session, replica, m_commands, async, m_requests, at, mainrest, future, log,
                   sessions, data_stream, sessions_stream, outbox, events, told>>

LoopStep ==
    \/ Notify \/ ClearLists \/ AbortEnds \/ RunEnds
    \/ WakeUp \/ PopCommand \/ CommandsDone \/ InitialSessions

-----------------------------------------------------------------------------
(* The server (external), as long as there is somebody at the other end.   *)
Online == m_state # "CLOSED"
crev == Len(log)
Msg(type, cid, rev, data) ==
    [type |-> type, cid |-> cid, rev |-> rev, crev |-> crev, data |-> data]
Say(msg) == inbox' = Append(inbox, msg)
Active(s) == [user |-> s, code |-> "CONNECTED", until |-> 0]
served == <<clientvars, mainvars, reader, told>>

ServerAnswer ==
    /\ outbox # <<>>
    /\ outbox' = Tail(outbox)
    /\ LET req == Head(outbox) IN
        \/ /\ req.type \in {"login", "ping"} /\ Say(Msg(req.type, req.cid, 0, {}))
           /\ UNCHANGED <<data_stream, sessions_stream>>
        \/ /\ req.type = "snapshot"
           /\ \E rev \in 1 .. crev : Say(Msg("snapshot", req.cid, rev, log[rev]))
           /\ UNCHANGED <<data_stream, sessions_stream>>
        \/ /\ req.type = "updates" /\ Say(Msg("updates", req.cid, 0, {}))
           /\ data_stream' = [cid |-> req.cid, rev |-> req.rev]
           /\ UNCHANGED sessions_stream
        \/ /\ req.type \in {"fetch", "fetch_stream"}
           /\ Say(Msg("sessions", req.cid, 0, {Active(s) : s \in sessions}))
           /\ sessions_stream' = IF req.type = "fetch_stream" THEN req.cid ELSE Null
           /\ UNCHANGED data_stream
    /\ UNCHANGED <<served, log, sessions, events>>

(* The difference between two revisions, as an update.                     *)
Delta(old, new) ==
    [k \in {x \in DOMAIN old \cup DOMAIN new :
                x \notin DOMAIN old \/ x \notin DOMAIN new \/ old[x] # new[x]} |->
        IF k \in DOMAIN new THEN new[k] ELSE Null]

ServerPush ==
    /\ data_stream # Null /\ data_stream.rev < crev
    /\ LET rev == data_stream.rev + 1 IN
        /\ Say(Msg("updates_push", data_stream.cid, rev, Delta(log[rev - 1], log[rev])))
        /\ data_stream' = [data_stream EXCEPT !.rev = rev]
    /\ UNCHANGED <<served, log, sessions, sessions_stream, outbox, events>>

ServerCommit ==
    /\ Online /\ crev <= Len(Commits)
    /\ log' = Append(log, Apply(Commits[crev], log[crev]))
    /\ UNCHANGED <<served, sessions, data_stream, sessions_stream, outbox, inbox, events>>

SessionEvent ==
    /\ Online /\ events < MaxEvent
    /\ events' = events + 1
    /\ \E s \in Others :
        LET comes == s \notin sessions
            event == [user |-> s, code |-> IF comes THEN "CONNECTED" ELSE "CON_LOST",
                      until |-> IF comes THEN 0 ELSE 1]
        IN /\ sessions' = IF comes THEN sessions \cup {s} ELSE sessions \ {s}
           /\ inbox' = IF sessions_stream = Null THEN inbox
                       ELSE Append(inbox, Msg("sessions_push", sessions_stream, 0, event))
    /\ UNCHANGED <<served, log, data_stream, sessions_stream, outbox>>

Next ==
    \/ MainStep \/ Signal
    \/ LoopStep \/ Receive \/ Interrupt \/ ConnectionClosed
    \/ ServerAnswer \/ ServerPush \/ ServerCommit \/ SessionEvent

Spec == Init /\ [][Next]_vars

(* Both threads run, libuv serves every ready handle in each turn, and the *)
(* server answers and streams.  Signals, losses and commits need not come. *)
FairSpec ==
    /\ Spec
    /\ WF_vars(MainStep) /\ WF_vars(LoopStep) /\ SF_vars(WakeUp) /\ WF_vars(Receive)
    /\ WF_vars(ServerAnswer) /\ WF_vars(ServerPush)

-----------------------------------------------------------------------------
(* The printed lines are enough to rebuild the database: whoever applies   *)
(* them one after the other always has the content that the server         *)
(* committed as the client's revision, and no line contradicts the others. *)
PrintedRebuilds ==
    /\ ~reader.puzzled
    /\ PrintsData /\ m_initialized =>
        /\ reader.rev = m_rev
        /\ [k \in DOMAIN reader.data |-> reader.data[k].data] = log[m_rev]

(* The session events go on where the list of sessions stopped: when all   *)
(* that was sent has arrived, the sessions printed are those of the server *)
(* and the next event will be recognised.                                  *)
SessionsMirrored ==
    PrintsSessions /\ sessions_stream # Null /\ inbox = <<>> =>
        reader.sessions = sessions /\ m_sessions_cid = sessions_stream

(* --once: a program that ends well has printed everything first, with all *)
(* the commits that the server had when it answered, although close() is   *)
(* called as soon as the promise is set, before the sessions are printed.  *)
OncePrintsAll ==
    at = "ended" /\ ~failed /\ program \in {"once", "data_once"} =>
        /\ reader.rev >= told /\ told > 0
        /\ PrintsSessions => reader.listed

(* push_command() may put a request into the queue of a client whose run() *)
(* has returned; nobody will take it out.                                  *)
Stranded == loop.pc = "ended" /\ m_commands # <<>>

(* The handler of SIGTERM waits for a lock that its own thread holds.      *)
SelfDeadlock == handler = "running" /\ m_mutex_commands

(* A future does not stay pending: it gets the answer, or an exception     *)
(* when the client closes, wherever its request is at that moment.         *)
RequestEnds == future = "pending" ~> future # "pending" \/ Stranded \/ SelfDeadlock

(* Closing is heard of: whatever call the main thread blocks in, the       *)
(* program ends when the client has closed.                                *)
ClosedEnds == m_state = "CLOSED" ~> at = "ended" \/ Stranded \/ SelfDeadlock

(* client.hpp:407: wait_for_synced() returns when the state is reached.    *)
SyncedWakes ==
    Op = "wait_synced" /\ m_state = "SYNCED" ~> Op # "wait_synced" \/ m_state # "SYNCED"
=============================================================================
