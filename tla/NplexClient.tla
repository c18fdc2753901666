----------------------------- MODULE NplexClient -----------------------------
(***************************************************************************)
(* The life of a client: connecting to one of several servers, logging in, *)
(* loading a snapshot, following the updates, losing the connection and    *)
(* starting again, closing (src/src/client_impl.cpp), over connections     *)
(* that libuv drives (src/src/connection.cpp).                             *)
(*                                                                         *)
(* Everything here runs in the event loop: an action is one callback, from *)
(* the libuv function that calls it to the last call it makes.  What makes *)
(* it hard is that uv_close() is asynchronous: a connection that is        *)
(* disconnected stays open until its callback runs, at the end of a turn   *)
(* of the loop, the last one to be closed being the first one called back. *)
(*                                                                         *)
(* The store is its revision; the requests that cancel_requests() answers  *)
(* are the subject of NplexTransactions and TxLifecycle.  The cluster      *)
(* (external) is one log of commits that every server streams.             *)
(***************************************************************************)
EXTENDS Integers, Sequences, Functions

CONSTANTS
    m_connections,  \* the servers' connections, in the order of the parameters
    m_rev0,         \* initial revision to load, 0 for no snapshot
    OldestRev,      \* the oldest revision that the servers hold
    InitialRev,     \* the revision of the cluster when the client starts
    MaxRev,         \* bound: revisions of the cluster
    MaxFault,       \* bound: failures of the network and refusals of a server
    KeepAlive,      \* do the servers announce keepalives?
    CallbackThrows, \* may callbacks of the manager and the reactor throw?
    Null            \* the null pointer

Connection == {m_connections[i] : i \in DOMAIN m_connections}

ASSUME ClientAssumption ==
    /\ m_connections \in Seq(Connection) /\ Connection # {}
    /\ \A i, j \in DOMAIN m_connections : m_connections[i] = m_connections[j] => i = j
    /\ m_rev0 \in Nat /\ OldestRev \in Nat /\ MaxFault \in Nat
    /\ InitialRev \in Nat /\ MaxRev \in Nat /\ OldestRev <= InitialRev /\ InitialRev <= MaxRev
    /\ KeepAlive \in BOOLEAN /\ CallbackThrows \in BOOLEAN
    /\ Null \notin Connection \cup [rev : Nat, cid : Nat]

VARIABLES
    \* --- connection_impl
    con,            \* m_state of each connection
    closing,        \* uv_close() called in this turn of the loop, newest first
    running,        \* closing callbacks to be run at the end of the turn
    reading,        \* connection whose input buffer is being emptied
    \* --- client_impl
    m_state, m_con, m_initialized,
    m_rev,          \* m_store->m_rev
    m_correlation, m_data_cid,
    m_timer_con_lost, m_timer_reconnect,    \* is the timer active?
    loop,           \* uv_run(): "running", "stopped" by uv_stop(), or run() has "ended"
    died,           \* the exception: "none", "connect" or "update"
    \* --- the network and the cluster (external)
    outbox, inbox,  \* messages in flight, by connection
    stream,         \* last revision streamed on a connection and its cid, Null if none
    crev,           \* current revision of the cluster
    faults,         \* number of failures so far
    told            \* history: the crev of the last accepted UpdatesResponse

conns == <<con, closing, running, reading>>
client == <<m_state, m_con, m_initialized, m_rev, m_correlation, m_data_cid,
            m_timer_con_lost, m_timer_reconnect, loop, died>>
network == <<outbox, inbox, stream>>
vars == <<conns, client, network, crev, faults, told>>

Msg(type, cid, ok, rev, current) ==
    [type |-> type, cid |-> cid, ok |-> ok, rev |-> rev, crev |-> current]
Request(type, cid, rev) == [type |-> type, cid |-> cid, rev |-> rev]

(* run(), up to its first try_to_connect().                                *)
Init ==
    /\ con = [c \in Connection |-> "CONNECTING"]
    /\ closing = <<>> /\ running = <<>> /\ reading = Null
    /\ m_state = "CONNECTING" /\ m_con = Null /\ m_initialized = FALSE /\ m_rev = 0
    /\ m_correlation = 0 /\ m_data_cid = 0
    /\ m_timer_con_lost = FALSE /\ m_timer_reconnect = FALSE
    /\ loop = "running" /\ died = "none"
    /\ outbox = [c \in Connection |-> <<>>] /\ inbox = [c \in Connection |-> <<>>]
    /\ stream = [c \in Connection |-> Null]
    /\ crev = InitialRev /\ faults = 0 /\ told = 0

-----------------------------------------------------------------------------
(* disconnect() on the connections cs, in their order: those that are      *)
(* closed or closing are left alone, the others head the list.             *)
IsClosing(c) == c \in Range(closing) \cup Range(running)
ToShut(cs) == {c \in cs : con[c] # "CLOSED" /\ ~IsClosing(c)}
Shut(cs) ==
    LET shut[i \in 0 .. Len(m_connections)] ==
            IF i = 0 THEN closing
            ELSE IF m_connections[i] \in ToShut(cs) THEN <<m_connections[i]>> \o shut[i - 1]
            ELSE shut[i - 1]
    IN shut[Len(m_connections)]

(* connection::send(): the request is on its way, or writing it fails (or  *)
(* too many messages wait to be written) and the connection is closed.     *)
(* shut is what the callback has closed so far.                            *)
Send(c, req, shut) ==
    \E fails \in BOOLEAN :
        /\ fails => faults < MaxFault
        /\ faults' = IF fails THEN faults + 1 ELSE faults
        /\ closing' = IF fails /\ ~IsClosing(c) THEN <<c>> \o shut ELSE shut
        /\ outbox' = IF fails \/ IsClosing(c) THEN outbox
                     ELSE [outbox EXCEPT ![c] = Append(@, req)]

(* abort()                                                                 *)
Abort ==
    /\ closing' = Shut(Connection)
    /\ m_state' = "CLOSED" /\ m_con' = Null /\ m_data_cid' = 0
    /\ m_timer_con_lost' = FALSE /\ m_timer_reconnect' = FALSE
    /\ loop' = "stopped"
    /\ UNCHANGED <<m_initialized, m_correlation, died>>

(* try_to_connect() up to the first connection that is not closed: its     *)
(* connect() throws.  before is the state of the connections.              *)
Connectable(before) ==
    {m_connections[i] : i \in {j \in DOMAIN m_connections :
        \A k \in 1 .. j : before[m_connections[k]] = "CLOSED"}}
TryToConnect(before) ==
    LET cs == Connectable(before)
        fresh(f, v) == [c \in Connection |-> IF c \in cs THEN v ELSE f[c]]
    IN /\ con' = fresh(before, "CONNECTING")
       /\ outbox' = fresh(outbox, <<>>) /\ inbox' = fresh(inbox, <<>>)
       /\ stream' = fresh(stream, Null)
       /\ m_timer_reconnect' = FALSE
       /\ m_state' = "CONNECTING"
       /\ died' = IF cs = Connection THEN died ELSE "connect"

(* The callbacks of the poll phase run while no closing callback does.     *)
Poll == running = <<>> /\ died = "none" /\ loop # "ended"

-----------------------------------------------------------------------------
(* cb_tcp_connect() and on_connection_established().                       *)
ConnectOK(c) ==
    /\ Poll /\ con[c] = "CONNECTING" /\ ~IsClosing(c)
    /\ con' = [con EXCEPT ![c] = "CONNECTED"]
    /\ IF m_con # Null
       THEN closing' = Shut({c}) /\ UNCHANGED <<m_correlation, outbox, faults>>
       ELSE /\ m_correlation' = m_correlation + 1
            /\ Send(c, Request("login", m_correlation + 1, 0), closing)
    /\ reading' = Null
    /\ UNCHANGED <<running, m_state, m_con, m_initialized, m_rev, m_data_cid, m_timer_con_lost,
                   m_timer_reconnect, loop, died, inbox, stream, crev, told>>

(* cb_tcp_connect() with an error.                                         *)
ConnectFail(c) ==
    /\ Poll /\ con[c] = "CONNECTING" /\ ~IsClosing(c)
    /\ faults < MaxFault /\ faults' = faults + 1
    /\ closing' = Shut({c})
    /\ reading' = Null
    /\ UNCHANGED <<con, running, client, network, crev, told>>

-----------------------------------------------------------------------------
(* The messages that the server sends.  Each handler leaves to Receive     *)
(* what it does not name.                                                  *)
Refuse(c) ==
    /\ closing' = Shut({c})
    /\ UNCHANGED <<client, outbox, faults, told>>

(* process_login_resp(): the revision to ask for.                          *)
SnapshotRev_raw(msg) == m_rev0      \* mutant: as the user gave it
SnapshotRev(msg) ==
    IF m_rev0 <= msg.rev THEN msg.rev ELSE IF m_rev0 <= msg.crev THEN m_rev0 ELSE 0

UpdatesFrom_none == 0               \* mutant: always the new ones
UpdatesFrom_included == IF m_initialized THEN m_rev - 1 ELSE 0  \* mutant: off by one
UpdatesFrom == IF m_initialized THEN m_rev ELSE 0

LoginRequest(msg) ==
    IF m_initialized \/ m_rev0 = 0
    THEN Request("updates", m_correlation, UpdatesFrom)
    ELSE Request("snapshot", m_correlation, SnapshotRev(msg))

(* If the manager's callback throws the client is aborted, and the rest of *)
(* the function runs all the same, with no connection to send on.          *)
OtherServers_connected(c) ==        \* mutant: the attempts in progress go on
    {d \in Connection \ {c} : con[d] = "CONNECTED"}
OtherServers(c) == Connection \ {c}
LoginAccepted(c, msg, throws) ==
    /\ m_con' = IF throws THEN Null ELSE c
    /\ m_timer_con_lost' = KeepAlive
    /\ m_state' = IF LoginRequest(msg).type = "updates" THEN "SYNCING" ELSE "LOADING_SNAPSHOT"
    /\ m_data_cid' = m_correlation
    /\ m_correlation' = m_correlation + 1
    /\ IF throws
       THEN /\ closing' = Shut(Connection) /\ loop' = "stopped" /\ m_timer_reconnect' = FALSE
            /\ UNCHANGED <<outbox, faults>>
       ELSE /\ Send(c, LoginRequest(msg), Shut(OtherServers(c)))
            /\ UNCHANGED <<loop, m_timer_reconnect>>
    /\ UNCHANGED <<m_initialized, m_rev, died, told>>

LoginResp(c, msg) ==
    IF m_con # Null \/ ~msg.ok THEN Refuse(c)
    ELSE \E throws \in {FALSE, CallbackThrows} : LoginAccepted(c, msg, throws)

(* process_snapshot_resp(): an exception of on_initial_data() aborts.      *)
SnapshotLoaded(c) ==
    /\ m_initialized' = TRUE
    /\ m_state' = "SYNCING"
    /\ m_data_cid' = m_correlation
    /\ m_correlation' = m_correlation + 1
    /\ Send(c, Request("updates", m_correlation, m_rev'), closing)
    /\ UNCHANGED <<m_con, m_timer_con_lost, m_timer_reconnect, loop, died>>

SnapshotResp(c, msg) ==
    IF m_state # "LOADING_SNAPSHOT" \/ msg.cid # m_data_cid \/ ~msg.ok THEN Refuse(c)
    ELSE /\ m_rev' = msg.rev
         /\ \/ SnapshotLoaded(c)
            \/ CallbackThrows /\ Abort /\ UNCHANGED <<outbox, faults>>
         /\ UNCHANGED told

(* Mutant: only a push makes the client synced.                            *)
UpdatesResp_waits(c, msg) ==
    IF m_state # "SYNCING" \/ msg.cid # m_data_cid \/ ~msg.ok THEN Refuse(c)
    ELSE /\ told' = msg.crev
         /\ UNCHANGED <<client, closing, outbox, faults>>

(* process_updates_resp()                                                  *)
UpdatesResp(c, msg) ==
    IF m_state # "SYNCING" \/ msg.cid # m_data_cid \/ ~msg.ok THEN Refuse(c)
    ELSE /\ m_rev' = IF m_rev0 = 0 THEN msg.crev ELSE m_rev
         /\ m_initialized' = (m_initialized \/ m_rev0 = 0)
         /\ m_state' = IF m_rev' = msg.crev THEN "SYNCED" ELSE m_state
         /\ told' = msg.crev
         /\ UNCHANGED <<m_con, m_correlation, m_data_cid, m_timer_con_lost, m_timer_reconnect,
                        loop, died, closing, outbox, faults>>

(* Mutant: any update makes the client synced.                             *)
UpdatesPush_anySyncs(c, msg) ==
    IF msg.cid # m_data_cid THEN Refuse(c)
    ELSE /\ m_rev' = IF msg.rev <= m_rev THEN m_rev ELSE msg.rev
         /\ died' = IF msg.rev <= m_rev THEN "update" ELSE died
         /\ m_state' = IF m_state = "SYNCING" THEN "SYNCED" ELSE m_state
         /\ UNCHANGED <<m_con, m_initialized, m_correlation, m_data_cid, m_timer_con_lost,
                        m_timer_reconnect, loop, closing, outbox, faults, told>>

(* process_updates_push(), for each of its updates: the store throws on a  *)
(* revision that it has already, and the exception ends the loop.          *)
UpdatesPush(c, msg) ==
    IF msg.cid # m_data_cid THEN Refuse(c)
    ELSE /\ m_rev' = IF msg.rev <= m_rev THEN m_rev ELSE msg.rev
         /\ died' = IF msg.rev <= m_rev THEN "update" ELSE died
         /\ m_state' = IF msg.rev > m_rev /\ m_state = "SYNCING" /\ msg.rev = msg.crev
                       THEN "SYNCED" ELSE m_state
         /\ UNCHANGED <<m_con, m_initialized, m_correlation, m_data_cid, m_timer_con_lost,
                        m_timer_reconnect, loop, closing, outbox, faults, told>>

(* cb_tcp_read() and on_msg_received().  uv_close() stops the reading, but *)
(* not the loop over the messages of a buffer that was read before.        *)
Receive(c) ==
    /\ Poll /\ con[c] = "CONNECTED" /\ inbox[c] # <<>>
    /\ LET msg == Head(inbox[c]) IN
        /\ IsClosing(c) => reading = c /\ msg.type # "eof"
        /\ CASE msg.type = "login" -> LoginResp(c, msg)
             [] msg.type = "eof" \/ (msg.type # "login" /\ c # m_con) -> Refuse(c)
             [] msg.type = "snapshot" /\ c = m_con -> SnapshotResp(c, msg)
             [] msg.type = "updates" /\ c = m_con -> UpdatesResp(c, msg)
             [] msg.type = "push" /\ c = m_con -> UpdatesPush(c, msg)
    /\ inbox' = [inbox EXCEPT ![c] = Tail(@)]
    /\ reading' = c
    /\ UNCHANGED <<con, running, stream, crev>>

-----------------------------------------------------------------------------
(* on_connection_lost(): nothing was heard of the server for too long.     *)
TimerConLost ==
    /\ Poll /\ m_timer_con_lost
    /\ faults < MaxFault /\ faults' = faults + 1
    /\ closing' = IF m_con # Null THEN Shut({m_con}) ELSE closing
    /\ m_timer_con_lost' = FALSE
    /\ reading' = Null
    /\ UNCHANGED <<con, running, m_state, m_con, m_initialized, m_rev, m_correlation, m_data_cid,
                   m_timer_reconnect, loop, died, network, crev, told>>

(* cb_timer_reconnect() and try_to_connect().                              *)
TimerReconnect ==
    /\ Poll /\ m_timer_reconnect
    /\ IF m_state = "OFFLINE" THEN TryToConnect(con)
       ELSE m_timer_reconnect' = FALSE /\ UNCHANGED <<con, network, m_state, died>>
    /\ reading' = Null
    /\ UNCHANGED <<closing, running, m_con, m_initialized, m_rev, m_correlation, m_data_cid,
                   m_timer_con_lost, loop, crev, faults, told>>

(* process_close_cmd(), and the signal SIGINT.                             *)
CloseCmd ==
    /\ Poll /\ m_state # "CLOSED"
    /\ Abort
    /\ reading' = Null
    /\ UNCHANGED <<con, running, m_rev, network, crev, faults, told>>

(* The end of a turn of uv_run(): the handles closed in it are taken.      *)
RunClosing ==
    /\ Poll /\ closing # <<>>
    /\ running' = closing
    /\ closing' = <<>>
    /\ reading' = Null
    /\ UNCHANGED <<con, client, network, crev, faults, told>>

(* cb_tcp_close() and on_connection_closed().  The manager decides whether *)
(* to go on.                                                               *)
NowClosed(c) == [con EXCEPT ![c] = "CLOSED"]
AllClosed(state) == \A c \in Connection : state[c] = "CLOSED"

ClosedUnused(c) ==
    /\ m_state = "CLOSED" \/ (c # m_con /\ (m_con # Null \/ ~AllClosed(NowClosed(c))))
    /\ con' = NowClosed(c)
    /\ UNCHANGED <<closing, client, network>>

(* schedule_reconnect(): the state remains CONNECTING.                     *)
ClosedLast(c) ==
    /\ m_state # "CLOSED" /\ m_con = Null /\ AllClosed(NowClosed(c))
    /\ con' = NowClosed(c)
    /\ \/ Abort
       \/ /\ m_timer_reconnect' = TRUE
          /\ UNCHANGED <<closing, m_state, m_con, m_initialized, m_correlation, m_data_cid,
                         m_timer_con_lost, loop, died>>
    /\ UNCHANGED <<m_rev, network>>

ClosedCurrent(c) ==
    /\ m_state # "CLOSED" /\ c = m_con
    /\ \/ con' = NowClosed(c) /\ Abort /\ UNCHANGED network
       \/ /\ m_con' = Null /\ m_data_cid' = 0 /\ m_timer_con_lost' = FALSE
          /\ TryToConnect(NowClosed(c))
          /\ UNCHANGED <<closing, m_initialized, m_correlation, loop>>
    /\ UNCHANGED m_rev

CloseCallback ==
    /\ running # <<>> /\ died = "none"
    /\ LET c == Head(running) IN ClosedUnused(c) \/ ClosedLast(c) \/ ClosedCurrent(c)
    /\ running' = Tail(running)
    /\ reading' = Null
    /\ UNCHANGED <<crev, faults, told>>

(* Mutant: run() relies on abort() for the state.                          *)
RunEnds_keepsState ==
    /\ loop # "ended"
    /\ died # "none" \/ (loop = "stopped" /\ running = <<>> /\ closing = <<>>)
    /\ loop' = "ended" /\ m_con' = Null
    /\ con' = [c \in Connection |-> IF c \in Range(running) THEN con[c] ELSE "CLOSED"]
    /\ closing' = <<>> /\ reading' = Null
    /\ m_timer_con_lost' = FALSE /\ m_timer_reconnect' = FALSE
    /\ UNCHANGED <<running, m_state, m_initialized, m_rev, m_correlation, m_data_cid, died,
                   network, crev, faults, told>>

(* The rest of run(), after uv_stop() and the turn that called it, or      *)
(* after an exception.  An exception in a closing callback leaves the next *)
(* ones without theirs.                                                    *)
RunEnds ==
    /\ loop # "ended"
    /\ died # "none" \/ (loop = "stopped" /\ running = <<>> /\ closing = <<>>)
    /\ loop' = "ended" /\ m_state' = "CLOSED" /\ m_con' = Null
    /\ con' = [c \in Connection |-> IF c \in Range(running) THEN con[c] ELSE "CLOSED"]
    /\ closing' = <<>> /\ reading' = Null
    /\ m_timer_con_lost' = FALSE /\ m_timer_reconnect' = FALSE
    /\ UNCHANGED <<running, m_initialized, m_rev, m_correlation, m_data_cid, died, network, crev,
                   faults, told>>

-----------------------------------------------------------------------------
(* The servers (external): what src/src/schema3.fbs says of the messages.  *)
Open(c) == con[c] = "CONNECTED" /\ ~IsClosing(c) /\ \A m \in Range(inbox[c]) : m.type # "eof"

ServerLogin(c, req) ==
    /\ inbox' = [inbox EXCEPT ![c] = Append(@, Msg("login", req.cid, TRUE, OldestRev, crev))]
    /\ UNCHANGED stream

(* Revision 0 asks for the last snapshot available.                        *)
ServerSnapshot(c, req) ==
    /\ \E rev \in IF req.rev = 0 THEN OldestRev .. crev ELSE {req.rev} :
        inbox' = [inbox EXCEPT ![c] = Append(@, Msg("snapshot", req.cid, TRUE, rev, crev))]
    /\ UNCHANGED stream

(* The updates after the revision, 0 for the new ones.                     *)
ServerUpdates(c, req) ==
    /\ inbox' = [inbox EXCEPT ![c] = Append(@, Msg("updates", req.cid, TRUE, 0, crev))]
    /\ stream' = [stream EXCEPT ![c] =
            [rev |-> IF req.rev = 0 THEN crev ELSE req.rev, cid |-> req.cid]]

ServerAnswer(c) ==
    /\ Open(c) /\ outbox[c] # <<>>
    /\ LET req == Head(outbox[c]) IN
        \/ req.type = "login" /\ ServerLogin(c, req) /\ UNCHANGED faults
        \/ req.type = "snapshot" /\ ServerSnapshot(c, req) /\ UNCHANGED faults
        \/ req.type = "updates" /\ ServerUpdates(c, req) /\ UNCHANGED faults
        \/ /\ faults < MaxFault /\ faults' = faults + 1
           /\ inbox' = [inbox EXCEPT ![c] = Append(@, Msg(req.type, req.cid, FALSE, 0, crev))]
           /\ UNCHANGED stream
    /\ outbox' = [outbox EXCEPT ![c] = Tail(@)]
    /\ reading' = Null
    /\ UNCHANGED <<con, closing, running, client, crev, told>>

ServerPush(c) ==
    /\ Open(c) /\ stream[c] # Null /\ stream[c].rev < crev
    /\ inbox' = [inbox EXCEPT ![c] =
            Append(@, Msg("push", stream[c].cid, TRUE, stream[c].rev + 1, crev))]
    /\ stream' = [stream EXCEPT ![c].rev = @ + 1]
    /\ reading' = Null
    /\ UNCHANGED <<con, closing, running, client, outbox, crev, faults, told>>

(* Somebody commits.                                                       *)
ServerCommit ==
    /\ crev < MaxRev
    /\ crev' = crev + 1
    /\ reading' = Null
    /\ UNCHANGED <<con, closing, running, client, network, faults, told>>

(* The server, or the network, closes; some of what was sent is lost.      *)
ServerClose(c) ==
    /\ Open(c) /\ faults < MaxFault
    /\ faults' = faults + 1
    /\ \E n \in 0 .. Len(inbox[c]) :
        inbox' = [inbox EXCEPT ![c] = SubSeq(@, 1, n) \o <<Msg("eof", 0, FALSE, 0, 0)>>]
    /\ outbox' = [outbox EXCEPT ![c] = <<>>]
    /\ stream' = [stream EXCEPT ![c] = Null]
    /\ reading' = Null
    /\ UNCHANGED <<con, closing, running, client, crev, told>>

Next ==
    \/ \E c \in Connection :
        \/ ConnectOK(c) \/ ConnectFail(c) \/ Receive(c)
        \/ ServerAnswer(c) \/ ServerPush(c) \/ ServerClose(c)
    \/ TimerConLost \/ TimerReconnect \/ CloseCmd
    \/ RunClosing \/ CloseCallback \/ RunEnds
    \/ ServerCommit

Spec == Init /\ [][Next]_vars

(* The event loop runs and serves every ready handle; a connection attempt *)
(* ends; the servers answer and stream.  Failures, commits and the wish to *)
(* close are nobody's duty.                                                *)
FairSpec ==
    /\ Spec
    /\ \A c \in Connection :
        /\ WF_vars(ConnectOK(c) \/ ConnectFail(c)) /\ WF_vars(Receive(c))
        /\ WF_vars(ServerAnswer(c)) /\ WF_vars(ServerPush(c))
    /\ WF_vars(RunClosing) /\ WF_vars(CloseCallback) /\ WF_vars(RunEnds) /\ WF_vars(TimerReconnect)

-----------------------------------------------------------------------------
(* Type invariant.                                                         *)
TypeOK ==
    /\ con \in [Connection -> {"CONNECTING", "CONNECTED", "CLOSED"}]
    /\ closing \in Seq(Connection) /\ running \in Seq(Connection)
    /\ reading \in Connection \cup {Null} /\ m_con \in Connection \cup {Null}
    /\ m_state \in {"CONNECTING", "LOADING_SNAPSHOT", "SYNCING", "SYNCED", "CLOSED"}
    /\ m_initialized \in BOOLEAN /\ m_rev \in 0 .. MaxRev
    /\ m_correlation \in Nat /\ m_data_cid \in 0 .. m_correlation
    /\ m_timer_con_lost \in BOOLEAN /\ m_timer_reconnect \in BOOLEAN
    /\ loop \in {"running", "stopped", "ended"} /\ died \in {"none", "connect", "update"}
    /\ crev \in InitialRev .. MaxRev /\ faults \in 0 .. MaxFault /\ told \in 0 .. MaxRev

(* One session at a time: whatever the order in which the servers accept   *)
(* the connections and answer the logins, when one of them is m_con the    *)
(* others are closed or will be before the next turn of the event loop.    *)
OneServer ==
    m_con # Null => \A c \in Connection \ {m_con} : con[c] = "CLOSED" \/ IsClosing(c)

(* Over losses, reconnections and changes of server, once it is populated  *)
(* the store goes through every revision of the cluster in turn: an update *)
(* is never missed ...                                                     *)
NoUpdateMissed == [][m_initialized => m_rev' = m_rev + 1]_m_rev

(* ... and none is received twice, which would end the event loop.         *)
NoUpdateTwice == died # "update"

(* SYNCED is true: the store has every commit that the server knew when it *)
(* answered the request for updates of this session.                       *)
SyncedCaughtUp == m_state = "SYNCED" => m_rev >= told

(* A session that is established gets somewhere: the data becomes synced,  *)
(* or the connection is lost, or the client closes.  No state waits for a  *)
(* message that no one will send.                                          *)
SessionSyncs == m_con # Null ~> m_state \in {"SYNCED", "CLOSED"} \/ m_con = Null

(* Stopping comes to an end, with every connection closed, whichever the   *)
(* callback that stopped the loop and even when a callback of the manager  *)
(* threw and the state is not CLOSED any more.                             *)
StopEnds ==
    loop = "stopped" ~> died = "connect" \/ (m_state = "CLOSED" /\ AllClosed(con))

(* client.hpp:157: after on_connection_failed() a reconnection is          *)
(* attempted when the time it returned has passed.                         *)
Reconnects == m_timer_reconnect ~> m_state = "CLOSED" \/ ~AllClosed(con)
=============================================================================
