------------------------ MODULE NplexWatcherProofs ------------------------
(***************************************************************************)
(* Proofs about the programs of NplexWatcher: what they print rebuilds the *)
(* database and the sessions, and --once prints everything.                *)
(*                                                                         *)
(* The invariant has four parts.  Stream: the commits in flight continue   *)
(* the copy of the client without a gap, so that the revision of the next  *)
(* one is always m_rev + 1.  Told: what the server said its revision was   *)
(* never runs ahead of the messages that follow.  Listing: where the one   *)
(* request for the sessions is, and that the events in flight lead from    *)
(* the printed sessions to those of the server.  Progress: what the main   *)
(* thread can count on once it is past a call.                             *)
(***************************************************************************)
EXTENDS NplexWatcher, SequenceTheorems, TLAPS

States == {"CONNECTING", "LOADING_SNAPSHOT", "SYNCING", "SYNCED", "CLOSED"}
Fetches == {"fetch", "fetch_stream"}
Kinds == Fetches \cup {"ping", "close"}
MsgTypes == {"login", "snapshot", "updates", "updates_push", "ping", "sessions", "sessions_push"}
Commands == [kind : Kinds, cid : Nat]
Requests == [type : {"login", "snapshot", "updates", "ping"} \cup Fetches, cid : Nat, rev : Nat]
Over == {"clear", "closed", "stopped", "ended"}
Pcs == {"idle", "notify", "commands", "sessions"} \cup Over
Rets == {"idle", "stopped", "commands"}
Waits == {"lock", "check", "falling asleep", "asleep"}
Pushes == {"push", "push lock", "push insert"}
Stops == {"stop", "stop lock", "stop insert", "join", "ended"}
Users == {Self} \cup Others
Events == [user : Users, code : {"CONNECTED", "CON_LOST"}, until : {0, 1}]
Values == [data : Data, rev : Nat]

(* A sequence, whatever is in it, and a function with values in T.         *)
IsSeq(s) == s \in Seq(Range(s))
IsFcn(f, T) == f \in [DOMAIN f -> T]

(* The types of the variables.                                             *)
ClientTypes ==
    /\ m_state \in States /\ m_con \in BOOLEAN /\ m_initialized \in BOOLEAN
    /\ m_rev \in Nat /\ IsFcn(m_store, Values)
    /\ m_correlation \in Nat /\ m_sessions_cid \in Nat
    /\ m_commands \in Seq(Commands) /\ m_requests \in Seq(Commands)
    /\ loop \in [pc : Pcs, ret : Rets]
MainTypes ==
    /\ program \in DOMAIN Script /\ next \in Nat \ {0}
    /\ at \in {"call"} \cup Waits \cup Pushes \cup Stops
    /\ future \in {"none", "pending", "value", "exception"} /\ failed \in BOOLEAN
ReaderTypes ==
    /\ reader = [data |-> reader.data, rev |-> reader.rev, sessions |-> reader.sessions,
                 listed |-> reader.listed, puzzled |-> reader.puzzled]
    /\ reader.listed \in BOOLEAN /\ reader.puzzled \in BOOLEAN
ServerTypes ==
    /\ IsSeq(log) /\ Len(log) > 0 /\ \A i \in 1 .. Len(log) : IsFcn(log[i], Data)
    /\ sessions \in SUBSET Users
    /\ data_stream \in {Null} \cup [cid : Nat, rev : Nat]
    /\ sessions_stream \in {Null} \cup Nat
    /\ outbox \in Seq(Requests) /\ IsSeq(inbox) /\ told \in Nat
MsgOK(m, contents) ==
    /\ m.type \in MsgTypes /\ m.cid \in Nat /\ m.crev \in 1 .. Len(contents)
    /\ m.type = "snapshot" => m.rev \in 1 .. Len(contents) /\ m.data = contents[m.rev]
    /\ m.type = "updates_push" =>
        m.rev \in 2 .. Len(contents) /\ m.data = Delta(contents[m.rev - 1], contents[m.rev])
    /\ m.type = "sessions_push" => m.data \in Events
    /\ m.type = "sessions" => m.data \in SUBSET Events
MsgsOK(q, contents) == \A i \in 1 .. Len(q) : MsgOK(q[i], contents)
MsgTypesOK == MsgsOK(inbox, log)
TypeOK == ClientTypes /\ MainTypes /\ ReaderTypes /\ ServerTypes /\ MsgTypesOK

(* What the state of the client says of the connection.                    *)
Standing ==
    /\ m_state = "CLOSED" =>
        ~m_con /\ outbox = <<>> /\ data_stream = Null /\ sessions_stream = Null
    /\ m_state = "CONNECTING" => ~m_con
    /\ m_state \notin {"CONNECTING", "CLOSED"} => m_con
    /\ m_state \in {"SYNCING", "SYNCED"} => m_initialized
    /\ loop.pc \in Over => m_state = "CLOSED"
    /\ loop.pc = "sessions" => inbox # <<>> /\ inbox[1].type = "sessions"

(* The copy of the client, and that of who reads the output.               *)
Holds(store, content) ==
    /\ DOMAIN store = DOMAIN content
    /\ \A k \in DOMAIN store : store[k].data = content[k]
Copy ==
    m_initialized =>
        /\ m_rev \in 1 .. Len(log) /\ Holds(m_store, log[m_rev])
        /\ PrintsData => reader.rev = m_rev /\ reader.data = m_store

(* The commits in flight.                                                  *)
IsPush(q, i) == q[i].type = "updates_push"
NoPush(q) == \A i \in 1 .. Len(q) : q[i].type \notin {"updates", "updates_push"}
NotAsked(q) == \A i \in 1 .. Len(q) : q[i].type # "updates"
Before ==
    m_state \in {"CONNECTING", "LOADING_SNAPSHOT"} =>
        ~m_initialized /\ data_stream = Null /\ told = 0 /\ NotAsked(outbox) /\ NoPush(inbox)
Asks(q, rev) ==
    \A i, j \in 1 .. Len(q) : q[i].type = "updates" /\ q[j].type = "updates" =>
        i = j /\ q[i].rev = rev
Asking ==
    \/ NotAsked(outbox)
    \/ /\ m_initialized /\ data_stream = Null /\ told = 0
       /\ NoPush(inbox) /\ Asks(outbox, m_rev)
Rising(q, rev) ==
    /\ \A i \in 1 .. Len(q) : IsPush(q, i) => q[i].rev > rev
    /\ \A i, j \in 1 .. Len(q) : i < j /\ IsPush(q, i) /\ IsPush(q, j) => q[i].rev < q[j].rev
Gapless(q, from, to) ==
    /\ \A i \in 1 .. Len(q) : IsPush(q, i) => q[i].rev <= to
    /\ \A r \in from + 1 .. to : \E i \in 1 .. Len(q) : IsPush(q, i) /\ q[i].rev = r
Streaming ==
    data_stream # Null =>
        /\ m_initialized /\ data_stream.rev \in m_rev .. Len(log)
        /\ Gapless(inbox, m_rev, data_stream.rev)
Calm(q) == \A i \in 1 .. Len(q) : ~IsPush(q, i)
Ordered ==
    /\ Rising(inbox, m_rev)
    /\ m_state # "CLOSED" /\ data_stream = Null => Calm(inbox)
Stream == Copy /\ Before /\ Asking /\ Streaming /\ Ordered

(* What the server said.                                                   *)
Mounting(q) == \A i, j \in 1 .. Len(q) : i < j => q[i].crev <= q[j].crev
Foretold(q) ==
    \E j \in 1 .. Len(q) : q[j].type = "updates" /\ \A i \in 1 .. j - 1 : ~IsPush(q, i)
Told ==
    /\ Mounting(inbox) /\ \A i \in 1 .. Len(inbox) : told <= inbox[i].crev
    /\ told <= Len(log)
    /\ m_state = "SYNCING" /\ data_stream # Null /\ told = 0 => Foretold(inbox)
    /\ m_state = "SYNCED" => told > 0 /\ told <= m_rev

(* The request for the sessions: in the queue, sent, answered, taken.      *)
NoCmd(q) == \A i \in 1 .. Len(q) : q[i].kind = "close"
OneCmd(q) ==
    \E i \in 1 .. Len(q) :
        q[i].kind \in Fetches /\ \A j \in 1 .. Len(q) : j # i => q[j].kind = "close"
Free(q, types) == \A i \in 1 .. Len(q) : q[i].type \notin types
Single(q, types, type, cid) ==
    \E i \in 1 .. Len(q) :
        /\ q[i].type = type /\ q[i].cid = cid
        /\ \A j \in 1 .. Len(q) : j # i => q[j].type \notin types
First(q, types, type) ==
    q # <<>> /\ q[1].type = type /\ \A i \in 2 .. Len(q) : q[i].type \notin types
Asked == Fetches \cup {"ping"}
Given == {"sessions", "ping"}
Linked == sessions_stream # Null => m_sessions_cid = sessions_stream
Quiet ==
    /\ m_requests = <<>> /\ Free(outbox, Asked) /\ Free(inbox, Given)
    /\ loop.pc # "sessions" /\ Linked
Idling == NoCmd(m_commands) /\ Quiet
Queued == OneCmd(m_commands) /\ Quiet
Sent ==
    /\ NoCmd(m_commands) /\ Len(m_requests) = 1 /\ m_requests[1].kind \in Fetches
    /\ Single(outbox, Asked, m_requests[1].kind, m_requests[1].cid) /\ Free(inbox, Given)
    /\ loop.pc # "sessions" /\ Linked
Replied ==
    /\ NoCmd(m_commands) /\ Len(m_requests) = 1 /\ m_requests[1].kind \in Fetches
    /\ Free(outbox, Asked) /\ Single(inbox, Given, "sessions", m_requests[1].cid)
    /\ loop.pc # "sessions"
    /\ sessions_stream # Null =>
        m_requests[1].kind = "fetch_stream" /\ sessions_stream = m_requests[1].cid
Taken ==
    /\ NoCmd(m_commands) /\ m_requests = <<>> /\ Free(outbox, Asked)
    /\ First(inbox, Given, "sessions") /\ loop.pc = "sessions" /\ Linked
Somewhere == Idling \/ Queued \/ Sent \/ Replied \/ Taken
Stage == PrintsSessions /\ m_state # "CLOSED" => Somewhere /\ (next <= 2 => Idling)

(* The sessions that are printed after each of the messages in flight.     *)
Effect(m, a, b) ==
    CASE m.type = "sessions" -> b = {s.user : s \in m.data}
      [] m.type = "sessions_push" ->
            /\ (m.data.code = "CONNECTED") = (m.data.user \notin a)
            /\ (m.data.code = "CONNECTED") = (m.data.until = 0)
            /\ b = IF m.data.code = "CONNECTED" THEN a \cup {m.data.user} ELSE a \ {m.data.user}
      [] OTHER -> b = a
Chain(st, q, from) ==
    /\ st \in [1 .. Len(q) + 1 -> SUBSET Users] /\ st[1] = from
    /\ \A i \in 1 .. Len(q) : Effect(q[i], st[i], st[i + 1])
Leads(q, from, to, bound) ==
    \E st \in [1 .. Len(q) + 1 -> SUBSET Users] :
        Chain(st, q, from) /\ (bound => st[Len(q) + 1] = to)
Mirror ==
    PrintsSessions /\ m_state # "CLOSED" =>
        Leads(inbox, reader.sessions, sessions, sessions_stream # Null)
Listing == Stage /\ Mirror

(* The main thread.                                                        *)
Calls ==
    /\ next <= Len(Script[program])
    /\ at \in Pushes => Op \in Kinds
    /\ at \in Waits => WaitOp
    /\ at \in Stops /\ ~failed => ~(next < Len(Script[program]))
    /\ at = "ended" => loop.pc = "ended"
Synced ==
    program \in {"once", "data_once"} /\ next > 1 =>
        m_initialized /\ m_state \in {"SYNCED", "CLOSED"} /\ told > 0 /\ told <= m_rev
Listed ==
    /\ program = "once" /\ next > 3 => future = "value"
    /\ PrintsSessions /\ future = "value" => reader.listed \/ loop.pc = "sessions"
Progress == Calls /\ Synced /\ Listed

Inv == TypeOK /\ Standing /\ Stream /\ Told /\ Listing /\ ~reader.puzzled /\ Progress

-----------------------------------------------------------------------------
(* Sequences in the form the proofs below need.                            *)
LEMMA AppendIs ==
    ASSUME NEW q, IsSeq(q), NEW x
    PROVE  /\ IsSeq(Append(q, x)) /\ Len(q) \in Nat /\ Len(Append(q, x)) = Len(q) + 1
           /\ Append(q, x)[Len(q) + 1] = x
           /\ \A i \in 1 .. Len(q) : Append(q, x)[i] = q[i]
           /\ \A i \in 1 .. Len(Append(q, x)) : i \in 1 .. Len(q) \/ i = Len(q) + 1
<1> DEFINE S == Range(q) \cup {x}
<1>1. q \in Seq(S)
  BY SeqMonotonic DEF IsSeq
<1>2. x \in S
  OBVIOUS
<1> HIDE DEF S
<1>3. /\ Append(q, x) \in Seq(S) /\ Len(Append(q, x)) = Len(q) + 1 /\ Len(q) \in Nat
      /\ Append(q, x)[Len(q) + 1] = x /\ \A i \in 1 .. Len(q) : Append(q, x)[i] = q[i]
  BY <1>1, <1>2, AppendProperties, LenProperties
<1>4. IsSeq(Append(q, x))
  BY <1>3, SeqOfRange DEF IsSeq
<1> QED BY <1>3, <1>4

LEMMA TailIs ==
    ASSUME NEW q, IsSeq(q), q # <<>>
    PROVE  /\ IsSeq(Tail(q)) /\ Len(q) \in Nat /\ Len(q) > 0 /\ Len(Tail(q)) = Len(q) - 1
           /\ Head(q) = q[1] /\ 1 \in 1 .. Len(q)
           /\ \A i \in 1 .. Len(Tail(q)) : i + 1 \in 1 .. Len(q) /\ Tail(q)[i] = q[i + 1]
<1> DEFINE S == Range(q)
<1>1. q \in Seq(S)
  BY DEF IsSeq
<1> HIDE DEF S
<1>2. Len(q) \in Nat /\ Len(q) > 0
  BY <1>1, EmptySeq
<1>3. /\ Tail(q) \in Seq(S) /\ Len(Tail(q)) = Len(q) - 1
      /\ \A i \in 1 .. Len(Tail(q)) : Tail(q)[i] = q[i + 1]
  BY <1>1, HeadTailProperties
<1>4. IsSeq(Tail(q))
  BY <1>3, SeqOfRange DEF IsSeq
<1>5. Head(q) = q[1]
  BY <1>1, <1>2
<1> QED BY <1>2, <1>3, <1>4, <1>5

LEMMA SeqIs ==
    ASSUME NEW S, NEW q \in Seq(S)
    PROVE  IsSeq(q) /\ Len(q) \in Nat /\ \A i \in 1 .. Len(q) : q[i] \in S
BY SeqOfRange, LenProperties, ElementOfSeq DEF IsSeq

LEMMA EmptyIs == IsSeq(<<>>) /\ Len(<<>>) = 0
BY EmptySeq DEF IsSeq

LEMMA EmptyLen ==
    ASSUME NEW q, IsSeq(q)
    PROVE  Len(q) \in Nat /\ (q # <<>> => Len(q) > 0)
BY EmptySeq, LenProperties DEF IsSeq

-----------------------------------------------------------------------------
(* The steps, by what they do to the copy and to the messages.             *)
copyvars == <<m_state, m_con, m_initialized, m_store, m_rev, m_correlation, m_sessions_cid, program,
              reader, log, sessions, data_stream, sessions_stream, outbox, inbox, told>>
Still == UNCHANGED copyvars

Ends ==
    /\ m_state' = "CLOSED" /\ m_con' = FALSE /\ m_sessions_cid' = 0
    /\ outbox' = <<>> /\ data_stream' = Null /\ sessions_stream' = Null
    /\ inbox' = <<>> \/ (inbox # <<>> /\ inbox' = Tail(inbox))
    /\ loop'.pc = "clear" /\ m_state # "CLOSED" /\ loop.pc \in {"idle", "commands"}
    /\ UNCHANGED future \/ (future = "pending" /\ future' = "exception")
    /\ UNCHANGED <<m_initialized, m_store, m_rev, m_correlation, program, reader, log, sessions,
                   told>>

Sends ==
    /\ loop.pc = "commands" /\ m_commands # <<>> /\ m_con
    /\ m_commands' = Tail(m_commands) /\ ~IsClose(Head(m_commands))
    /\ SendRequest(Head(m_commands))
    /\ UNCHANGED <<m_initialized, m_store, m_rev, program, next, at, failed, reader, log, sessions,
                   told>>

(* A message of the given type is received.                                *)
Got(type) ==
    /\ loop.pc = "idle" /\ m_state # "CLOSED" /\ inbox # <<>> /\ inbox[1].type = type
    /\ UNCHANGED <<m_commands, at, program, next, failed, log, sessions>>
GotLogin ==
    Got("login") /\ ~m_con /\ LoginResp(inbox[1]) /\ inbox' = Tail(inbox)
GotSnapshot ==
    /\ Got("snapshot") /\ m_state = "LOADING_SNAPSHOT" /\ SnapshotResp(inbox[1])
    /\ inbox' = Tail(inbox)
GotUpdates ==
    Got("updates") /\ m_state = "SYNCING" /\ UpdatesResp(inbox[1]) /\ inbox' = Tail(inbox)
GotPush ==
    Got("updates_push") /\ UpdatesPush(inbox[1]) /\ inbox' = Tail(inbox)
GotPing ==
    Got("ping") /\ PingResp(inbox[1]) /\ inbox' = Tail(inbox)
GotSessions ==
    /\ Got("sessions") /\ SessionsResp(inbox[1])
    /\ inbox' = IF Answered(inbox[1]) THEN inbox ELSE Tail(inbox)
GotEvent ==
    Got("sessions_push") /\ SessionsPush(inbox[1]) /\ inbox' = Tail(inbox)

LEMMA MainStill ==
    ASSUME MainStep \/ Signal
    PROVE  Still /\ UNCHANGED <<m_requests, loop>>
<1> USE DEF Still, copyvars
<1>1. CASE WaitEnter \/ WaitLock \/ WaitCheck \/ WaitSleep \/ FetchSessions \/ Ping \/ Close
           \/ PushCheck \/ PushLock \/ Get \/ Scan \/ Join
  BY <1>1, Zenon DEF WaitEnter, WaitLock, WaitCheck, WaitSleep, FetchSessions, Ping, Close, PushCheck,
     PushLock, Get, Scan, Join, inside, clientvars, servervars
<1>2. CASE PushInsert \/ HandlerPush
  BY <1>2, Zenon DEF PushInsert, HandlerPush, Enqueue, session, replica, servervars
<1>3. CASE Signal
  BY <1>3, Zenon DEF Signal, clientvars, servervars
<1> QED BY <1>1, <1>2, <1>3 DEF MainStep

LEMMA LoopStill ==
    ASSUME Notify \/ ClearLists \/ AbortEnds \/ RunEnds \/ WakeUp \/ CommandsDone
    PROVE  Still /\ UNCHANGED <<next, failed>>
BY Zenon DEF Still, copyvars, Notify, ClearLists, AbortEnds, RunEnds, WakeUp, CommandsDone, session,
   replica, servervars, mainrest

LEMMA ReceiveCases ==
    ASSUME TypeOK, Receive
    PROVE  Ends \/ GotLogin \/ GotSnapshot \/ GotUpdates \/ GotPush \/ GotPing \/ GotSessions
           \/ GotEvent
<1> DEFINE msg == inbox[1]
<1>1. /\ loop.pc = "idle" /\ m_state # "CLOSED" /\ inbox # <<>>
      /\ UNCHANGED <<m_commands, at, program, next, failed, log, sessions>>
  BY Zenon DEF Receive, At, mainrest
<1>2. IsSeq(inbox) /\ \A i \in 1 .. Len(inbox) : inbox[i].type \in MsgTypes
  BY DEF TypeOK, ServerTypes, MsgTypesOK, MsgsOK, MsgOK
<1>3. Head(inbox) = msg /\ msg.type \in MsgTypes
  BY <1>1, <1>2, TailIs
<1>4. CASE Unexpected(msg)
  <2>1. msg.type # "sessions"
    BY <1>4 DEF Unexpected
  <2>2. inbox' = Tail(inbox)
    BY <1>3, <2>1 DEF Receive
  <2>3. Disconnect
    BY <1>3, <1>4, Zenon DEF Receive, Unexpected
  <2>4. loop'.pc = "clear"
    BY <2>3 DEF Disconnect, Abort
  <2>5. UNCHANGED future \/ (future = "pending" /\ future' = "exception")
    BY <2>3 DEF Disconnect, Broken
  <2> QED BY <1>1, <2>2, <2>3, <2>4, <2>5, Zenon DEF Ends, Disconnect, Abort, replica
<1>5. ASSUME ~Unexpected(msg), msg.type # "sessions"
      PROVE  inbox' = Tail(inbox)
  BY <1>3, <1>5 DEF Receive
<1>6. CASE ~Unexpected(msg) /\ msg.type = "login"
  <2>1. LoginResp(msg)
    BY <1>3, <1>6 DEF Receive
  <2>2. ~m_con
    BY <1>6 DEF Unexpected
  <2> QED BY <1>1, <1>5, <1>6, <2>1, <2>2 DEF GotLogin, Got
<1>7. CASE ~Unexpected(msg) /\ msg.type = "snapshot"
  <2>1. SnapshotResp(msg)
    BY <1>3, <1>7 DEF Receive
  <2>2. m_state = "LOADING_SNAPSHOT"
    BY <1>7 DEF Unexpected
  <2> QED BY <1>1, <1>5, <1>7, <2>1, <2>2 DEF GotSnapshot, Got
<1>8. CASE ~Unexpected(msg) /\ msg.type = "updates"
  <2>1. UpdatesResp(msg)
    BY <1>3, <1>8 DEF Receive
  <2>2. m_state = "SYNCING"
    BY <1>8 DEF Unexpected
  <2> QED BY <1>1, <1>5, <1>8, <2>1, <2>2 DEF GotUpdates, Got
<1>9. CASE ~Unexpected(msg) /\ msg.type = "updates_push"
  <2>1. UpdatesPush(msg)
    BY <1>3, <1>9 DEF Receive
  <2> QED BY <1>1, <1>5, <1>9, <2>1 DEF GotPush, Got
<1>10. CASE ~Unexpected(msg) /\ msg.type = "ping"
  <2>1. PingResp(msg)
    BY <1>3, <1>10 DEF Receive
  <2> QED BY <1>1, <1>5, <1>10, <2>1 DEF GotPing, Got
<1>11. CASE ~Unexpected(msg) /\ msg.type = "sessions"
  <2>1. SessionsResp(msg)
    BY <1>3, <1>11 DEF Receive
  <2>2. inbox' = IF Answered(msg) THEN inbox ELSE Tail(inbox)
    BY <1>3, <1>11 DEF Receive
  <2> QED BY <1>1, <1>11, <2>1, <2>2 DEF GotSessions, Got
<1>12. CASE ~Unexpected(msg) /\ msg.type = "sessions_push"
  <2>1. SessionsPush(msg)
    BY <1>3, <1>12 DEF Receive
  <2> QED BY <1>1, <1>5, <1>12, <2>1 DEF GotEvent, Got
<1> QED BY <1>3, <1>4, <1>6, <1>7, <1>8, <1>9, <1>10, <1>11, <1>12 DEF MsgTypes

LEMMA PopCases ==
    ASSUME TypeOK, PopCommand
    PROVE  /\ (Still /\ UNCHANGED loop) \/ Ends \/ Sends
           /\ UNCHANGED <<next, failed, at>>
<1>1. /\ loop.pc = "commands" /\ m_commands # <<>> /\ m_commands' = Tail(m_commands)
      /\ UNCHANGED <<m_initialized, m_store, m_rev, at, program, next, failed, reader, log, sessions,
                     told>>
  BY Zenon DEF PopCommand, At, mainrest, replica
<1> DEFINE cmd == Head(m_commands)
<1>2. CASE /\ IsClose(cmd) /\ m_state # "CLOSED" /\ Abort("commands") /\ inbox' = <<>>
           /\ UNCHANGED <<m_requests, m_correlation, future>>
  <2>1. loop'.pc = "clear"
    BY <1>2 DEF Abort
  <2> QED BY <1>1, <1>2, <2>1, Zenon DEF Abort, Ends
<1>3. CASE ~IsClose(cmd) /\ m_con /\ SendRequest(cmd)
  BY <1>1, <1>3, Zenon DEF Sends
<1>4. CASE /\ m_state = "CLOSED"
           /\ UNCHANGED <<m_requests, m_correlation, m_state, m_con, m_data_cid, m_sessions_cid,
                          loop, wire, inbox>>
  BY <1>1, <1>4, Zenon DEF Still, copyvars, wire
<1> QED BY <1>1, <1>2, <1>3, <1>4, Zenon DEF PopCommand

LEMMA AbortCases ==
    ASSUME Interrupt \/ ConnectionClosed
    PROVE  Ends /\ UNCHANGED <<next, failed, at>>
<1>1. loop'.pc = "clear"
  BY DEF Interrupt, ConnectionClosed, Abort
<1>2. UNCHANGED future \/ (future = "pending" /\ future' = "exception")
  BY DEF Interrupt, ConnectionClosed, Broken
<1> QED BY <1>1, <1>2, Zenon DEF Interrupt, ConnectionClosed, Abort, Ends, At, mainrest, replica

(* The loop goes on.                                                       *)
Turns ==
    \/ UNCHANGED loop
    \/ /\ loop.pc # "sessions" /\ loop'.pc # "sessions"
       /\ loop'.pc \in Over => loop.pc \in Over \/ m_state = "CLOSED"
LEMMA LoopTurns ==
    ASSUME TypeOK, Notify \/ ClearLists \/ AbortEnds \/ RunEnds \/ WakeUp \/ CommandsDone
    PROVE  Turns
<1>1. loop = [pc |-> loop.pc, ret |-> loop.ret] /\ loop.ret \in Rets
  BY DEF TypeOK, ClientTypes
<1>2. \A pc : To(pc) => loop'.pc = pc
  BY <1>1 DEF To
<1> USE DEF At, Over, Turns
<1>3. CASE Notify
  <2>1. loop.pc = "notify" /\ loop'.pc = IF m_state = "CLOSED" THEN "closed" ELSE "idle"
    BY <1>2, <1>3 DEF Notify
  <2> QED BY <2>1
<1>4. CASE ClearLists \/ RunEnds
  <2>1. loop.pc \in {"clear", "stopped"} /\ loop'.pc \in {"notify", "ended"}
    BY <1>2, <1>4 DEF ClearLists, RunEnds
  <2> QED BY <2>1
<1>5. CASE AbortEnds
  <2>1. loop.pc = "closed" /\ loop'.pc \in Rets
    BY <1>1, <1>2, <1>5 DEF AbortEnds
  <2> QED BY <2>1 DEF Rets
<1>6. CASE WakeUp
  <2>1. loop.pc = "idle" /\ loop'.pc = "commands"
    BY <1>2, <1>6 DEF WakeUp
  <2> QED BY <2>1
<1>7. CASE CommandsDone
  <2>1. loop.pc = "commands" /\ loop'.pc = IF m_state = "CLOSED" THEN "stopped" ELSE "idle"
    BY <1>2, <1>7 DEF CommandsDone
  <2> QED BY <2>1
<1> QED BY <1>3, <1>4, <1>5, <1>6, <1>7

(* Every step, by its kind.                                                *)
Serves == ServerAnswer \/ ServerPush \/ ServerCommit \/ SessionEvent
LEMMA StepCases ==
    ASSUME TypeOK, [Next]_vars
    PROVE  \/ (Still /\ Turns) \/ Ends \/ Sends \/ GotLogin \/ GotSnapshot \/ GotUpdates \/ GotPush \/ GotPing
           \/ GotSessions \/ GotEvent \/ InitialSessions \/ Serves
<1>1. CASE UNCHANGED vars
  BY <1>1, Zenon DEF vars, clientvars, mainvars, servervars, Still, copyvars, Turns
<1>2. CASE MainStep \/ Signal
  BY <1>2, MainStill DEF Turns
<1>3. CASE LoopStep
  BY <1>3, LoopStill, LoopTurns, PopCases DEF LoopStep, Turns
<1>4. CASE Receive
  BY <1>4, ReceiveCases
<1>5. CASE Interrupt \/ ConnectionClosed
  BY <1>5, AbortCases
<1> QED BY <1>1, <1>2, <1>3, <1>4, <1>5 DEF Next, Serves

-----------------------------------------------------------------------------
(* What is printed and what is read.                                       *)
LEMMA JsonDecodes ==
    ASSUME NEW v \in Values
    PROVE  Decode(json_append_value(v)) = v /\ json_append_value(v) # Null
<1>1. v = [data |-> v.data, rev |-> v.rev] /\ v.data \in Data /\ v.rev \in Nat
  BY DEF Values
<1>2. Base64(v.data)[2] = v.data
  BY DEF Base64
<1>3. CASE v.data \in Utf8
  <2>1. json_append_value(v) = [data |-> v.data, encoding |-> "text", rev |-> v.rev]
    BY <1>3 DEF json_append_value
  <2>2. Decode(json_append_value(v)) = v
    BY <1>1, <2>1 DEF Decode
  <2>3. json_append_value(v) # Null
    BY <1>1, <2>1, NullAssumption
  <2> QED BY <2>2, <2>3
<1>4. CASE v.data \notin Utf8
  <2>1. json_append_value(v) = [data |-> Base64(v.data), encoding |-> "base64", rev |-> v.rev]
    BY <1>4 DEF json_append_value
  <2>2. Decode(json_append_value(v)) = v
    BY <1>1, <1>2, <2>1 DEF Decode
  <2>3. Base64(v.data) \in Data \cup {Base64(d) : d \in Data}
    BY <1>1
  <2>4. json_append_value(v) # Null
    BY <1>1, <2>1, <2>3, NullAssumption
  <2> QED BY <2>2, <2>4
<1> QED BY <1>3, <1>4

(* The reader after a first state has been printed.                        *)
LEMMA InitialPrinted ==
    ASSUME ReaderTypes, NEW content, IsFcn(content, Values), NEW rev
    PROVE  LET new == ReadData({data_to_json(k, content[k]).data : k \in DOMAIN content}, rev)
           IN  new = [data |-> content, rev |-> rev, sessions |-> reader.sessions,
                      listed |-> reader.listed, puzzled |-> reader.puzzled]
<1> DEFINE K == {data_to_json(k, content[k]).data : k \in DOMAIN content}
           f == [k \in {l.key : l \in K} |-> Decode((CHOOSE l \in K : l.key = k).value)]
<1>1. \A k : data_to_json(k, content[k]).data
                = [key |-> k, value |-> json_append_value(content[k])]
  BY DEF data_to_json, json_append_keyval
<1>2. ASSUME NEW l \in K
      PROVE  l.key \in DOMAIN content /\ l.value = json_append_value(content[l.key])
  <2>1. PICK k \in DOMAIN content : l = data_to_json(k, content[k]).data
    OBVIOUS
  <2>2. l = [key |-> k, value |-> json_append_value(content[k])]
    BY <1>1, <2>1
  <2> QED BY <2>2
<1>3. ASSUME NEW k \in DOMAIN content
      PROVE  \E l \in K : l.key = k
  <2>1. data_to_json(k, content[k]).data \in K
    OBVIOUS
  <2>2. data_to_json(k, content[k]).data.key = k
    BY DEF data_to_json, json_append_keyval
  <2> QED BY <2>1, <2>2
<1> HIDE DEF K
<1>4. {l.key : l \in K} = DOMAIN content
  BY <1>2, <1>3
<1>5. ASSUME NEW k \in DOMAIN content
      PROVE  Decode((CHOOSE l \in K : l.key = k).value) = content[k]
  <2>1. PICK l \in K : l = CHOOSE x \in K : x.key = k
    BY <1>3
  <2>2. l.key = k
    BY <1>3, <2>1
  <2>3. content[k] \in Values
    BY DEF IsFcn
  <2> QED BY <1>2, <2>1, <2>2, <2>3, JsonDecodes
<1>6. f = content
  BY <1>4, <1>5 DEF IsFcn
<1> HIDE DEF f
<1>7. ReadData(K, rev) = [reader EXCEPT !.rev = rev, !.data = f]
  BY DEF ReadData, f
<1> QED BY <1>6, <1>7 DEF ReaderTypes, K

(* The values of an update, as the store keeps them.                       *)
Stamps(data, rev) ==
    [k \in DOMAIN data |-> IF data[k] = Null THEN Null ELSE [data |-> data[k], rev |-> rev]]
LEMMA StampsIs ==
    ASSUME NEW data, IsFcn(data, Data \cup {Null}), NEW rev \in Nat, NEW k \in DOMAIN data
    PROVE  /\ k \in DOMAIN Stamps(data, rev)
           /\ data[k] = Null => Stamps(data, rev)[k] = Null
           /\ data[k] # Null => /\ Stamps(data, rev)[k] = [data |-> data[k], rev |-> rev]
                                /\ Stamps(data, rev)[k] \in Values
                                /\ Stamps(data, rev)[k] # Null
<1>1. data[k] # Null => [data |-> data[k], rev |-> rev] \in Values
  BY DEF IsFcn, Values
<1> QED BY <1>1, NullAssumption DEF Stamps, Values

(* A line that says how one key changes.                                   *)
LineOf(c, data, rev) ==
    /\ c.key \in DOMAIN data
    /\ (c.action = "CREATE") <=> (c.key \notin DOMAIN m_store)
    /\ c.key \in DOMAIN m_store => c.old_value = json_append_value(m_store[c.key])
    /\ data[c.key] # Null =>
        c.new_value = json_append_value([data |-> data[c.key], rev |-> rev])
    /\ data[c.key] = Null => c.new_value = Null /\ c.key \in DOMAIN m_store

LEMMA LinesOfChanges ==
    ASSUME NEW data, NEW rev, NEW c \in ChangesOf(data, rev)
    PROVE  LineOf(json_append_change(c), data, rev) /\ json_append_change(c).key = c.key
<1> DEFINE new(k) == [data |-> data[k], rev |-> rev]
<1>1. ASSUME NEW k \in DOMAIN data, k \notin DOMAIN m_store, data[k] # Null,
             c = Change("CREATE", k, new(k), Null)
      PROVE  LineOf(json_append_change(c), data, rev) /\ json_append_change(c).key = c.key
  <2>1. json_append_change(c) = [action |-> "CREATE", key |-> k,
            new_value |-> json_append_value(new(k)), old_value |-> Null]
    BY <1>1 DEF json_append_change, Change
  <2> QED BY <1>1, <2>1 DEF LineOf, Change
<1>2. ASSUME NEW k \in DOMAIN data, k \in DOMAIN m_store, data[k] # Null,
             c = Change("UPDATE", k, new(k), m_store[k])
      PROVE  LineOf(json_append_change(c), data, rev) /\ json_append_change(c).key = c.key
  <2>1. json_append_change(c) = [action |-> "UPDATE", key |-> k,
            new_value |-> json_append_value(new(k)), old_value |-> json_append_value(m_store[k])]
    BY <1>2 DEF json_append_change, Change
  <2> QED BY <1>2, <2>1 DEF LineOf, Change
<1>3. ASSUME NEW k \in DOMAIN data, k \in DOMAIN m_store, data[k] = Null,
             c = Change("DELETE", k, Null, m_store[k])
      PROVE  LineOf(json_append_change(c), data, rev) /\ json_append_change(c).key = c.key
  <2>1. json_append_change(c) = [action |-> "DELETE", key |-> k,
            new_value |-> Null, old_value |-> json_append_value(m_store[k])]
    BY <1>3 DEF json_append_change, Change
  <2> QED BY <1>3, <2>1 DEF LineOf, Change
<1> QED BY <1>1, <1>2, <1>3 DEF ChangesOf

LEMMA ChangesOfAll ==
    ASSUME NEW data, NEW rev, NEW k \in DOMAIN data, data[k] # Null \/ k \in DOMAIN m_store
    PROVE  \E c \in ChangesOf(data, rev) : c.key = k
<1> DEFINE new == [data |-> data[k], rev |-> rev]
<1>1. CASE k \notin DOMAIN m_store
  <2>1. Change("CREATE", k, new, Null) \in ChangesOf(data, rev)
    BY <1>1 DEF ChangesOf
  <2> QED BY <2>1 DEF Change
<1>2. CASE k \in DOMAIN m_store /\ data[k] # Null
  <2>1. Change("UPDATE", k, new, m_store[k]) \in ChangesOf(data, rev)
    BY <1>2 DEF ChangesOf
  <2> QED BY <2>1 DEF Change
<1>3. CASE k \in DOMAIN m_store /\ data[k] = Null
  <2>1. Change("DELETE", k, Null, m_store[k]) \in ChangesOf(data, rev)
    BY <1>3 DEF ChangesOf
  <2> QED BY <2>1 DEF Change
<1> QED BY <1>1, <1>2, <1>3

(* The reader after an update has been printed.                            *)
LEMMA ChangesPrinted ==
    ASSUME ReaderTypes, IsFcn(m_store, Values), reader.data = m_store,
           NEW data, IsFcn(data, Data \cup {Null}), NEW rev \in Nat
    PROVE  ReadEventData(event_data_to_json(rev, ChangesOf(data, rev)).event_data)
               = [data |-> Apply(Stamps(data, rev), m_store), rev |-> rev,
                  sessions |-> reader.sessions, listed |-> reader.listed,
                  puzzled |-> reader.puzzled]
<1> DEFINE J == {json_append_change(c) : c \in ChangesOf(data, rev)}
           event == event_data_to_json(rev, ChangesOf(data, rev)).event_data
           new == {c \in J : c.new_value # Null}
           kept == Forget(reader.data, {c.key : c \in J})
           f == [k \in DOMAIN kept \cup {c.key : c \in new} |->
                    IF k \in DOMAIN kept THEN kept[k]
                    ELSE Decode((CHOOSE c \in new : c.key = k).new_value)]
           g == Apply(Stamps(data, rev), m_store)
           fits(c) ==
            /\ (c.action = "CREATE") = (c.key \notin DOMAIN reader.data)
            /\ c.action # "CREATE" =>
                /\ c.old_value # Null
                /\ Decode(c.old_value) = reader.data[c.key]
<1>1. event.rev = rev /\ event.changes = J
  BY DEF event_data_to_json, json_append_event_data
<1>2. \A c \in J : LineOf(c, data, rev)
  BY LinesOfChanges
<1>3. ASSUME NEW k \in DOMAIN data, data[k] # Null \/ k \in DOMAIN m_store
      PROVE  \E c \in J : c.key = k
  <2>1. PICK c \in ChangesOf(data, rev) : c.key = k
    BY <1>3, ChangesOfAll
  <2> QED BY <2>1, LinesOfChanges
<1> HIDE DEF J
<1>4. ASSUME NEW k \in DOMAIN data, data[k] # Null
      PROVE  LET v == [data |-> data[k], rev |-> rev]
             IN v \in Values /\ Decode(json_append_value(v)) = v /\ json_append_value(v) # Null
                /\ Stamps(data, rev)[k] = v
  BY <1>4, StampsIs, JsonDecodes
<1>5. ASSUME NEW c \in J
      PROVE  fits(c)
  <2>1. CASE c.key \notin DOMAIN m_store
    <3>1. c.action = "CREATE"
      BY <1>2, <2>1 DEF LineOf
    <3> QED BY <2>1, <3>1
  <2>2. CASE c.key \in DOMAIN m_store
    <3>1. c.action # "CREATE" /\ c.old_value = json_append_value(m_store[c.key])
      BY <1>2, <2>2 DEF LineOf
    <3>2. m_store[c.key] \in Values
      BY <2>2 DEF IsFcn
    <3>3. c.old_value # Null /\ Decode(c.old_value) = m_store[c.key]
      BY <3>1, <3>2, JsonDecodes
    <3> QED BY <2>2, <3>1, <3>3
  <2> QED BY <2>1, <2>2
<1>6. \A c \in J : c.new_value # Null <=> data[c.key] # Null
  BY <1>2, <1>4 DEF LineOf
<1>7. DOMAIN kept = DOMAIN m_store \ DOMAIN data
  <2>1. DOMAIN kept = DOMAIN m_store \ {c.key : c \in J}
    BY DEF Forget
  <2>2. \A c \in J : c.key \in DOMAIN data
    BY <1>2 DEF LineOf
  <2>3. ASSUME NEW k \in DOMAIN data, k \in DOMAIN m_store
        PROVE  k \in {c.key : c \in J}
    <3>1. \E c \in J : c.key = k
      BY <1>3, <2>3
    <3> QED BY <3>1
  <2> HIDE DEF kept
  <2> QED BY <2>1, <2>2, <2>3
<1>8. {c.key : c \in new} = {k \in DOMAIN data : data[k] # Null}
  <2>1. ASSUME NEW c \in new
        PROVE  c.key \in DOMAIN data /\ data[c.key] # Null
    BY <1>2, <1>6 DEF LineOf
  <2>2. ASSUME NEW k \in DOMAIN data, data[k] # Null
        PROVE  \E c \in new : c.key = k
    <3>1. PICK c \in J : c.key = k
      BY <1>3, <2>2
    <3> QED BY <1>6, <2>2, <3>1
  <2> HIDE DEF new
  <2> QED BY <2>1, <2>2
<1>9. DOMAIN g = (DOMAIN m_store \ DOMAIN data) \cup {k \in DOMAIN data : data[k] # Null}
  <2>1. DOMAIN Stamps(data, rev) = DOMAIN data
    BY DEF Stamps
  <2>2. \A k \in DOMAIN data : Stamps(data, rev)[k] = Null <=> data[k] = Null
    BY StampsIs
  <2> HIDE DEF f
  <2>3. DOMAIN g = (DOMAIN m_store \cup DOMAIN data) \ {x \in DOMAIN data : Stamps(data, rev)[x] = Null}
    BY <2>1 DEF Apply
  <2> QED BY <2>2, <2>3
<1>10. ASSUME NEW k \in DOMAIN kept
       PROVE  f[k] = g[k]
  <2>1. f[k] = m_store[k]
    BY <1>10 DEF Forget
  <2>2. k \in DOMAIN g /\ k \notin DOMAIN Stamps(data, rev)
    BY <1>7, <1>9 DEF Stamps
  <2>3. g[k] = m_store[k]
    BY <2>2 DEF Apply
  <2> QED BY <2>1, <2>3
<1>11. ASSUME NEW k \in DOMAIN data, data[k] # Null
       PROVE  f[k] = g[k]
  <2>1. PICK c \in new : c = CHOOSE x \in new : x.key = k
    BY <1>8, <1>11
  <2>2. c.key = k
    BY <1>8, <1>11, <2>1
  <2>3. Decode(c.new_value) = [data |-> data[k], rev |-> rev]
    BY <1>2, <1>4, <1>11, <2>1, <2>2 DEF LineOf
  <2>4. f[k] = [data |-> data[k], rev |-> rev]
    BY <1>7, <1>8, <1>11, <2>1, <2>3
  <2>5. k \in DOMAIN g /\ k \in DOMAIN Stamps(data, rev)
    BY <1>9, <1>11 DEF Stamps
  <2>6. g[k] = Stamps(data, rev)[k]
    BY <2>5 DEF Apply
  <2> QED BY <1>4, <1>11, <2>4, <2>6
<1>12. f = g
  <2>1. DOMAIN f = DOMAIN g
    BY <1>7, <1>8, <1>9
  <2>2. \A k \in DOMAIN g : f[k] = g[k]
    BY <1>7, <1>9, <1>10, <1>11
  <2>3. f = [k \in DOMAIN f |-> f[k]] /\ g = [k \in DOMAIN g |-> g[k]]
    BY DEF Apply
  <2> QED BY <2>1, <2>2, <2>3
<1>13. ReadEventData(event)
        = [reader EXCEPT !.rev = rev, !.puzzled = @ \/ \E c \in J : ~fits(c), !.data = f]
  BY <1>1 DEF ReadEventData
<1>14. (reader.puzzled \/ \E c \in J : ~fits(c)) = reader.puzzled
  BY <1>5 DEF ReaderTypes
<1> HIDE DEF f, g, fits
<1>15. ReadEventData(event)
        = [reader EXCEPT !.rev = rev, !.puzzled = reader.puzzled, !.data = g]
  BY <1>12, <1>13, <1>14
<1> QED BY <1>15 DEF ReaderTypes, g

-----------------------------------------------------------------------------
(* The contents of the database and what the store makes of them.          *)
LEMMA StampedHolds ==
    ASSUME NEW content, IsFcn(content, Data), NEW rev \in Nat
    PROVE  IsFcn(Stamped(content, rev), Values) /\ Holds(Stamped(content, rev), content)
BY DEF Stamped, Holds, IsFcn, Values

LEMMA NullIsNoData == Null \notin Data
BY DEF Data

LEMMA CommitFcn ==
    ASSUME NEW content, IsFcn(content, Data), NEW i \in 1 .. Len(Commits)
    PROVE  IsFcn(Apply(Commits[i], content), Data)
<1> DEFINE c == Commits[i]
           D == (DOMAIN content \cup DOMAIN c) \ {x \in DOMAIN c : c[x] = Null}
<1>1. i \in DOMAIN Commits
  BY DataAssumption, LenProperties
<1>2. \A k \in DOMAIN c : c[k] # Null => c[k] \in Data
  BY <1>1 DEF Data, Range
<1>3. \A k \in DOMAIN content : content[k] \in Data
  BY DEF IsFcn
<1>4. Apply(c, content) = [k \in D |-> IF k \in DOMAIN c THEN c[k] ELSE content[k]]
  BY DEF Apply
<1>5. \A k \in D : (IF k \in DOMAIN c THEN c[k] ELSE content[k]) \in Data
  BY <1>2, <1>3
<1> HIDE DEF c, D
<1>6. IsFcn(Apply(c, content), Data)
  BY <1>4, <1>5 DEF IsFcn
<1> QED BY <1>6 DEF c

LEMMA DeltaFcn ==
    ASSUME NEW old, NEW new, IsFcn(new, Data)
    PROVE  IsFcn(Delta(old, new), Data \cup {Null})
BY DEF Delta, IsFcn

(* Applying the difference of two contents to the first gives the second.  *)
LEMMA DeltaHolds ==
    ASSUME NEW old, IsFcn(old, Data), NEW new, IsFcn(new, Data), NEW rev \in Nat,
           NEW store, IsFcn(store, Values), Holds(store, old)
    PROVE  LET after == Apply(Stamps(Delta(old, new), rev), store)
           IN  IsFcn(after, Values) /\ Holds(after, new)
<1> DEFINE d == Delta(old, new)
           s == Stamps(d, rev)
           after == Apply(s, store)
<1>1. /\ \A k : k \in DOMAIN d <=> /\ k \in DOMAIN old \cup DOMAIN new
                                   /\ \/ k \notin DOMAIN old \/ k \notin DOMAIN new
                                      \/ old[k] # new[k]
      /\ \A k \in DOMAIN d : d[k] = IF k \in DOMAIN new THEN new[k] ELSE Null
  BY DEF Delta
<1>2. IsFcn(d, Data \cup {Null})
  BY DeltaFcn
<1>3. \A k \in DOMAIN new : new[k] \in Data /\ new[k] # Null
  BY NullIsNoData DEF IsFcn
<1> HIDE DEF d
<1>4. \A k \in DOMAIN d : d[k] = Null <=> k \notin DOMAIN new
  BY <1>1, <1>3
<1>5. DOMAIN s = DOMAIN d
  BY DEF Stamps
<1>6. \A k \in DOMAIN d : s[k] = Null <=> k \notin DOMAIN new
  BY <1>2, <1>4, StampsIs
<1>7. \A k \in DOMAIN d : k \in DOMAIN new =>
            s[k] \in Values /\ s[k].data = new[k]
  <2> TAKE k \in DOMAIN d
  <2> HAVE k \in DOMAIN new
  <2>1. d[k] # Null /\ d[k] = new[k]
    BY <1>1, <1>4
  <2>2. s[k] = [data |-> d[k], rev |-> rev] /\ s[k] \in Values
    BY <1>2, <2>1, StampsIs
  <2> HIDE DEF s
  <2> QED BY <2>1, <2>2
<1> HIDE DEF s
<1>8. after = [k \in (DOMAIN store \cup DOMAIN s) \ {x \in DOMAIN s : s[x] = Null} |->
                    IF k \in DOMAIN s THEN s[k] ELSE store[k]]
  BY DEF Apply
<1>9. DOMAIN store = DOMAIN old /\ \A k \in DOMAIN store : store[k].data = old[k] /\ store[k] \in Values
  BY DEF Holds, IsFcn
<1>10. (DOMAIN store \cup DOMAIN s) \ {x \in DOMAIN s : s[x] = Null} = DOMAIN new
  BY <1>1, <1>5, <1>6, <1>9
<1>11. DOMAIN after = DOMAIN new
  BY <1>8, <1>10
<1>12. ASSUME NEW k \in DOMAIN new
       PROVE  after[k] \in Values /\ after[k].data = new[k]
  <2>1. after[k] = IF k \in DOMAIN s THEN s[k] ELSE store[k]
    BY <1>8, <1>10
  <2>2. CASE k \in DOMAIN s
    BY <1>5, <1>7, <2>1, <2>2
  <2>3. CASE k \notin DOMAIN s
    <3>1. k \in DOMAIN old /\ old[k] = new[k]
      BY <1>1, <1>5, <2>3
    <3> HIDE DEF after
    <3> QED BY <1>9, <2>1, <2>3, <3>1
  <2> QED BY <2>2, <2>3
<1>13. IsFcn(after, Values)
  <2>1. after = [k \in DOMAIN new |-> after[k]]
    BY <1>8, <1>10
  <2> HIDE DEF after
  <2> QED BY <1>12, <2>1 DEF IsFcn
<1>14. Holds(after, new)
  BY <1>11, <1>12 DEF Holds
<1> QED BY <1>13, <1>14 DEF s, d

-----------------------------------------------------------------------------
(* The types are kept.                                                     *)
LEMMA MainQueues ==
    ASSUME MainTypes, Calls, MainStep \/ Signal
    PROVE  \/ UNCHANGED m_commands
           \/ /\ at = "push insert" /\ Return /\ Op \in Kinds
              /\ m_commands' = Append(m_commands, Command(Op))
           \/ m_commands' = Append(m_commands, Command("close"))
<1>1. CASE WaitEnter \/ WaitLock \/ WaitCheck \/ WaitSleep \/ FetchSessions \/ Ping \/ Close
           \/ PushCheck \/ PushLock \/ Get \/ Scan \/ Join
  BY <1>1, Zenon DEF WaitEnter, WaitLock, WaitCheck, WaitSleep, FetchSessions, Ping, Close, PushCheck,
     PushLock, Get, Scan, Join, inside, clientvars
<1>2. CASE PushInsert
  <2>1. at \in {"push insert", "stop insert"}
    BY <1>2 DEF PushInsert
  <2>2. m_commands' = Append(m_commands, Command(IF Stopping THEN "close" ELSE Op))
    BY <1>2 DEF PushInsert, Enqueue
  <2>3. CASE at = "push insert"
    <3>1. ~Stopping
      BY <2>3 DEF Stopping
    <3>2. Op \in Kinds
      BY <2>3 DEF Calls, Pushes
    <3>3. Return
      BY <1>2, <3>1, Zenon DEF PushInsert, Pushed
    <3> QED BY <2>1, <2>2, <2>3, <3>1, <3>2, <3>3
  <2>4. CASE at = "stop insert"
    BY <2>2, <2>4 DEF Stopping
  <2> QED BY <2>1, <2>3, <2>4
<1>3. CASE HandlerPush
  BY <1>3 DEF HandlerPush, Enqueue
<1>4. CASE Signal
  BY <1>4, Zenon DEF Signal, clientvars
<1> QED BY <1>1, <1>2, <1>3, <1>4 DEF MainStep

QueueTypes ==
    /\ m_commands \in Seq(Commands) /\ m_requests \in Seq(Commands)
    /\ loop \in [pc : Pcs, ret : Rets]

LEMMA QueueTypesKept ==
    ASSUME TypeOK, Calls, [Next]_vars
    PROVE  QueueTypes'
<1>1. /\ m_commands \in Seq(Commands) /\ m_requests \in Seq(Commands)
      /\ loop \in [pc : Pcs, ret : Rets] /\ m_correlation \in Nat
  BY DEF TypeOK, ClientTypes
<1>2. loop = [pc |-> loop.pc, ret |-> loop.ret] /\ loop.pc \in Pcs /\ loop.ret \in Rets
  BY <1>1
<1>e. <<>> \in Seq(Commands)
  BY EmptySeq
<1>3. \A pc \in Pcs : To(pc) => loop' \in [pc : Pcs, ret : Rets]
  BY <1>2 DEF To
<1>4. \A ret \in Rets : Abort(ret) => loop' \in [pc : Pcs, ret : Rets]
  BY DEF Abort, Pcs, Over, Rets
<1>5. CASE UNCHANGED vars
  BY <1>1, <1>5 DEF vars, clientvars, QueueTypes
<1>6. CASE MainStep \/ Signal
  <2>1. UNCHANGED <<m_requests, loop>>
    BY <1>6, MainStill
  <2>2. \A k \in Kinds : Command(k) \in Commands
    BY DEF Command, Commands
  <2>3. \A k \in Kinds : Append(m_commands, Command(k)) \in Seq(Commands)
    BY <1>1, <2>2, AppendProperties
  <2>4. m_commands' \in Seq(Commands)
    BY <1>1, <1>6, <2>3, MainQueues DEF TypeOK, Kinds
  <2> QED BY <1>1, <2>1, <2>4 DEF QueueTypes
<1>7. CASE Notify \/ WakeUp \/ CommandsDone
  <2>1. UNCHANGED <<m_commands, m_requests>>
    BY <1>7, Zenon DEF Notify, WakeUp, CommandsDone
  <2>2. loop' \in [pc : Pcs, ret : Rets]
    BY <1>3, <1>7 DEF Notify, WakeUp, CommandsDone, Pcs, Over
  <2> QED BY <1>1, <2>1, <2>2 DEF QueueTypes
<1>8. CASE ClearLists \/ RunEnds
  BY <1>3, <1>8, <1>e DEF ClearLists, RunEnds, Pcs, Over, QueueTypes
<1>9. CASE AbortEnds
  BY <1>1, <1>2, <1>3, <1>9, <1>e DEF AbortEnds, QueueTypes, Rets, Pcs, Over
<1>10. CASE PopCommand
  <2>1. m_commands' = Tail(m_commands) /\ m_commands # <<>>
    BY <1>10 DEF PopCommand
  <2>2. m_commands' \in Seq(Commands) /\ Head(m_commands) \in Commands
    BY <1>1, <2>1, HeadTailProperties
  <2> DEFINE cmd == Head(m_commands)
  <2>3. CASE Abort("commands") /\ UNCHANGED m_requests
    BY <1>1, <1>4, <2>2, <2>3 DEF QueueTypes, Pcs, Rets
  <2>4. CASE SendRequest(cmd)
    <3>1. [cmd EXCEPT !.cid = m_correlation] \in Commands
      BY <1>1, <2>2 DEF Commands
    <3>2. m_requests' \in Seq(Commands)
      BY <1>1, <2>4, <3>1, AppendProperties DEF SendRequest
    <3>3. UNCHANGED loop
      BY <2>4, Zenon DEF SendRequest
    <3> QED BY <1>1, <2>2, <3>2, <3>3 DEF QueueTypes
  <2>5. CASE UNCHANGED <<m_requests, loop>>
    BY <1>1, <2>2, <2>5 DEF QueueTypes
  <2> QED BY <1>10, <2>3, <2>4, <2>5, Zenon DEF PopCommand
<1>11. CASE InitialSessions
  BY <1>1, <1>3, <1>11 DEF InitialSessions, Pcs, QueueTypes
<1>12. CASE Interrupt \/ ConnectionClosed
  <2>1. m_requests' \in {m_requests, <<>>} /\ UNCHANGED m_commands
    BY <1>12 DEF Interrupt, ConnectionClosed
  <2>2. Abort("stopped")
    BY <1>12 DEF Interrupt, ConnectionClosed
  <2> QED BY <1>1, <1>4, <1>e, <2>1, <2>2 DEF QueueTypes, Pcs, Over, Rets
<1>13. CASE Receive
  <2>1. UNCHANGED m_commands
    BY <1>13 DEF Receive
  <2>2. ASSUME m_requests # <<>>
        PROVE  Tail(m_requests) \in Seq(Commands)
    BY <1>1, <2>2, HeadTailProperties
  <2>t. [pc |-> "notify", ret |-> "idle"] \in [pc : Pcs, ret : Rets]
        /\ [pc |-> "sessions", ret |-> "idle"] \in [pc : Pcs, ret : Rets]
    BY DEF Pcs, Rets
  <2>3. CASE Disconnect
    <3>1. m_requests' = <<>> /\ Abort("stopped")
      BY <2>3 DEF Disconnect
    <3> QED BY <1>1, <1>4, <1>e, <2>1, <3>1 DEF QueueTypes, Pcs, Over, Rets
  <2> DEFINE msg == Head(inbox)
  <2>4. CASE LoginResp(msg) \/ SnapshotResp(msg)
    <3>1. UNCHANGED m_requests /\ loop' = [pc |-> "notify", ret |-> "idle"]
      BY <2>4, Zenon DEF LoginResp, SnapshotResp, SetState
    <3> QED BY <1>1, <2>1, <2>t, <3>1 DEF QueueTypes
  <2>5. CASE UpdatesResp(msg) \/ UpdatesPush(msg)
    <3>1. UNCHANGED m_requests
      BY <2>5, Zenon DEF UpdatesResp, UpdatesPush
    <3>2. UNCHANGED loop \/ loop' = [pc |-> "notify", ret |-> "idle"]
      BY <2>5, Zenon DEF UpdatesResp, UpdatesPush, SetState
    <3> QED BY <1>1, <2>1, <2>t, <3>1, <3>2 DEF QueueTypes
  <2>6. CASE PingResp(msg) \/ SessionsResp(msg)
    <3>1. UNCHANGED <<m_requests, loop>> \/ (m_requests # <<>> /\ m_requests' = Tail(m_requests)
             /\ (UNCHANGED loop \/ loop' = [pc |-> "sessions", ret |-> "idle"]))
      BY <2>6, Zenon DEF PingResp, SessionsResp, Answered, Answer, Ignore
    <3> QED BY <1>1, <2>1, <2>2, <2>t, <3>1 DEF QueueTypes
  <2>7. CASE SessionsPush(msg)
    <3>1. UNCHANGED <<m_requests, loop>>
      BY <2>7, Zenon DEF SessionsPush
    <3> QED BY <1>1, <2>1, <3>1 DEF QueueTypes
  <2>8. IsSeq(inbox) /\ \A i \in 1 .. Len(inbox) : inbox[i].type \in MsgTypes
    BY DEF TypeOK, ServerTypes, MsgTypesOK, MsgsOK, MsgOK
  <2>9. inbox # <<>>
    BY <1>13 DEF Receive
  <2>10. msg.type \in MsgTypes
    BY <2>8, <2>9, TailIs
  <2>11. Disconnect \/ LoginResp(msg) \/ SnapshotResp(msg) \/ UpdatesResp(msg) \/ UpdatesPush(msg)
         \/ PingResp(msg) \/ SessionsResp(msg) \/ SessionsPush(msg)
    BY <1>13, <2>10 DEF Receive, MsgTypes
  <2> QED BY <2>3, <2>4, <2>5, <2>6, <2>7, <2>11
<1>14. CASE Serves
  BY <1>1, <1>14, Zenon DEF Serves, ServerAnswer, ServerPush, ServerCommit, SessionEvent, served,
     clientvars, QueueTypes
<1> QED BY <1>5, <1>6, <1>7, <1>8, <1>9, <1>10, <1>11, <1>12, <1>13, <1>14 DEF Next, LoopStep, Serves

(* What the main thread does, by the call it is in.                        *)
Stays == UNCHANGED <<at, next, failed>>
Waiting == at' \in Waits /\ WaitOp /\ UNCHANGED <<next, failed>>
Pushing == at' \in Pushes /\ Op \in Kinds /\ UNCHANGED <<next, failed>>
Finishing ==
    /\ at \in Stops /\ at' \in Stops /\ UNCHANGED <<next, failed>>
    /\ at' = "ended" => loop.pc = "ended"
Returning ==
    /\ Return
    /\ \/ Op = "wait_closed" \/ Op = "scan"
       \/ WaitOp /\ Reached
       \/ at \in Pushes /\ Op \in Kinds
       \/ Op = "get" /\ future = "value"
KeepsFuture ==
    UNCHANGED future \/ (at \in Pushes /\ Op # "close" /\ future' \in {"pending", "exception"})

LEMMA MainMoves ==
    ASSUME MainTypes, Calls, MainStep \/ Signal
    PROVE  /\ UNCHANGED program /\ KeepsFuture
           /\ Stays \/ Waiting \/ Pushing \/ Finishing \/ Returning \/ Throw
<1>1. UNCHANGED program
  BY MainStill, Zenon DEF Still, copyvars
<1>2. CASE WaitEnter
  <2>1. WaitOp /\ UNCHANGED future
    BY <1>2, Zenon DEF WaitEnter
  <2>2. Go("lock") \/ (Op = "wait_closed" /\ Return) \/ Throw
    BY <1>2, Zenon DEF WaitEnter
  <2>3. Go("lock") => Waiting
    BY <2>1 DEF Go, Waiting, Waits
  <2> QED BY <1>1, <2>1, <2>2, <2>3, Zenon DEF KeepsFuture, Returning
<1>3. CASE WaitLock \/ WaitSleep
  <2>1. at \in Waits /\ (Go("check") \/ Go("asleep")) /\ UNCHANGED future
    BY <1>3 DEF WaitLock, WaitSleep, Waits
  <2> QED BY <1>1, <2>1 DEF Calls, Go, Waiting, Waits, KeepsFuture
<1>4. CASE WaitCheck
  <2>1. WaitOp /\ UNCHANGED future
    BY <1>4 DEF WaitCheck, Calls, Waits
  <2>2. (Reached /\ Return) \/ Throw \/ Go("falling asleep")
    BY <1>4, Zenon DEF WaitCheck
  <2>3. Go("falling asleep") => Waiting
    BY <2>1 DEF Go, Waiting, Waits
  <2> QED BY <1>1, <2>1, <2>2, <2>3, Zenon DEF KeepsFuture, Returning
<1>5. CASE FetchSessions \/ Ping \/ Close
  <2>1. Op \in Kinds /\ UNCHANGED future
    BY <1>5 DEF FetchSessions, Ping, Close, Kinds, Fetches
  <2>2. Throw \/ Go("push")
    BY <1>5, Zenon DEF FetchSessions, Ping, Close
  <2>3. Go("push") => Pushing
    BY <2>1 DEF Go, Pushing, Pushes
  <2> QED BY <1>1, <2>1, <2>2, <2>3, Zenon DEF KeepsFuture
<1>6. CASE PushCheck \/ PushInsert
  <2>1. at \in {"push", "push insert", "stop", "stop insert"}
    BY <1>6 DEF PushCheck, PushInsert
  <2>2. CASE Stopping
    <3>1. at \in Stops /\ ~HasPromise
      BY <2>1, <2>2 DEF Stopping, Stops, HasPromise
    <3>2. Go("join") \/ Go("stop lock")
      BY <1>6, <2>2, Zenon DEF PushCheck, PushInsert, Pushed
    <3>3. UNCHANGED future
      BY <1>6, <3>1, Zenon DEF PushCheck, PushInsert, Pushed
    <3> QED BY <1>1, <3>1, <3>2, <3>3 DEF Go, Finishing, Stops, KeepsFuture
  <2>3. CASE ~Stopping
    <3>1. at \in Pushes
      BY <2>1, <2>3 DEF Stopping, Pushes
    <3>2. Op \in Kinds
      BY <3>1 DEF Calls
    <3>3. Return \/ Go("push lock")
      BY <1>6, <2>3, Zenon DEF PushCheck, PushInsert, Pushed
    <3>4. future' \in {future, "pending", "exception"} /\ (Op = "close" => UNCHANGED future)
      BY <1>6 DEF PushCheck, PushInsert, Pushed, HasPromise
    <3>5. KeepsFuture
      BY <3>1, <3>4 DEF KeepsFuture
    <3>6. Go("push lock") => Pushing
      BY <3>2 DEF Go, Pushing, Pushes
    <3> QED BY <1>1, <3>1, <3>2, <3>3, <3>5, <3>6 DEF Returning
  <2> QED BY <2>2, <2>3
<1>7. CASE PushLock
  <2>1. at \in {"push lock", "stop lock"} /\ UNCHANGED future
    BY <1>7 DEF PushLock
  <2>2. CASE Stopping
    <3>1. at \in Stops /\ Go("stop insert")
      BY <1>7, <2>1, <2>2 DEF PushLock, Stopping, Stops
    <3> QED BY <1>1, <2>1, <3>1 DEF Go, Finishing, Stops, KeepsFuture
  <2>3. CASE ~Stopping
    <3>1. at \in Pushes /\ Go("push insert")
      BY <1>7, <2>1, <2>3 DEF PushLock, Stopping, Pushes
    <3> QED BY <1>1, <2>1, <3>1 DEF Go, Pushing, Pushes, KeepsFuture, Calls
  <2> QED BY <2>2, <2>3
<1>8. CASE Get \/ Scan
  <2>1. UNCHANGED future
    BY <1>8, Zenon DEF Get, Scan
  <2>2. Throw \/ (Return /\ Op = "get" /\ future = "value") \/ (Return /\ Op = "scan")
    BY <1>8, Zenon DEF Get, Scan
  <2> QED BY <1>1, <2>1, <2>2, Zenon DEF KeepsFuture, Returning
<1>9. CASE Join
  <2>1. UNCHANGED future /\ at = "join" /\ Go("ended") /\ loop.pc = "ended"
    BY <1>9 DEF Join
  <2> QED BY <1>1, <2>1 DEF Go, Finishing, Stops, KeepsFuture
<1>10. CASE HandlerPush \/ Signal
  BY <1>1, <1>10, Zenon DEF HandlerPush, Signal, KeepsFuture, Stays
<1> QED BY <1>2, <1>3, <1>4, <1>5, <1>6, <1>7, <1>8, <1>9, <1>10 DEF MainStep

LEMMA LoopMoves ==
    ASSUME [Next]_vars, ~(MainStep \/ Signal)
    PROVE  /\ UNCHANGED <<next, failed, program>>
           /\ UNCHANGED at \/ (at = "asleep" /\ at' = "lock")
           /\ loop.pc = "ended" => UNCHANGED loop
<1>1. CASE UNCHANGED vars
  BY <1>1, Zenon DEF vars, mainvars, clientvars
<1>2. CASE LoopStep \/ Receive \/ Interrupt \/ ConnectionClosed
  <2>1. UNCHANGED <<next, failed, program>>
    BY <1>2, Zenon DEF LoopStep, Notify, ClearLists, AbortEnds, RunEnds, WakeUp, PopCommand,
       CommandsDone, InitialSessions, Receive, Interrupt, ConnectionClosed, mainrest
  <2>2. UNCHANGED at \/ (at = "asleep" /\ at' = "lock")
    BY <1>2, Zenon DEF LoopStep, Notify, ClearLists, AbortEnds, RunEnds, WakeUp, PopCommand,
       CommandsDone, InitialSessions, Receive, Interrupt, ConnectionClosed
  <2>3. loop.pc # "ended"
    BY <1>2 DEF LoopStep, Notify, ClearLists, AbortEnds, RunEnds, WakeUp, PopCommand,
       CommandsDone, InitialSessions, Receive, Interrupt, ConnectionClosed, At
  <2> QED BY <2>1, <2>2, <2>3
<1>3. CASE Serves
  BY <1>3, Zenon DEF Serves, ServerAnswer, ServerPush, ServerCommit, SessionEvent, served,
     clientvars, mainvars
<1> QED BY <1>1, <1>2, <1>3 DEF Next, Serves

(* The programs.                                                           *)
LEMMA ScriptIs ==
    /\ DOMAIN Script = {"watcher", "data_only", "sessions_only", "once", "data_once", "example1",
                        "populated"}
    /\ Script["watcher"] = <<"wait_synced", "fetch_stream", "get", "wait_closed">>
    /\ Script["sessions_only"] = <<"wait_synced", "fetch_stream", "get", "wait_closed">>
    /\ Script["once"] = <<"wait_synced", "fetch", "get", "close", "wait_closed">>
    /\ Script["data_once"] = <<"wait_synced", "close", "wait_closed">>
    /\ Script["data_only"] = <<"wait_synced", "wait_closed">>
    /\ Script["populated"] = <<"wait_populated", "scan">>
    /\ Script["example1"] = <<"wait_synced">> \o <<"fetch", "get">> \o <<"scan">> \o <<"ping", "get">>
BY DEF Script, Watch, Once, print_active_sessions, print_database_content, measure_latency

LEMMA ScriptLen ==
    ASSUME NEW p \in DOMAIN Script
    PROVE  Len(Script[p]) \in Nat /\ Len(Script[p]) > 0
<1>1. CASE p # "example1"
  BY <1>1, ScriptIs
<1>2. CASE p = "example1"
  <2> DEFINE S == {"wait_synced", "fetch", "get", "scan", "ping"}
  <2>1. <<"wait_synced">> \in Seq(S) /\ Len(<<"wait_synced">>) = 1
    OBVIOUS
  <2>2. <<"fetch", "get">> \in Seq(S) /\ <<"scan">> \in Seq(S) /\ <<"ping", "get">> \in Seq(S)
    OBVIOUS
  <2> HIDE DEF S
  <2> QED BY <1>2, <2>1, <2>2, ScriptIs, ConcatProperties, LenProperties
<1> QED BY <1>1, <1>2

LEMMA CallsKept ==
    ASSUME MainTypes, Calls, [Next]_vars
    PROVE  Calls' /\ next' \in Nat \ {0} /\ failed' \in BOOLEAN /\ program' \in DOMAIN Script
           /\ at' \in {"call"} \cup Waits \cup Pushes \cup Stops
<1>1. /\ program \in DOMAIN Script /\ next \in Nat \ {0} /\ failed \in BOOLEAN
      /\ at \in {"call"} \cup Waits \cup Pushes \cup Stops
  BY DEF MainTypes
<1>2. /\ next <= Len(Script[program])
      /\ at \in Pushes => Op \in Kinds
      /\ at \in Waits => Op \in {"wait_populated", "wait_synced", "wait_closed"}
      /\ at \in Stops /\ ~failed => ~(next < Len(Script[program]))
      /\ at = "ended" => loop.pc = "ended"
  BY DEF Calls, WaitOp
<1>s. Op = Script[program][next] /\ Op' = Script[program'][next']
  BY DEF Op
<1>l. Len(Script[program]) \in Nat
  BY <1>1, ScriptLen
<1>a. Calls' <=> /\ next' <= Len(Script[program'])
                 /\ at' \in Pushes => Op' \in Kinds
                 /\ at' \in Waits => Op' \in {"wait_populated", "wait_synced", "wait_closed"}
                 /\ at' \in Stops /\ ~failed' => ~(next' < Len(Script[program']))
                 /\ at' = "ended" => loop'.pc = "ended"
  BY DEF Calls, WaitOp
<1>d. "call" \notin Waits \cup Pushes \cup Stops /\ "stop" \in Stops
      /\ Waits \cap Pushes = {} /\ Waits \cap Stops = {} /\ Pushes \cap Stops = {} /\ "ended" \in Stops
  BY DEF Waits, Pushes, Stops
<1>3. CASE MainStep \/ Signal
  <2>1. UNCHANGED <<program, loop>>
    BY <1>3, MainMoves, MainStill
  <2>2. CASE Stays
    <3>1. Op' = Op
      BY <1>s, <2>1, <2>2 DEF Stays
    <3> QED BY <1>1, <1>2, <1>a, <2>1, <2>2, <3>1 DEF Stays
  <2>3. CASE Waiting \/ Pushing \/ Finishing
    <3>1. UNCHANGED <<next, failed>> /\ Op' = Op
      BY <1>s, <2>1, <2>3 DEF Waiting, Pushing, Finishing
    <3>2. CASE Waiting
      BY <1>1, <1>2, <1>a, <1>d, <1>l, <2>1, <3>1, <3>2 DEF Waiting, WaitOp
    <3>3. CASE Pushing
      BY <1>1, <1>2, <1>a, <1>d, <1>l, <2>1, <3>1, <3>3 DEF Pushing
    <3>4. CASE Finishing
      BY <1>1, <1>2, <1>a, <1>d, <1>l, <2>1, <3>1, <3>4 DEF Finishing
    <3> QED BY <2>3, <3>2, <3>3, <3>4
  <2>4. CASE Returning
    <3>1. /\ UNCHANGED failed
          /\ \/ at' = "call" /\ next' = next + 1 /\ next < Len(Script[program])
             \/ at' = "stop" /\ next' = next /\ ~(next < Len(Script[program]))
      BY <2>4, Zenon DEF Returning, Return
    <3>2. CASE at' = "call" /\ next' = next + 1 /\ next < Len(Script[program])
      BY <1>1, <1>2, <1>a, <1>d, <1>l, <2>1, <3>1, <3>2
    <3>3. CASE at' = "stop" /\ next' = next /\ ~(next < Len(Script[program]))
      BY <1>1, <1>2, <1>a, <1>d, <1>l, <2>1, <3>1, <3>3
    <3> QED BY <3>1, <3>2, <3>3
  <2>5. CASE Throw
    <3>1. at' = "stop" /\ failed' = TRUE /\ next' = next
      BY <2>5 DEF Throw
    <3> QED BY <1>1, <1>2, <1>a, <1>d, <1>l, <2>1, <3>1
  <2> QED BY <1>3, <2>2, <2>3, <2>4, <2>5, MainMoves
<1>4. CASE ~(MainStep \/ Signal)
  <2>1. /\ UNCHANGED <<next, failed, program>>
        /\ UNCHANGED at \/ (at = "asleep" /\ at' = "lock")
        /\ loop.pc = "ended" => UNCHANGED loop
    BY <1>4, LoopMoves
  <2>2. Op' = Op
    BY <1>s, <2>1
  <2>3. "asleep" \in Waits /\ "lock" \in Waits
    BY DEF Waits
  <2> QED BY <1>1, <1>2, <1>a, <1>d, <2>1, <2>2, <2>3
<1> QED BY <1>3, <1>4

-----------------------------------------------------------------------------
(* What the messages do to the copy and to the reader.                     *)
Read(data, rev, sess, listed, puzzled) ==
    reader' = [data |-> data, rev |-> rev, sessions |-> sess, listed |-> listed,
               puzzled |-> puzzled]

LEMMA ReadFields ==
    ASSUME NEW data, NEW rev, NEW sess, NEW listed \in BOOLEAN, NEW puzzled \in BOOLEAN,
           Read(data, rev, sess, listed, puzzled)
    PROVE  /\ ReaderTypes' /\ reader'.data = data /\ reader'.rev = rev /\ reader'.sessions = sess
           /\ reader'.listed = listed /\ reader'.puzzled = puzzled
<1>1. reader' = [data |-> data, rev |-> rev, sessions |-> sess, listed |-> listed,
                 puzzled |-> puzzled]
  BY DEF Read
<1>2. /\ reader'.data = data /\ reader'.rev = rev /\ reader'.sessions = sess
      /\ reader'.listed = listed /\ reader'.puzzled = puzzled
  BY <1>1
<1>3. ReaderTypes'
  BY <1>1, <1>2 DEF ReaderTypes
<1> QED BY <1>2, <1>3

LEMMA SnapshotIs ==
    ASSUME TypeOK, GotSnapshot
    PROVE  /\ m_rev' = inbox[1].rev /\ m_rev' \in 1 .. Len(log) /\ m_initialized'
           /\ IsFcn(m_store', Values) /\ Holds(m_store', log[m_rev'])
           /\ IF PrintsData
              THEN Read(m_store', m_rev', reader.sessions, reader.listed, reader.puzzled)
              ELSE reader' = reader
<1> DEFINE m == inbox[1]
<1>1. m.type = "snapshot" /\ inbox # <<>> /\ IsSeq(inbox) /\ IsSeq(log)
  BY DEF GotSnapshot, Got, TypeOK, ServerTypes
<1>2. MsgOK(m, log)
  BY <1>1, TailIs DEF TypeOK, MsgTypesOK, MsgsOK
<1>3. m.rev \in 1 .. Len(log) /\ m.data = log[m.rev] /\ m.rev \in Nat
  BY <1>1, <1>2, EmptyLen DEF MsgOK
<1>4. IsFcn(log[m.rev], Data)
  BY <1>3 DEF TypeOK, ServerTypes
<1>5. m_store' = Stamped(m.data, m.rev) /\ m_rev' = m.rev /\ m_initialized' = TRUE
  BY DEF GotSnapshot, SnapshotResp
<1>6. IsFcn(m_store', Values) /\ Holds(m_store', log[m_rev'])
  BY <1>3, <1>4, <1>5, StampedHolds
<1>7. reader' = on_initial_data(m_store', m.rev)
  BY DEF GotSnapshot, SnapshotResp
<1>8. CASE PrintsData
  <2>1. PICK c : c = m_store'
    OBVIOUS
  <2>2. reader' = ReadData({data_to_json(k, c[k]).data : k \in DOMAIN c}, m.rev)
    BY <1>7, <1>8, <2>1 DEF on_initial_data
  <2>3. reader' = [data |-> c, rev |-> m.rev, sessions |-> reader.sessions,
                   listed |-> reader.listed, puzzled |-> reader.puzzled]
    BY <1>6, <2>1, <2>2, InitialPrinted DEF TypeOK
  <2> QED BY <1>3, <1>5, <1>6, <1>8, <2>1, <2>3 DEF Read
<1>9. CASE ~PrintsData
  BY <1>3, <1>5, <1>6, <1>7, <1>9 DEF on_initial_data
<1> QED BY <1>8, <1>9

(* The first commit in flight is the next one for the client.              *)
LEMMA PushIsNext ==
    ASSUME TypeOK, Stream, GotPush
    PROVE  /\ m_initialized /\ data_stream # Null /\ inbox[1].rev = m_rev + 1
           /\ m_rev \in 1 .. Len(log) /\ m_rev + 1 \in 1 .. Len(log)
           /\ inbox[1].data = Delta(log[m_rev], log[m_rev + 1])
<1> DEFINE m == inbox[1]
<1>1. IsPush(inbox, 1) /\ inbox # <<>> /\ m_state # "CLOSED" /\ IsSeq(inbox) /\ IsSeq(log)
  BY DEF GotPush, Got, TypeOK, ServerTypes, IsPush
<1>2. 1 \in 1 .. Len(inbox) /\ Len(log) \in Nat /\ Len(inbox) \in Nat
  BY <1>1, TailIs, EmptyLen
<1>3. MsgOK(m, log)
  BY <1>1, <1>2 DEF TypeOK, MsgTypesOK, MsgsOK
<1>4. m.rev \in 2 .. Len(log) /\ m.data = Delta(log[m.rev - 1], log[m.rev])
  BY <1>1, <1>3 DEF MsgOK, IsPush
<1>5. data_stream # Null
  BY <1>1, <1>2 DEF Stream, Ordered, Calm
<1>6. /\ m_initialized /\ data_stream.rev \in m_rev .. Len(log)
      /\ Gapless(inbox, m_rev, data_stream.rev)
  BY <1>5 DEF Stream, Streaming
<1>7. m_rev \in 1 .. Len(log)
  BY <1>6 DEF Stream, Copy
<1>8. m.rev > m_rev /\ m.rev <= data_stream.rev
  BY <1>1, <1>2, <1>6 DEF Stream, Ordered, Rising, Gapless
<1>9. m_rev + 1 \in m_rev + 1 .. data_stream.rev
  BY <1>2, <1>4, <1>6, <1>7, <1>8
<1>10. PICK i \in 1 .. Len(inbox) : IsPush(inbox, i) /\ inbox[i].rev = m_rev + 1
  BY <1>6, <1>9 DEF Gapless
<1>11. i > 1 => m.rev < m_rev + 1
  BY <1>1, <1>2, <1>10 DEF Stream, Ordered, Rising
<1>12. m.rev = m_rev + 1
  BY <1>2, <1>4, <1>7, <1>8, <1>10, <1>11
<1> QED BY <1>2, <1>4, <1>5, <1>6, <1>7, <1>12

LEMMA PushIs ==
    ASSUME TypeOK, Stream, GotPush
    PROVE  /\ m_rev' = m_rev + 1 /\ m_rev' \in 1 .. Len(log) /\ UNCHANGED m_initialized
           /\ IsFcn(m_store', Values) /\ Holds(m_store', log[m_rev'])
           /\ IF PrintsData
              THEN Read(m_store', m_rev', reader.sessions, reader.listed, reader.puzzled)
              ELSE reader' = reader
<1> DEFINE m == inbox[1]
           old == log[m_rev]
           new == log[m_rev + 1]
<1>1. /\ m_initialized /\ m.rev = m_rev + 1 /\ m_rev \in 1 .. Len(log)
      /\ m_rev + 1 \in 1 .. Len(log) /\ m.data = Delta(old, new)
  BY PushIsNext
<1>2. IsFcn(old, Data) /\ IsFcn(new, Data) /\ IsFcn(m_store, Values) /\ m_rev + 1 \in Nat
  BY <1>1 DEF TypeOK, ServerTypes, ClientTypes
<1>3. Holds(m_store, old)
  BY <1>1 DEF Stream, Copy
<1>4. m_store' = Apply(Stamps(m.data, m.rev), m_store)
  BY DEF GotPush, UpdatesPush, Stamps
<1>5. /\ m_rev' = m_rev + 1 /\ UNCHANGED m_initialized
      /\ reader' = on_event_data(m.rev, ChangesOf(m.data, m.rev))
  BY <1>1, Zenon DEF GotPush, UpdatesPush
<1>6. IsFcn(m_store', Values) /\ Holds(m_store', new)
  BY <1>1, <1>2, <1>3, <1>4, DeltaHolds
<1>7. CASE PrintsData
  <2>1. reader.data = m_store
    BY <1>1, <1>7 DEF Stream, Copy
  <2>2. IsFcn(m.data, Data \cup {Null})
    BY <1>1, <1>2, DeltaFcn
  <2>3. reader' = ReadEventData(event_data_to_json(m.rev, ChangesOf(m.data, m.rev)).event_data)
    BY <1>5, <1>7 DEF on_event_data
  <2>4. reader' = [data |-> Apply(Stamps(m.data, m.rev), m_store), rev |-> m.rev,
                   sessions |-> reader.sessions, listed |-> reader.listed,
                   puzzled |-> reader.puzzled]
    BY <1>1, <1>2, <2>1, <2>2, <2>3, ChangesPrinted DEF TypeOK
  <2>5. Read(m_store', m_rev', reader.sessions, reader.listed, reader.puzzled)
    BY <1>1, <1>4, <1>5, <2>4 DEF Read
  <2> QED BY <1>1, <1>5, <1>6, <1>7, <2>5
<1>8. CASE ~PrintsData
  BY <1>1, <1>5, <1>6, <1>8 DEF on_event_data
<1> QED BY <1>7, <1>8

LEMMA EventIs ==
    ASSUME TypeOK, GotEvent
    PROVE  LET e == inbox[1].data
               comes == e.code = "CONNECTED"
           IN  /\ e \in Events
               /\ IF PrintsSessions
                  THEN Read(reader.data, reader.rev,
                            IF comes THEN reader.sessions \cup {e.user}
                            ELSE reader.sessions \ {e.user},
                            reader.listed,
                            reader.puzzled \/ comes = (e.user \in reader.sessions)
                                           \/ comes = (e.until # 0))
                  ELSE reader' = reader
<1> DEFINE e == inbox[1].data
           comes == e.code = "CONNECTED"
           j == event_session_to_json(e).event_session
<1>1. inbox[1].type = "sessions_push" /\ inbox # <<>> /\ IsSeq(inbox)
  BY DEF GotEvent, Got, TypeOK, ServerTypes
<1>2. MsgOK(inbox[1], log)
  BY <1>1, TailIs DEF TypeOK, MsgTypesOK, MsgsOK
<1>3. e \in Events
  BY <1>1, <1>2 DEF MsgOK
<1>4. reader' = on_event_session(e)
  BY DEF GotEvent, SessionsPush
<1>5. CASE PrintsSessions
  <2>1. j.user = e.user /\ j.code = e.code /\ j.until = IF e.until # 0 THEN e.until ELSE Null
    BY DEF event_session_to_json, json_append_event_session
  <2>2. (j.until # Null) = (e.until # 0)
    BY <1>3, <2>1, NullAssumption DEF Events
  <2>3. reader' = ReadEventSession(j)
    BY <1>4, <1>5 DEF on_event_session
  <2> DEFINE s == IF comes THEN reader.sessions \cup {e.user} ELSE reader.sessions \ {e.user}
             p == reader.puzzled \/ comes = (e.user \in reader.sessions) \/ comes = (e.until # 0)
             p0 == reader.puzzled \/ comes = (e.user \in reader.sessions) \/ comes = (j.until # Null)
  <2>4. reader' = [reader EXCEPT !.sessions = s, !.puzzled = p0]
    BY <2>1, <2>3 DEF ReadEventSession
  <2>5. p0 = p
    BY <2>2
  <2> HIDE DEF s, p, p0
  <2>6. Read(reader.data, reader.rev, s, reader.listed, p)
    BY <2>4, <2>5 DEF TypeOK, ReaderTypes, Read
  <2> QED BY <1>3, <1>5, <2>6 DEF s, p
<1>6. CASE ~PrintsSessions
  BY <1>3, <1>4, <1>6 DEF on_event_session
<1> QED BY <1>5, <1>6

LEMMA ListIs ==
    ASSUME TypeOK, InitialSessions
    PROVE  IF PrintsSessions
           THEN Read(reader.data, reader.rev, {s.user : s \in Head(inbox).data}, TRUE,
                     reader.puzzled)
           ELSE reader' = reader
<1> DEFINE d == Head(inbox).data
           K == {session_to_json(s).session : s \in d}
<1>1. reader' = on_initial_sessions(d)
  BY DEF InitialSessions
<1>2. CASE PrintsSessions
  <2>1. reader' = [reader EXCEPT !.sessions = {l.user : l \in K}, !.listed = TRUE]
    BY <1>1, <1>2 DEF on_initial_sessions, ReadSessions
  <2>2. \A s : session_to_json(s).session.user = s.user
    BY DEF session_to_json, json_append_session
  <2>3. {l.user : l \in K} = {s.user : s \in d}
    BY <2>2
  <2>4. reader' = [reader EXCEPT !.sessions = {s.user : s \in d}, !.listed = TRUE]
    BY <2>1, <2>3
  <2> DEFINE u == {s.user : s \in d}
  <2> HIDE DEF u
  <2>5. Read(reader.data, reader.rev, u, TRUE, reader.puzzled)
    BY <2>4 DEF TypeOK, ReaderTypes, Read, u
  <2> QED BY <1>2, <2>5 DEF u
<1>3. CASE ~PrintsSessions
  BY <1>1, <1>3 DEF on_initial_sessions
<1> QED BY <1>2, <1>3

-----------------------------------------------------------------------------
(* The messages in flight, as the queue and the database change.           *)
LEMMA MsgsTail ==
    ASSUME NEW q, IsSeq(q), q # <<>>, NEW contents, MsgsOK(q, contents)
    PROVE  MsgsOK(Tail(q), contents) /\ MsgOK(q[1], contents)
BY TailIs DEF MsgsOK

LEMMA MsgsAppend ==
    ASSUME NEW q, IsSeq(q), NEW contents, MsgsOK(q, contents), NEW m, MsgOK(m, contents)
    PROVE  MsgsOK(Append(q, m), contents)
BY AppendIs DEF MsgsOK

LEMMA MsgsGrown ==
    ASSUME NEW q, NEW contents, IsSeq(contents), MsgsOK(q, contents), NEW c
    PROVE  MsgsOK(q, Append(contents, c))
<1> DEFINE new == Append(contents, c)
<1>1. /\ Len(contents) \in Nat /\ Len(new) = Len(contents) + 1
      /\ \A i \in 1 .. Len(contents) : new[i] = contents[i]
  BY AppendIs
<1> HIDE DEF new
<1>2. ASSUME NEW i \in 1 .. Len(q)
      PROVE  MsgOK(q[i], new)
  <2> DEFINE m == q[i]
  <2>1. MsgOK(m, contents)
    BY DEF MsgsOK
  <2>2. /\ m.type \in MsgTypes /\ m.cid \in Nat /\ m.crev \in 1 .. Len(new)
        /\ m.type = "sessions_push" => m.data \in Events
        /\ m.type = "sessions" => m.data \in SUBSET Events
    BY <1>1, <2>1 DEF MsgOK
  <2>3. m.type = "snapshot" => m.rev \in 1 .. Len(new) /\ m.data = new[m.rev]
    BY <1>1, <2>1 DEF MsgOK
  <2>4. m.type = "updates_push" =>
            m.rev \in 2 .. Len(new) /\ m.data = Delta(new[m.rev - 1], new[m.rev])
    <3> SUFFICES ASSUME m.type = "updates_push"
                 PROVE  m.rev \in 2 .. Len(new) /\ m.data = Delta(new[m.rev - 1], new[m.rev])
      OBVIOUS
    <3>1. m.rev \in 2 .. Len(contents) /\ m.data = Delta(contents[m.rev - 1], contents[m.rev])
      BY <2>1 DEF MsgOK
    <3>2. m.rev - 1 \in 1 .. Len(contents) /\ m.rev \in 1 .. Len(contents)
      BY <1>1, <3>1
    <3>3. new[m.rev - 1] = contents[m.rev - 1] /\ new[m.rev] = contents[m.rev]
      BY <1>1, <3>2
    <3> QED BY <1>1, <3>1, <3>3
  <2> QED BY <2>2, <2>3, <2>4 DEF MsgOK
<1> QED BY <1>2 DEF MsgsOK, new

(* What the client does with a message, variable by variable.              *)
LEMMA LoginIs ==
    ASSUME GotLogin
    PROVE  /\ m_con' = TRUE /\ m_state' = "LOADING_SNAPSHOT" /\ m_state # "CLOSED" /\ ~m_con
           /\ outbox' = Append(outbox, Request("snapshot", m_correlation, 0))
           /\ m_correlation' = m_correlation + 1 /\ inbox # <<>> /\ inbox' = Tail(inbox)
           /\ inbox[1].type = "login" /\ loop' = [pc |-> "notify", ret |-> "idle"]
           /\ loop.pc = "idle"
           /\ UNCHANGED <<m_initialized, m_store, m_rev, m_sessions_cid, program, reader, log,
                  sessions, data_stream, sessions_stream, told, m_requests, m_commands, next, at,
                  failed, future>>
BY Zenon DEF GotLogin, Got, LoginResp, SetState, Ask, replica

LEMMA SnapshotSends ==
    ASSUME GotSnapshot
    PROVE  /\ m_state' = "SYNCING" /\ m_state = "LOADING_SNAPSHOT" /\ m_rev' = inbox[1].rev
           /\ outbox' = Append(outbox, Request("updates", m_correlation, inbox[1].rev))
           /\ m_correlation' = m_correlation + 1 /\ inbox # <<>> /\ inbox' = Tail(inbox)
           /\ inbox[1].type = "snapshot" /\ loop' = [pc |-> "notify", ret |-> "idle"]
           /\ m_initialized' = TRUE /\ loop.pc = "idle"
           /\ UNCHANGED <<m_con, m_sessions_cid, program, log, sessions, data_stream,
                  sessions_stream, told, m_requests, m_commands, next, at, failed, future>>
BY Zenon DEF GotSnapshot, Got, SnapshotResp, SetState, Ask

LEMMA UpdatesIs ==
    ASSUME GotUpdates
    PROVE  /\ IF m_rev = inbox[1].crev
              THEN m_state' = "SYNCED" /\ loop' = [pc |-> "notify", ret |-> "idle"]
              ELSE UNCHANGED <<m_state, loop>>
           /\ m_state = "SYNCING" /\ told' = inbox[1].crev /\ inbox # <<>> /\ inbox' = Tail(inbox)
           /\ inbox[1].type = "updates" /\ loop.pc = "idle"
           /\ UNCHANGED <<m_con, m_initialized, m_store, m_rev, m_correlation, m_sessions_cid, program,
                  reader, log, sessions, data_stream, sessions_stream, outbox, m_requests,
                  m_commands, next, at, failed, future>>
BY Zenon DEF GotUpdates, Got, UpdatesResp, SetState, replica, wire

LEMMA PushDoes ==
    ASSUME GotPush
    PROVE  /\ IF Syncs(inbox[1])
              THEN m_state' = "SYNCED" /\ loop' = [pc |-> "notify", ret |-> "idle"]
              ELSE UNCHANGED <<m_state, loop>>
           /\ m_state # "CLOSED" /\ inbox # <<>> /\ inbox' = Tail(inbox) /\ loop.pc = "idle"
           /\ inbox[1].type = "updates_push"
           /\ UNCHANGED <<m_con, m_initialized, m_correlation, m_sessions_cid, program, log, sessions,
                  data_stream, sessions_stream, outbox, told, m_requests, m_commands, next, at,
                  failed, future>>
BY Zenon DEF GotPush, Got, UpdatesPush, SetState, wire

LEMMA ReplyIs ==
    ASSUME GotPing \/ GotSessions
    PROVE  /\ inbox' = Tail(inbox) \/ (inbox' = inbox /\ inbox[1].type = "sessions")
           /\ m_state # "CLOSED" /\ inbox # <<>> /\ inbox[1].type \in {"ping", "sessions"}
           /\ UNCHANGED <<m_state, m_con, m_initialized, m_store, m_rev, m_correlation, program,
                  reader, log, sessions, data_stream, sessions_stream, outbox, told, m_commands,
                  next, at, failed>>
<1>1. CASE GotPing
  <2>1. inbox[1].type \in {"ping", "sessions"}
    BY <1>1 DEF GotPing, Got
  <2> QED BY <1>1, <2>1, Zenon DEF GotPing, Got, PingResp, Answer, Ignore, session, replica, wire
<1>2. CASE GotSessions
  <2>1. inbox[1].type \in {"ping", "sessions"}
    BY <1>2 DEF GotSessions, Got
  <2> QED BY <1>2, <2>1, Zenon DEF GotSessions, Got, SessionsResp, Answer, Ignore, session, replica,
          wire
<1> QED BY <1>1, <1>2

LEMMA EventDoes ==
    ASSUME GotEvent
    PROVE  /\ m_state # "CLOSED" /\ inbox # <<>> /\ inbox[1].type = "sessions_push"
           /\ inbox' = Tail(inbox)
           /\ UNCHANGED <<m_state, m_con, m_initialized, m_store, m_rev, m_correlation, m_sessions_cid,
                  program, log, sessions, data_stream, sessions_stream, outbox, told, m_requests,
                  m_commands, loop, next, at, failed, future>>
BY Zenon DEF GotEvent, Got, SessionsPush, session, replica, wire

LEMMA ListDoes ==
    ASSUME InitialSessions
    PROVE  /\ inbox' = Tail(inbox) /\ loop.pc = "sessions" /\ loop' = [loop EXCEPT !.pc = "idle"]
           /\ UNCHANGED <<m_state, m_con, m_initialized, m_store, m_rev, m_correlation, m_sessions_cid,
                  program, log, sessions, data_stream, sessions_stream, outbox, told, m_requests,
                  m_commands, next, at, failed, future>>
BY Zenon DEF InitialSessions, At, To, session, replica, mainrest

LEMMA SendsIs ==
    ASSUME TypeOK, Sends
    PROVE  /\ \E kind \in Fetches \cup {"ping"} :
                /\ kind = m_commands[1].kind
                /\ outbox' = Append(outbox, Request(kind, m_correlation, 0))
                /\ m_requests' = Append(m_requests, [kind |-> kind, cid |-> m_correlation])
           /\ m_correlation' = m_correlation + 1 /\ m_con /\ loop.pc = "commands"
           /\ m_commands # <<>> /\ m_commands' = Tail(m_commands)
           /\ UNCHANGED <<m_state, m_con, m_initialized, m_store, m_rev, m_sessions_cid, program,
                  reader, log, sessions, data_stream, sessions_stream, inbox, told, loop, future,
                  next, at, failed>>
<1> DEFINE cmd == Head(m_commands)
<1>1. /\ m_commands # <<>> /\ cmd.kind # "close"
      /\ outbox' = Append(outbox, Request(cmd.kind, m_correlation, 0))
      /\ m_requests' = Append(m_requests, [cmd EXCEPT !.cid = m_correlation])
  BY Zenon DEF Sends, SendRequest, IsClose
<1>2. IsSeq(m_commands) /\ \A i \in 1 .. Len(m_commands) : m_commands[i] \in Commands
  BY SeqIs DEF TypeOK, ClientTypes
<1>3. cmd = m_commands[1] /\ cmd \in Commands
  BY <1>1, <1>2, TailIs
<1>4. cmd.kind \in Fetches \cup {"ping"}
  BY <1>1, <1>3 DEF Commands, Kinds
<1>5. [cmd EXCEPT !.cid = m_correlation] = [kind |-> cmd.kind, cid |-> m_correlation]
  BY <1>3 DEF Commands
<1> HIDE DEF cmd
<1>6. \E kind \in Fetches \cup {"ping"} :
                /\ kind = m_commands[1].kind
                /\ outbox' = Append(outbox, Request(kind, m_correlation, 0))
                /\ m_requests' = Append(m_requests, [kind |-> kind, cid |-> m_correlation])
  BY <1>1, <1>3, <1>4, <1>5
<1> QED BY <1>6, Zenon DEF Sends, SendRequest

(* What the server does, variable by variable.                             *)
Say1(m) == inbox' = Append(inbox, m) /\ MsgOK(m, log) /\ m.crev = Len(log)
ServerRest ==
    UNCHANGED <<m_state, m_con, m_initialized, m_store, m_rev, m_correlation, m_sessions_cid, program,
                reader, told, m_requests, m_commands, loop, next, at, failed, future>>
Answers(req, m) ==
    \/ req.type \in {"login", "ping", "snapshot"} /\ m.type = req.type
       /\ UNCHANGED <<data_stream, sessions_stream>>
    \/ req.type = "updates" /\ m.type = "updates"
       /\ data_stream' = [cid |-> req.cid, rev |-> req.rev] /\ UNCHANGED sessions_stream
    \/ req.type \in Fetches /\ m.type = "sessions" /\ m.cid = req.cid
       /\ m.data = {Active(s) : s \in sessions}
       /\ sessions_stream' = (IF req.type = "fetch_stream" THEN req.cid ELSE Null)
       /\ UNCHANGED data_stream

LEMMA ServerStill ==
    ASSUME Serves
    PROVE  ServerRest
BY Zenon DEF Serves, ServerAnswer, ServerPush, ServerCommit, SessionEvent, served, clientvars, mainvars,
   ServerRest

LEMMA AnswerIs ==
    ASSUME TypeOK, ServerAnswer
    PROVE  /\ outbox # <<>> /\ outbox' = Tail(outbox) /\ UNCHANGED <<log, sessions>>
           /\ \E m : Say1(m) /\ Answers(outbox[1], m)
<1> DEFINE req == outbox[1]
<1>1. outbox # <<>> /\ outbox' = Tail(outbox) /\ UNCHANGED <<log, sessions>>
  BY Zenon DEF ServerAnswer
<1>2. IsSeq(outbox) /\ \A i \in 1 .. Len(outbox) : outbox[i] \in Requests
  BY SeqIs DEF TypeOK, ServerTypes
<1>3. Head(outbox) = req /\ req \in Requests /\ req.cid \in Nat
  BY <1>1, <1>2, TailIs DEF Requests
<1>4. Len(log) \in Nat /\ Len(log) > 0 /\ Len(log) \in 1 .. Len(log)
  BY EmptyLen DEF TypeOK, ServerTypes
<1>5. CASE /\ req.type \in {"login", "ping"} /\ Say(Msg(req.type, req.cid, 0, {}))
           /\ UNCHANGED <<data_stream, sessions_stream>>
  <2> DEFINE m == Msg(req.type, req.cid, 0, {})
  <2>1. m.type = req.type /\ m.cid = req.cid /\ m.crev = Len(log)
    BY DEF Msg, crev
  <2>2. MsgOK(m, log)
    BY <1>3, <1>4, <1>5, <2>1 DEF MsgOK, MsgTypes
  <2>3. inbox' = Append(inbox, m)
    BY <1>5 DEF Say
  <2> HIDE DEF m
  <2>4. Say1(m) /\ Answers(req, m)
    BY <1>5, <2>1, <2>2, <2>3 DEF Say1, Answers
  <2> QED BY <1>1, <2>4
<1>6. CASE /\ req.type = "snapshot"
           /\ \E rev \in 1 .. crev : Say(Msg("snapshot", req.cid, rev, log[rev]))
           /\ UNCHANGED <<data_stream, sessions_stream>>
  <2>1. PICK rev \in 1 .. Len(log) : Say(Msg("snapshot", req.cid, rev, log[rev]))
    BY <1>6 DEF crev
  <2> DEFINE m == Msg("snapshot", req.cid, rev, log[rev])
  <2>2. /\ m.type = "snapshot" /\ m.cid = req.cid /\ m.crev = Len(log) /\ m.rev = rev
        /\ m.data = log[rev]
    BY DEF Msg, crev
  <2>3. MsgOK(m, log)
    BY <1>3, <1>4, <2>1, <2>2 DEF MsgOK, MsgTypes
  <2>4. inbox' = Append(inbox, m)
    BY <2>1 DEF Say
  <2> HIDE DEF m
  <2>5. Say1(m) /\ Answers(req, m)
    BY <1>6, <2>2, <2>3, <2>4 DEF Say1, Answers
  <2> QED BY <1>1, <2>5
<1>7. CASE /\ req.type = "updates" /\ Say(Msg("updates", req.cid, 0, {}))
           /\ data_stream' = [cid |-> req.cid, rev |-> req.rev]
           /\ UNCHANGED sessions_stream
  <2> DEFINE m == Msg("updates", req.cid, 0, {})
  <2>1. m.type = "updates" /\ m.cid = req.cid /\ m.crev = Len(log)
    BY DEF Msg, crev
  <2>2. MsgOK(m, log)
    BY <1>3, <1>4, <2>1 DEF MsgOK, MsgTypes
  <2>3. inbox' = Append(inbox, m)
    BY <1>7 DEF Say
  <2> HIDE DEF m
  <2>4. Say1(m) /\ Answers(req, m)
    BY <1>7, <2>1, <2>2, <2>3 DEF Say1, Answers
  <2> QED BY <1>1, <2>4
<1>8. CASE /\ req.type \in {"fetch", "fetch_stream"}
           /\ Say(Msg("sessions", req.cid, 0, {Active(s) : s \in sessions}))
           /\ sessions_stream' = (IF req.type = "fetch_stream" THEN req.cid ELSE Null)
           /\ UNCHANGED data_stream
  <2> DEFINE list == {Active(s) : s \in sessions}
             m == Msg("sessions", req.cid, 0, list)
  <2>1. m.type = "sessions" /\ m.cid = req.cid /\ m.crev = Len(log) /\ m.data = list
    BY DEF Msg, crev
  <2>2. list \in SUBSET Events
    BY DEF TypeOK, ServerTypes, Active, Events
  <2> HIDE DEF list
  <2>3. MsgOK(m, log)
    BY <1>3, <1>4, <2>1, <2>2 DEF MsgOK, MsgTypes
  <2>4. inbox' = Append(inbox, m)
    BY <1>8 DEF Say, list
  <2> HIDE DEF m
  <2>5. Say1(m) /\ Answers(req, m)
    BY <1>8, <2>1, <2>3, <2>4 DEF Say1, Answers, list, Fetches
  <2> QED BY <1>1, <2>5
<1> QED BY <1>3, <1>5, <1>6, <1>7, <1>8, Zenon DEF ServerAnswer

LEMMA ServerPushIs ==
    ASSUME TypeOK, Stream, ServerPush
    PROVE  /\ data_stream # Null /\ data_stream.rev \in Nat /\ data_stream.rev < Len(log)
           /\ data_stream' = [cid |-> data_stream.cid, rev |-> data_stream.rev + 1]
           /\ data_stream.cid \in Nat
           /\ UNCHANGED <<log, sessions, sessions_stream, outbox>>
           /\ \E m : Say1(m) /\ m.type = "updates_push" /\ m.rev = data_stream.rev + 1
<1>1. data_stream # Null /\ data_stream.rev < Len(log)
  BY DEF ServerPush, crev
<1>2. data_stream \in [cid : Nat, rev : Nat]
  BY <1>1 DEF TypeOK, ServerTypes
<1>3. data_stream.rev \in Nat /\ data_stream.cid \in Nat
  BY <1>2
<1>4. data_stream' = [cid |-> data_stream.cid, rev |-> data_stream.rev + 1]
  BY <1>2 DEF ServerPush
<1>5. Len(log) \in Nat
  BY EmptyLen DEF TypeOK, ServerTypes
<1>6. data_stream.rev >= 1
  <2>1. m_initialized /\ data_stream.rev \in m_rev .. Len(log)
    BY <1>1 DEF Stream, Streaming
  <2>2. m_rev \in 1 .. Len(log)
    BY <2>1 DEF Stream, Copy
  <2> QED BY <1>5, <2>1, <2>2
<1> DEFINE rev == data_stream.rev + 1
           m == Msg("updates_push", data_stream.cid, rev, Delta(log[rev - 1], log[rev]))
<1>7. /\ m.type = "updates_push" /\ m.cid = data_stream.cid /\ m.crev = Len(log) /\ m.rev = rev
      /\ m.data = Delta(log[rev - 1], log[rev])
  BY DEF Msg, crev
<1>8. inbox' = Append(inbox, m)
  BY DEF ServerPush, Say
<1> HIDE DEF m
<1>9. rev \in 2 .. Len(log) /\ Len(log) \in 1 .. Len(log)
  BY <1>1, <1>3, <1>5, <1>6
<1>10. MsgOK(m, log)
  BY <1>3, <1>7, <1>9 DEF MsgOK, MsgTypes
<1>11. Say1(m)
  BY <1>7, <1>8, <1>10 DEF Say1
<1>12. UNCHANGED <<log, sessions, sessions_stream, outbox>>
  BY Zenon DEF ServerPush
<1> QED BY <1>1, <1>3, <1>4, <1>7, <1>11, <1>12

LEMMA CommitIs ==
    ASSUME TypeOK, ServerCommit
    PROVE  /\ UNCHANGED <<sessions, data_stream, sessions_stream, outbox, inbox>>
           /\ \E c : IsFcn(c, Data) /\ log' = Append(log, c)
<1>1. Len(log) \in Nat /\ Len(log) > 0 /\ Len(log) <= Len(Commits)
  BY EmptyLen DEF TypeOK, ServerTypes, ServerCommit, crev
<1>2. Len(Commits) \in Nat
  BY DataAssumption, LenProperties
<1>3. Len(log) \in 1 .. Len(Commits) /\ Len(log) \in 1 .. Len(log)
  BY <1>1, <1>2
<1>4. IsFcn(log[Len(log)], Data)
  BY <1>3 DEF TypeOK, ServerTypes
<1>5. IsFcn(Apply(Commits[Len(log)], log[Len(log)]), Data)
  BY <1>3, <1>4, CommitFcn
<1>6. log' = Append(log, Apply(Commits[Len(log)], log[Len(log)]))
  BY DEF ServerCommit, crev
<1>7. UNCHANGED <<sessions, data_stream, sessions_stream, outbox, inbox>>
  BY Zenon DEF ServerCommit
<1> QED BY <1>5, <1>6, <1>7

Toggles(s, e) ==
    /\ e \in Events /\ e.user = s
    /\ (e.code = "CONNECTED") = (s \notin sessions) /\ (e.code = "CONNECTED") = (e.until = 0)
    /\ sessions' = IF e.code = "CONNECTED" THEN sessions \cup {s} ELSE sessions \ {s}
LEMMA SessionEventIs ==
    ASSUME TypeOK, SessionEvent
    PROVE  /\ UNCHANGED <<log, data_stream, sessions_stream, outbox>> /\ sessions' \in SUBSET Users
           /\ \/ sessions_stream = Null /\ inbox' = inbox
              \/ /\ sessions_stream # Null
                 /\ \E m : /\ Say1(m) /\ m.type = "sessions_push"
                           /\ \E s \in Others : Toggles(s, m.data)
<1>1. PICK s \in Others :
        LET comes == s \notin sessions
            event == [user |-> s, code |-> IF comes THEN "CONNECTED" ELSE "CON_LOST",
                      until |-> IF comes THEN 0 ELSE 1]
        IN /\ sessions' = IF comes THEN sessions \cup {s} ELSE sessions \ {s}
           /\ inbox' = IF sessions_stream = Null THEN inbox
                       ELSE Append(inbox, Msg("sessions_push", sessions_stream, 0, event))
  BY Zenon DEF SessionEvent
<1> DEFINE comes == s \notin sessions
           e == [user |-> s, code |-> IF comes THEN "CONNECTED" ELSE "CON_LOST",
                 until |-> IF comes THEN 0 ELSE 1]
           m == Msg("sessions_push", sessions_stream, 0, e)
<1>2. /\ e \in Events /\ e.user = s /\ (e.code = "CONNECTED") = comes
      /\ (e.code = "CONNECTED") = (e.until = 0)
  BY DEF Events, Users
<1>3. sessions' = IF e.code = "CONNECTED" THEN sessions \cup {s} ELSE sessions \ {s}
  BY <1>1, <1>2
<1>4. sessions' \in SUBSET Users
  BY <1>1 DEF TypeOK, ServerTypes, Users
<1>5. Toggles(s, e)
  <2> HIDE DEF e
  <2> QED BY <1>2, <1>3 DEF Toggles
<1>6. UNCHANGED <<log, data_stream, sessions_stream, outbox>>
  BY Zenon DEF SessionEvent
<1>7. CASE sessions_stream = Null
  BY <1>1, <1>4, <1>6, <1>7
<1>8. CASE sessions_stream # Null
  <2>1. inbox' = Append(inbox, m)
    BY <1>1, <1>8
  <2>e. Len(log) \in 1 .. Len(log) /\ sessions_stream \in Nat
    BY <1>8, EmptyLen DEF TypeOK, ServerTypes
  <2> HIDE DEF e
  <2>2. m.type = "sessions_push" /\ m.data = e /\ m.crev = Len(log) /\ m.cid = sessions_stream
    BY DEF Msg, crev
  <2> HIDE DEF m
  <2>3. MsgOK(m, log)
    BY <1>2, <2>2, <2>e DEF MsgOK, MsgTypes
  <2>4. Say1(m) /\ m.type = "sessions_push" /\ Toggles(s, m.data)
    BY <1>5, <2>1, <2>2, <2>3 DEF Say1
  <2> QED BY <1>4, <1>6, <1>8, <2>4
<1> QED BY <1>7, <1>8

-----------------------------------------------------------------------------
(* Types, the rest.                                                        *)
CopyTypes ==
    /\ m_state \in States /\ m_con \in BOOLEAN /\ m_initialized \in BOOLEAN
    /\ m_rev \in Nat /\ IsFcn(m_store, Values)
    /\ m_correlation \in Nat /\ m_sessions_cid \in Nat
LEMMA TypeOKIs ==
    TypeOK <=> CopyTypes /\ QueueTypes /\ MainTypes /\ ReaderTypes /\ ServerTypes /\ MsgTypesOK
BY DEF TypeOK, ClientTypes, CopyTypes, QueueTypes

LEMMA RequestTyped ==
    ASSUME NEW q \in Seq(Requests), NEW type, NEW cid \in Nat, NEW rev \in Nat,
           type \in {"login", "snapshot", "updates", "ping"} \cup Fetches
    PROVE  Append(q, Request(type, cid, rev)) \in Seq(Requests)
<1>1. Request(type, cid, rev) \in Requests
  BY DEF Request, Requests
<1> QED BY <1>1, AppendProperties

LEMMA CopyTypesKept ==
    ASSUME TypeOK, Stream, [Next]_vars
    PROVE  CopyTypes'
<1>1. CopyTypes /\ QueueTypes /\ IsSeq(log) /\ IsSeq(inbox)
  BY TypeOKIs DEF TypeOK, ServerTypes
<1> USE <1>1
<1>2. CASE Still
  BY <1>2 DEF Still, copyvars, CopyTypes
<1>3. CASE Ends
  BY <1>3 DEF Ends, CopyTypes, States
<1>4. CASE Sends
  BY <1>4, SendsIs DEF CopyTypes
<1>5. CASE GotLogin
  BY <1>5, LoginIs DEF CopyTypes, States
<1>6. CASE GotSnapshot
  <2>1. m_rev' \in Nat
    BY <1>6, SnapshotIs, EmptyLen
  <2> QED BY <1>6, <2>1, SnapshotIs, SnapshotSends DEF CopyTypes, States
<1>7. CASE GotUpdates
  BY <1>7, UpdatesIs DEF CopyTypes, States
<1>8. CASE GotPush
  <2>1. m_rev' \in Nat /\ IsFcn(m_store', Values)
    BY <1>8, PushIs, EmptyLen
  <2>2. m_state' \in States
    BY <1>8, PushDoes DEF CopyTypes, States
  <2> QED BY <1>8, <2>1, <2>2, PushDoes DEF CopyTypes
<1>9. CASE GotPing \/ GotSessions
  <2>1. m_sessions_cid' \in Nat
    <3>1. CASE m_sessions_cid' = m_sessions_cid
      BY <3>1 DEF CopyTypes
    <3>2. CASE m_requests # <<>> /\ m_sessions_cid' = StreamCid(Head(m_requests))
      <4>1. Head(m_requests) \in Commands
        BY <3>2, HeadTailProperties DEF QueueTypes
      <4> QED BY <3>2, <4>1 DEF StreamCid, Commands
    <3> QED BY <1>9, <3>1, <3>2, Zenon DEF GotPing, GotSessions, PingResp, SessionsResp, Answered, Ignore,
            session
  <2> QED BY <1>9, <2>1, ReplyIs DEF CopyTypes
<1>10. CASE GotEvent
  BY <1>10, EventDoes DEF CopyTypes
<1>11. CASE InitialSessions
  BY <1>11, ListDoes DEF CopyTypes
<1>12. CASE Serves
  BY <1>12, ServerStill DEF ServerRest, CopyTypes
<1> QED BY <1>2, <1>3, <1>4, <1>5, <1>6, <1>7, <1>8, <1>9, <1>10, <1>11, <1>12, StepCases

LEMMA ReaderTypesKept ==
    ASSUME TypeOK, Stream, [Next]_vars
    PROVE  ReaderTypes'
<1>1. ReaderTypes /\ reader.listed \in BOOLEAN /\ reader.puzzled \in BOOLEAN
  BY DEF TypeOK, ReaderTypes
<1>2. CASE reader' = reader
  BY <1>1, <1>2 DEF ReaderTypes
<1>3. ASSUME NEW data, NEW rev, NEW sess, NEW listed \in BOOLEAN, NEW puzzled \in BOOLEAN,
             Read(data, rev, sess, listed, puzzled)
      PROVE  ReaderTypes'
  BY <1>3, ReadFields
<1>4. CASE GotSnapshot
  BY <1>1, <1>2, <1>3, <1>4, SnapshotIs
<1>5. CASE GotPush
  BY <1>1, <1>2, <1>3, <1>5, PushIs
<1>6. CASE GotEvent
  <2>1. CASE PrintsSessions
    <3> DEFINE e == inbox[1].data
               comes == e.code = "CONNECTED"
               s == IF comes THEN reader.sessions \cup {e.user} ELSE reader.sessions \ {e.user}
               p == reader.puzzled \/ comes = (e.user \in reader.sessions) \/ comes = (e.until # 0)
    <3>1. Read(reader.data, reader.rev, s, reader.listed, p)
      BY <1>6, <2>1, EventIs
    <3>2. p \in BOOLEAN
      BY <1>1
    <3> HIDE DEF s, p
    <3> QED BY <1>1, <1>3, <3>1, <3>2
  <2>2. CASE ~PrintsSessions
    BY <1>2, <1>6, <2>2, EventIs
  <2> QED BY <2>1, <2>2
<1>7. CASE InitialSessions
  BY <1>1, <1>2, <1>3, <1>7, ListIs
<1>8. CASE Still \/ Ends \/ Sends \/ GotLogin \/ GotUpdates \/ GotPing \/ GotSessions \/ Serves
  <2>1. reader' = reader
    BY <1>8, SendsIs, LoginIs, UpdatesIs, ReplyIs, ServerStill DEF Still, copyvars, Ends, ServerRest
  <2> QED BY <1>2, <2>1
<1> QED BY <1>4, <1>5, <1>6, <1>7, <1>8, StepCases

WireTypes == outbox \in Seq(Requests) /\ IsSeq(inbox) /\ MsgTypesOK
LEMMA WireTypesKept ==
    ASSUME TypeOK, Standing, Stream, [Next]_vars
    PROVE  WireTypes'
<1>1. /\ outbox \in Seq(Requests) /\ IsSeq(inbox) /\ MsgsOK(inbox, log) /\ IsSeq(log)
      /\ m_correlation \in Nat
  BY DEF TypeOK, ClientTypes, ServerTypes, MsgTypesOK
<1>2. inbox # <<>> => IsSeq(Tail(inbox)) /\ MsgsOK(Tail(inbox), log)
  BY <1>1, TailIs, MsgsTail
<1>3. IsSeq(<<>>) /\ MsgsOK(<<>>, log) /\ <<>> \in Seq(Requests)
  BY EmptyIs, EmptySeq DEF MsgsOK
<1>4. \A m : Say1(m) => IsSeq(inbox') /\ MsgsOK(inbox', log)
  BY <1>1, AppendIs, MsgsAppend DEF Say1
<1>5. WireTypes' <=> outbox' \in Seq(Requests) /\ IsSeq(inbox') /\ MsgsOK(inbox', log')
  BY DEF WireTypes, MsgTypesOK
<1>6. CASE Still
  BY <1>1, <1>5, <1>6 DEF Still, copyvars
<1>7. CASE Ends
  BY <1>1, <1>2, <1>3, <1>5, <1>7 DEF Ends
<1>8. CASE Sends
  BY <1>1, <1>5, <1>8, SendsIs, RequestTyped
<1>9. CASE GotLogin
  BY <1>1, <1>2, <1>5, <1>9, LoginIs, RequestTyped
<1>10. CASE GotSnapshot
  <2>1. inbox[1].rev \in Nat
    BY <1>1, <1>10, SnapshotIs, EmptyLen
  <2> QED BY <1>1, <1>2, <1>5, <1>10, <2>1, SnapshotSends, RequestTyped
<1>11. CASE GotUpdates
  BY <1>1, <1>2, <1>5, <1>11, UpdatesIs
<1>12. CASE GotPush
  BY <1>1, <1>2, <1>5, <1>12, PushDoes
<1>13. CASE GotPing \/ GotSessions
  BY <1>1, <1>2, <1>5, <1>13, ReplyIs
<1>14. CASE GotEvent
  BY <1>1, <1>2, <1>5, <1>14, EventDoes
<1>15. CASE InitialSessions
  BY <1>1, <1>2, <1>5, <1>15, ListDoes DEF Standing
<1>16. CASE ServerAnswer
  <2>1. Tail(outbox) \in Seq(Requests)
    BY <1>1, <1>16, AnswerIs, HeadTailProperties
  <2> QED BY <1>1, <1>4, <1>5, <1>16, <2>1, AnswerIs
<1>17. CASE ServerPush
  BY <1>1, <1>4, <1>5, <1>17, ServerPushIs
<1>18. CASE ServerCommit
  BY <1>1, <1>5, <1>18, CommitIs, MsgsGrown
<1>19. CASE SessionEvent
  BY <1>1, <1>4, <1>5, <1>19, SessionEventIs
<1> QED BY <1>6, <1>7, <1>8, <1>9, <1>10, <1>11, <1>12, <1>13, <1>14, <1>15, <1>16, <1>17, <1>18, <1>19,
        StepCases DEF Serves

LEMMA ServerTypesKept ==
    ASSUME TypeOK, Standing, Stream, [Next]_vars
    PROVE  ServerTypes'
<1>1. ServerTypes /\ IsSeq(log) /\ IsSeq(inbox) /\ MsgsOK(inbox, log)
  BY DEF TypeOK, ServerTypes, MsgTypesOK
<1>2. outbox' \in Seq(Requests) /\ IsSeq(inbox')
  BY WireTypesKept DEF WireTypes
<1> DEFINE Logs == IsSeq(log) /\ Len(log) > 0 /\ \A i \in 1 .. Len(log) : IsFcn(log[i], Data)
           Streams == /\ sessions \in SUBSET Users /\ sessions_stream \in {Null} \cup Nat
                      /\ data_stream \in {Null} \cup [cid : Nat, rev : Nat] /\ told \in Nat
<1>3. Logs /\ Streams
  BY <1>1 DEF ServerTypes
<1>4. Logs' /\ Streams' => ServerTypes'
  BY <1>2 DEF ServerTypes
<1>5. ASSUME UNCHANGED <<log, sessions, sessions_stream, data_stream, told>>
      PROVE  ServerTypes'
  BY <1>3, <1>4, <1>5
<1>6. CASE Still \/ Sends \/ GotLogin \/ GotSnapshot \/ GotPush \/ GotPing \/ GotSessions \/ GotEvent
           \/ InitialSessions
  <2>1. UNCHANGED <<log, sessions, sessions_stream, data_stream, told>>
    BY <1>6, SendsIs, LoginIs, SnapshotSends, PushDoes, ReplyIs, EventDoes, ListDoes DEF Still, copyvars
  <2> QED BY <1>5, <2>1
<1>7. CASE Ends
  BY <1>3, <1>4, <1>7 DEF Ends
<1>8. CASE GotUpdates
  <2>1. inbox[1].crev \in Nat
    BY <1>1, <1>8, UpdatesIs, MsgsTail, EmptyLen DEF MsgOK
  <2> QED BY <1>3, <1>4, <1>8, <2>1, UpdatesIs
<1>9. CASE ServerAnswer
  <2>1. UNCHANGED <<log, sessions, told>>
    BY <1>9, AnswerIs, ServerStill DEF Serves, ServerRest
  <2>2. outbox[1] \in Requests
    BY <1>9, AnswerIs, SeqIs, TailIs DEF TypeOK, ServerTypes
  <2>3. outbox[1].cid \in Nat /\ outbox[1].rev \in Nat
    BY <2>2 DEF Requests
  <2>4. sessions_stream' \in {sessions_stream, outbox[1].cid, Null}
        /\ data_stream' \in {data_stream, [cid |-> outbox[1].cid, rev |-> outbox[1].rev]}
    BY <1>9, AnswerIs DEF Answers
  <2> QED BY <1>3, <1>4, <2>1, <2>3, <2>4
<1>10. CASE ServerPush
  <2>1. UNCHANGED <<log, sessions, sessions_stream, told>>
    BY <1>10, ServerPushIs, ServerStill DEF Serves, ServerRest
  <2>2. data_stream' \in [cid : Nat, rev : Nat]
    BY <1>10, ServerPushIs
  <2> QED BY <1>3, <1>4, <2>1, <2>2
<1>11. CASE ServerCommit
  <2>1. UNCHANGED <<sessions, sessions_stream, data_stream, told>>
    BY <1>11, CommitIs, ServerStill DEF Serves, ServerRest
  <2>2. PICK c : IsFcn(c, Data) /\ log' = Append(log, c)
    BY <1>11, CommitIs
  <2>3. IsSeq(log') /\ Len(log') > 0
    BY <1>1, <2>2, AppendIs
  <2>4. ASSUME NEW i \in 1 .. Len(log')
        PROVE  IsFcn(log'[i], Data)
    <3>1. i \in 1 .. Len(log) \/ i = Len(log) + 1
      BY <1>1, <2>2, AppendIs
    <3> QED BY <1>1, <1>3, <2>2, <3>1, AppendIs
  <2> QED BY <1>3, <1>4, <2>1, <2>3, <2>4
<1>12. CASE SessionEvent
  <2>1. UNCHANGED <<log, sessions_stream, data_stream, told>> /\ sessions' \in SUBSET Users
    BY <1>12, SessionEventIs, ServerStill DEF Serves, ServerRest
  <2> QED BY <1>3, <1>4, <2>1
<1> QED BY <1>6, <1>7, <1>8, <1>9, <1>10, <1>11, <1>12, StepCases DEF Serves

(* The future of the last request: it is broken, or it gets its value.     *)
LEMMA LoopFuture ==
    ASSUME [Next]_vars, ~(MainStep \/ Signal), TypeOK
    PROVE  \/ UNCHANGED future
           \/ future = "pending" /\ future' = "exception"
           \/ /\ future' = "value" /\ Got("ping") /\ Answered(inbox[1])
           \/ /\ future' = "value" /\ Got("sessions") /\ Answered(inbox[1]) /\ loop'.pc = "sessions"
<1>1. CASE UNCHANGED vars
  BY <1>1, Zenon DEF vars, mainvars
<1>2. CASE Serves
  BY <1>2, ServerStill DEF ServerRest
<1>3. CASE LoopStep
  <2>1. \A list : Broken(list) => UNCHANGED future \/ (future = "pending" /\ future' = "exception")
    BY DEF Broken
  <2> QED BY <1>3, <2>1, Zenon DEF LoopStep, Notify, ClearLists, AbortEnds, RunEnds, WakeUp, PopCommand,
          SendRequest, CommandsDone, InitialSessions
<1>4. CASE Interrupt \/ ConnectionClosed
  BY <1>4 DEF Interrupt, ConnectionClosed, Broken
<1>5. CASE Receive
  <2>1. CASE Ends
    BY <2>1 DEF Ends
  <2>2. CASE GotLogin \/ GotSnapshot \/ GotUpdates \/ GotPush \/ GotEvent
    BY <2>2, LoginIs, SnapshotSends, UpdatesIs, PushDoes, EventDoes
  <2>3. CASE GotPing
    BY <2>3, Zenon DEF GotPing, PingResp, Ignore, Answer
  <2>4. CASE GotSessions
    <3>1. CASE ~Answered(inbox[1])
      BY <2>4, <3>1, Zenon DEF GotSessions, SessionsResp, Ignore
    <3>2. CASE Answered(inbox[1])
      <4>1. loop' = [pc |-> "sessions", ret |-> "idle"] /\ future' = "value"
        BY <2>4, <3>2, Zenon DEF GotSessions, SessionsResp, Answer
      <4> QED BY <2>4, <3>2, <4>1 DEF GotSessions
    <3> QED BY <3>1, <3>2
  <2> QED BY <1>5, <2>1, <2>2, <2>3, <2>4, ReceiveCases
<1> QED BY <1>1, <1>2, <1>3, <1>4, <1>5 DEF Next, Serves

LEMMA TypeKept ==
    ASSUME TypeOK, Calls, Standing, Stream, [Next]_vars
    PROVE  TypeOK'
<1>1. MainTypes
  BY DEF TypeOK
<1>2. future' \in {"none", "pending", "value", "exception"}
  <2>1. CASE MainStep \/ Signal
    BY <1>1, <2>1, MainMoves DEF KeepsFuture, MainTypes
  <2>2. CASE ~(MainStep \/ Signal)
    BY <1>1, <2>2, LoopFuture DEF MainTypes
  <2> QED BY <2>1, <2>2
<1>3. MainTypes'
  BY <1>1, <1>2, CallsKept DEF MainTypes
<1>4. CopyTypes' /\ QueueTypes' /\ ReaderTypes' /\ ServerTypes' /\ MsgTypesOK'
  BY CopyTypesKept, QueueTypesKept, ReaderTypesKept, ServerTypesKept, WireTypesKept DEF WireTypes
<1> QED BY <1>3, <1>4 DEF TypeOK, ClientTypes, CopyTypes, QueueTypes

-----------------------------------------------------------------------------
(* The state of the client and its connection.                             *)
Footing ==
    /\ m_state = "CLOSED" =>
        ~m_con /\ outbox = <<>> /\ data_stream = Null /\ sessions_stream = Null
    /\ m_state = "CONNECTING" => ~m_con
    /\ m_state \notin {"CONNECTING", "CLOSED"} => m_con
    /\ m_state \in {"SYNCING", "SYNCED"} => m_initialized
LEMMA FootingKept ==
    ASSUME TypeOK, Standing, Stream, [Next]_vars
    PROVE  Footing'
<1>1. Footing /\ m_state \in States /\ m_con \in BOOLEAN
  BY DEF Standing, Footing, TypeOK, ClientTypes
<1>2. CASE Still
  BY <1>1, <1>2 DEF Still, copyvars, Footing
<1>3. CASE Ends
  BY <1>3 DEF Ends, Footing
<1>4. CASE Sends
  BY <1>1, <1>4, SendsIs DEF Footing
<1>5. CASE GotLogin
  BY <1>5, LoginIs DEF Footing
<1>6. CASE GotSnapshot
  BY <1>1, <1>6, SnapshotSends DEF Footing
<1>7. CASE GotUpdates
  BY <1>1, <1>7, UpdatesIs DEF Footing
<1>8. CASE GotPush
  <2>1. m_initialized /\ m_state' \in {m_state, "SYNCED"} /\ (m_state' # m_state => m_state = "SYNCING")
    BY <1>8, PushIsNext, PushDoes DEF Syncs
  <2> QED BY <1>1, <1>8, <2>1, PushDoes DEF Footing
<1>9. CASE GotPing \/ GotSessions
  BY <1>1, <1>9, ReplyIs DEF Footing
<1>10. CASE GotEvent
  BY <1>1, <1>10, EventDoes DEF Footing
<1>11. CASE InitialSessions
  BY <1>1, <1>11, ListDoes DEF Footing
<1>12. CASE ServerAnswer
  <2>1. m_state # "CLOSED"
    BY <1>1, <1>12, AnswerIs DEF Footing
  <2>2. UNCHANGED <<m_state, m_con, m_initialized>>
    BY <1>12, ServerStill DEF Serves, ServerRest
  <2> QED BY <1>1, <2>1, <2>2 DEF Footing
<1>13. CASE ServerPush
  <2>1. m_state # "CLOSED"
    BY <1>1, <1>13, ServerPushIs DEF Footing
  <2>2. UNCHANGED <<m_state, m_con, m_initialized>>
    BY <1>13, ServerStill DEF Serves, ServerRest
  <2> QED BY <1>1, <2>1, <2>2 DEF Footing
<1>14. CASE ServerCommit
  <2>1. UNCHANGED <<m_state, m_con, m_initialized, outbox, data_stream, sessions_stream>>
    BY <1>14, CommitIs, ServerStill DEF Serves, ServerRest
  <2> QED BY <1>1, <2>1 DEF Footing
<1>15. CASE SessionEvent
  <2>1. UNCHANGED <<m_state, m_con, m_initialized, outbox, data_stream, sessions_stream>>
    BY <1>15, SessionEventIs, ServerStill DEF Serves, ServerRest
  <2> QED BY <1>1, <2>1 DEF Footing
<1> QED BY <1>2, <1>3, <1>4, <1>5, <1>6, <1>7, <1>8, <1>9, <1>10, <1>11, <1>12, <1>13, <1>14, <1>15,
        StepCases DEF Serves

(* Where the loop is.                                                      *)
Whereabouts ==
    /\ loop.pc \in Over => m_state = "CLOSED"
    /\ loop.pc = "sessions" => inbox # <<>> /\ inbox[1].type = "sessions"
LEMMA AppendHead ==
    ASSUME NEW q, IsSeq(q), q # <<>>, NEW m
    PROVE  Append(q, m) # <<>> /\ Append(q, m)[1] = q[1]
<1>1. Len(q) \in Nat /\ Len(q) > 0 /\ 1 \in 1 .. Len(q)
  BY EmptyLen
<1>2. Append(q, m)[1] = q[1] /\ Len(Append(q, m)) > 0
  BY <1>1, AppendIs
<1> QED BY <1>2, EmptyIs

LEMMA WhereaboutsKept ==
    ASSUME TypeOK, Standing, Stream, [Next]_vars
    PROVE  Whereabouts'
<1>1. Whereabouts /\ IsSeq(inbox) /\ loop = [pc |-> loop.pc, ret |-> loop.ret]
  BY DEF Standing, Whereabouts, TypeOK, ClientTypes, ServerTypes
<1>2. "clear" \in Over /\ "idle" \notin Over /\ "notify" \notin Over /\ "sessions" \notin Over
  BY DEF Over
<1>3. CASE Still /\ Turns
  <2>1. UNCHANGED <<m_state, inbox>>
    BY <1>3 DEF Still, copyvars
  <2> QED BY <1>1, <1>3, <2>1 DEF Whereabouts, Turns
<1>4. CASE Ends
  BY <1>4 DEF Ends, Whereabouts
<1>5. CASE Sends
  BY <1>1, <1>5, SendsIs DEF Whereabouts
<1>6. CASE GotLogin \/ GotSnapshot
  <2>1. loop' = [pc |-> "notify", ret |-> "idle"]
    BY <1>6, LoginIs, SnapshotSends
  <2> QED BY <1>2, <2>1 DEF Whereabouts
<1>7. CASE GotUpdates \/ GotPush \/ GotPing \/ GotEvent
  <2>1. loop.pc = "idle" /\ (UNCHANGED loop \/ loop' = [pc |-> "notify", ret |-> "idle"])
    BY <1>7, UpdatesIs, PushDoes, EventDoes, Zenon DEF GotPing, PingResp, Answer, Ignore, Got, GotEvent
  <2>2. loop'.pc \in {"idle", "notify"}
    BY <2>1
  <2> QED BY <1>2, <2>2 DEF Whereabouts
<1>8. CASE GotSessions
  <2>1. CASE Answered(inbox[1])
    <3>1. /\ loop' = [pc |-> "sessions", ret |-> "idle"] /\ inbox' = inbox
          /\ inbox # <<>> /\ inbox[1].type = "sessions"
      BY <1>8, <2>1, Zenon DEF GotSessions, SessionsResp, Got
    <3> QED BY <1>2, <3>1 DEF Whereabouts
  <2>2. CASE ~Answered(inbox[1])
    <3>1. loop.pc = "idle" /\ UNCHANGED loop
      BY <1>8, <2>2, Zenon DEF GotSessions, SessionsResp, Got, Ignore
    <3> QED BY <1>2, <3>1 DEF Whereabouts
  <2> QED BY <2>1, <2>2
<1>9. CASE InitialSessions
  <2>1. loop' = [loop EXCEPT !.pc = "idle"]
    BY <1>9, ListDoes
  <2>2. loop'.pc = "idle"
    BY <1>1, <2>1
  <2> QED BY <1>2, <2>2 DEF Whereabouts
<1>10. CASE Serves
  <2>1. UNCHANGED <<m_state, loop>>
    BY <1>10, ServerStill DEF ServerRest
  <2>2. inbox' = inbox \/ \E m : inbox' = Append(inbox, m)
    BY <1>10, AnswerIs, ServerPushIs, CommitIs, SessionEventIs DEF Serves, Say1
  <2>3. inbox # <<>> => inbox' # <<>> /\ inbox'[1] = inbox[1]
    BY <1>1, <2>2, AppendHead
  <2> QED BY <1>1, <2>1, <2>3 DEF Whereabouts
<1> QED BY <1>3, <1>4, <1>5, <1>6, <1>7, <1>8, <1>9, <1>10, StepCases

LEMMA StandingKept ==
    ASSUME TypeOK, Standing, Stream, [Next]_vars
    PROVE  Standing'
BY FootingKept, WhereaboutsKept DEF Standing, Footing, Whereabouts

-----------------------------------------------------------------------------
(* The commits in flight, as messages come and go.                         *)
PushRevs(q) == \A i \in 1 .. Len(q) : IsPush(q, i) => q[i].rev \in Nat
LEMMA PushRevsIs ==
    ASSUME TypeOK
    PROVE  PushRevs(inbox) /\ IsSeq(inbox) /\ IsSeq(log) /\ Len(log) \in Nat /\ m_rev \in Nat
<1>1. IsSeq(inbox) /\ IsSeq(log) /\ Len(log) \in Nat /\ m_rev \in Nat /\ MsgsOK(inbox, log)
  BY EmptyLen DEF TypeOK, ServerTypes, MsgTypesOK, ClientTypes
<1>2. \A i \in 1 .. Len(inbox) : IsPush(inbox, i) => inbox[i].rev \in 2 .. Len(log)
  BY <1>1 DEF MsgsOK, MsgOK, IsPush
<1> QED BY <1>1, <1>2 DEF PushRevs

LEMMA QueueTail ==
    ASSUME NEW q, IsSeq(q), q # <<>>
    PROVE  /\ NoPush(q) => NoPush(Tail(q))
           /\ NotAsked(q) => NotAsked(Tail(q))
           /\ Calm(q) => Calm(Tail(q))
           /\ \A rev : Asks(q, rev) => Asks(Tail(q), rev)
           /\ \A rev : Asks(q, rev) /\ q[1].type = "updates" => NotAsked(Tail(q))
           /\ \A rev : Rising(q, rev) => Rising(Tail(q), rev)
<1> DEFINE t == Tail(q)
<1>1. /\ IsSeq(t) /\ Len(q) \in Nat /\ Len(q) > 0 /\ Len(t) = Len(q) - 1 /\ 1 \in 1 .. Len(q)
      /\ \A i \in 1 .. Len(t) : i + 1 \in 1 .. Len(q) /\ t[i] = q[i + 1]
  BY TailIs
<1> HIDE DEF t
<1>2. \A i \in 1 .. Len(t) : IsPush(t, i) <=> IsPush(q, i + 1)
  BY <1>1 DEF IsPush
<1>3. NoPush(q) => NoPush(t)
  BY <1>1 DEF NoPush
<1>4. NotAsked(q) => NotAsked(t)
  BY <1>1 DEF NotAsked
<1>5. Calm(q) => Calm(t)
  BY <1>1, <1>2 DEF Calm
<1>6. ASSUME NEW rev, Asks(q, rev)
      PROVE  Asks(t, rev)
  <2>1. ASSUME NEW i \in 1 .. Len(t), NEW j \in 1 .. Len(t),
               t[i].type = "updates", t[j].type = "updates"
        PROVE  i = j /\ t[i].rev = rev
    <3>1. /\ i + 1 \in 1 .. Len(q) /\ j + 1 \in 1 .. Len(q) /\ t[i] = q[i + 1]
          /\ q[i + 1].type = "updates" /\ q[j + 1].type = "updates"
      BY <1>1, <2>1
    <3>2. i + 1 = j + 1 /\ q[i + 1].rev = rev
      BY <1>6, <3>1 DEF Asks
    <3> QED BY <3>1, <3>2
  <2> QED BY <2>1 DEF Asks
<1>7. \A rev : Asks(q, rev) /\ q[1].type = "updates" => NotAsked(t)
  BY <1>1 DEF Asks, NotAsked
<1>8. ASSUME NEW rev, Rising(q, rev)
      PROVE  Rising(t, rev)
  <2>1. \A i \in 1 .. Len(t) : IsPush(t, i) => t[i].rev > rev
    BY <1>1, <1>2, <1>8 DEF Rising
  <2>2. ASSUME NEW i \in 1 .. Len(t), NEW j \in 1 .. Len(t), i < j, IsPush(t, i), IsPush(t, j)
        PROVE  t[i].rev < t[j].rev
    <3>1. /\ i + 1 \in 1 .. Len(q) /\ j + 1 \in 1 .. Len(q) /\ t[i] = q[i + 1] /\ t[j] = q[j + 1]
          /\ i + 1 < j + 1 /\ IsPush(q, i + 1) /\ IsPush(q, j + 1)
      BY <1>1, <1>2, <2>2
    <3>2. q[i + 1].rev < q[j + 1].rev
      BY <1>8, <3>1 DEF Rising
    <3> QED BY <3>1, <3>2
  <2> QED BY <2>1, <2>2 DEF Rising
<1> QED BY <1>3, <1>4, <1>5, <1>6, <1>7, <1>8 DEF t

LEMMA QueueAppend ==
    ASSUME NEW q, IsSeq(q), NEW m
    PROVE  /\ NoPush(q) /\ m.type \notin {"updates", "updates_push"} => NoPush(Append(q, m))
           /\ NotAsked(q) /\ m.type # "updates" => NotAsked(Append(q, m))
           /\ Calm(q) /\ m.type # "updates_push" => Calm(Append(q, m))
           /\ \A rev : Asks(q, rev) /\ m.type # "updates" => Asks(Append(q, m), rev)
           /\ \A rev : NotAsked(q) /\ m.rev = rev => Asks(Append(q, m), rev)
           /\ \A rev : Rising(q, rev) /\ m.type # "updates_push" => Rising(Append(q, m), rev)
<1> DEFINE t == Append(q, m)
<1>1. /\ IsSeq(t) /\ Len(q) \in Nat /\ Len(t) = Len(q) + 1 /\ t[Len(q) + 1] = m
      /\ \A i \in 1 .. Len(q) : t[i] = q[i]
      /\ \A i \in 1 .. Len(t) : i \in 1 .. Len(q) \/ i = Len(q) + 1
  BY AppendIs
<1> HIDE DEF t
<1>2. /\ \A i \in 1 .. Len(q) : IsPush(t, i) <=> IsPush(q, i)
      /\ IsPush(t, Len(q) + 1) <=> m.type = "updates_push"
  BY <1>1 DEF IsPush
<1>3. NoPush(q) /\ m.type \notin {"updates", "updates_push"} => NoPush(t)
  BY <1>1 DEF NoPush
<1>4. NotAsked(q) /\ m.type # "updates" => NotAsked(t)
  BY <1>1 DEF NotAsked
<1>5. Calm(q) /\ m.type # "updates_push" => Calm(t)
  BY <1>1, <1>2 DEF Calm
<1>6. \A rev : Asks(q, rev) /\ m.type # "updates" => Asks(t, rev)
  BY <1>1 DEF Asks
<1>7. \A rev : NotAsked(q) /\ m.rev = rev => Asks(t, rev)
  BY <1>1 DEF Asks, NotAsked
<1>8. \A rev : Rising(q, rev) /\ m.type # "updates_push" => Rising(t, rev)
  BY <1>1, <1>2 DEF Rising
<1> QED BY <1>3, <1>4, <1>5, <1>6, <1>7, <1>8 DEF t

LEMMA QueueEmpty ==
    NoPush(<<>>) /\ NotAsked(<<>>) /\ Calm(<<>>) /\ \A rev : Rising(<<>>, rev)
BY EmptyIs DEF NoPush, NotAsked, Calm, Rising

LEMMA NoPushIs ==
    ASSUME NEW q, NoPush(q)
    PROVE  Calm(q) /\ \A rev : Rising(q, rev)
BY DEF NoPush, Calm, Rising, IsPush

LEMMA RisingTake ==
    ASSUME NEW q, IsSeq(q), q # <<>>, NEW rev \in Nat, PushRevs(q), Rising(q, rev),
           IsPush(q, 1), q[1].rev = rev + 1
    PROVE  Rising(Tail(q), rev + 1)
<1> DEFINE t == Tail(q)
<1>1. /\ IsSeq(t) /\ Len(q) \in Nat /\ Len(q) > 0 /\ Len(t) = Len(q) - 1 /\ 1 \in 1 .. Len(q)
      /\ \A i \in 1 .. Len(t) : i + 1 \in 1 .. Len(q) /\ t[i] = q[i + 1]
  BY TailIs
<1> HIDE DEF t
<1>2. \A i \in 1 .. Len(t) : IsPush(t, i) <=> IsPush(q, i + 1)
  BY <1>1 DEF IsPush
<1>3. ASSUME NEW i \in 1 .. Len(t), IsPush(t, i)
      PROVE  t[i].rev > rev + 1
  <2>1. IsPush(q, i + 1) /\ i + 1 \in 1 .. Len(q) /\ 1 < i + 1
    BY <1>1, <1>2, <1>3
  <2>2. q[1].rev < q[i + 1].rev /\ q[i + 1].rev \in Nat
    BY <1>1, <2>1 DEF Rising, PushRevs
  <2> QED BY <1>1, <2>2
<1>4. \A i, j \in 1 .. Len(t) : i < j /\ IsPush(t, i) /\ IsPush(t, j) => t[i].rev < t[j].rev
  <2>1. Rising(t, rev)
    BY QueueTail DEF t
  <2> QED BY <2>1 DEF Rising
<1> QED BY <1>3, <1>4 DEF Rising, t

LEMMA RisingPush ==
    ASSUME NEW q, IsSeq(q), NEW rev \in Nat, PushRevs(q), Rising(q, rev), NEW m, NEW to \in Nat,
           m.type = "updates_push", m.rev = to + 1, rev <= to,
           \A i \in 1 .. Len(q) : IsPush(q, i) => q[i].rev <= to
    PROVE  Rising(Append(q, m), rev)
<1> DEFINE t == Append(q, m)
<1>1. /\ IsSeq(t) /\ Len(q) \in Nat /\ Len(t) = Len(q) + 1 /\ t[Len(q) + 1] = m
      /\ \A i \in 1 .. Len(q) : t[i] = q[i]
      /\ \A i \in 1 .. Len(t) : i \in 1 .. Len(q) \/ i = Len(q) + 1
  BY AppendIs
<1> HIDE DEF t
<1>2. \A i \in 1 .. Len(q) : IsPush(t, i) <=> IsPush(q, i)
  BY <1>1 DEF IsPush
<1>3. ASSUME NEW i \in 1 .. Len(t), IsPush(t, i)
      PROVE  t[i].rev > rev
  <2>1. CASE i \in 1 .. Len(q)
    BY <1>1, <1>2, <1>3, <2>1 DEF Rising
  <2>2. CASE i = Len(q) + 1
    BY <1>1, <2>2
  <2> QED BY <1>1, <2>1, <2>2
<1>4. ASSUME NEW i \in 1 .. Len(t), NEW j \in 1 .. Len(t), i < j, IsPush(t, i), IsPush(t, j)
      PROVE  t[i].rev < t[j].rev
  <2>1. i \in 1 .. Len(q)
    BY <1>1, <1>4
  <2>2. CASE j \in 1 .. Len(q)
    BY <1>1, <1>2, <1>4, <2>1, <2>2 DEF Rising
  <2>3. CASE j = Len(q) + 1
    <3>1. t[i] = q[i] /\ q[i].rev <= to /\ q[i].rev \in Nat /\ t[j].rev = to + 1
      BY <1>1, <1>2, <1>4, <2>1, <2>3 DEF PushRevs
    <3> QED BY <3>1
  <2> QED BY <1>1, <2>2, <2>3
<1> QED BY <1>3, <1>4 DEF Rising, t

LEMMA GaplessTail ==
    ASSUME NEW q, IsSeq(q), q # <<>>, NEW from \in Nat, NEW to \in Nat, Gapless(q, from, to),
           PushRevs(q)
    PROVE  /\ ~IsPush(q, 1) => Gapless(Tail(q), from, to)
           /\ IsPush(q, 1) /\ q[1].rev = from + 1 => Gapless(Tail(q), from + 1, to)
<1> DEFINE t == Tail(q)
<1>1. /\ IsSeq(t) /\ Len(q) \in Nat /\ Len(q) > 0 /\ Len(t) = Len(q) - 1 /\ 1 \in 1 .. Len(q)
      /\ \A i \in 1 .. Len(t) : i + 1 \in 1 .. Len(q) /\ t[i] = q[i + 1]
  BY TailIs
<1> HIDE DEF t
<1>2. \A i \in 1 .. Len(t) : IsPush(t, i) <=> IsPush(q, i + 1)
  BY <1>1 DEF IsPush
<1>3. \A i \in 1 .. Len(t) : IsPush(t, i) => t[i].rev <= to
  BY <1>1, <1>2 DEF Gapless
<1>4. ASSUME NEW r \in from + 1 .. to, ~(IsPush(q, 1) /\ q[1].rev = r)
      PROVE  \E i \in 1 .. Len(t) : IsPush(t, i) /\ t[i].rev = r
  <2>1. PICK i \in 1 .. Len(q) : IsPush(q, i) /\ q[i].rev = r
    BY DEF Gapless
  <2>2. i # 1 /\ i - 1 \in 1 .. Len(t) /\ i - 1 + 1 = i
    BY <1>1, <1>4, <2>1
  <2>3. IsPush(t, i - 1) /\ t[i - 1].rev = r
    BY <1>1, <1>2, <2>1, <2>2
  <2> QED BY <2>2, <2>3
<1>5. ~IsPush(q, 1) => Gapless(t, from, to)
  BY <1>3, <1>4 DEF Gapless
<1>6. IsPush(q, 1) /\ q[1].rev = from + 1 => Gapless(t, from + 1, to)
  <2>1. \A r \in from + 1 + 1 .. to : r \in from + 1 .. to /\ r # from + 1
    OBVIOUS
  <2> QED BY <1>3, <1>4, <2>1 DEF Gapless
<1> QED BY <1>5, <1>6 DEF t

LEMMA GaplessAppend ==
    ASSUME NEW q, IsSeq(q), NEW from \in Nat, NEW to \in Nat, Gapless(q, from, to), PushRevs(q), NEW m
    PROVE  /\ m.type # "updates_push" => Gapless(Append(q, m), from, to)
           /\ m.type = "updates_push" /\ m.rev = to + 1 => Gapless(Append(q, m), from, to + 1)
<1> DEFINE t == Append(q, m)
<1>1. /\ IsSeq(t) /\ Len(q) \in Nat /\ Len(t) = Len(q) + 1 /\ t[Len(q) + 1] = m
      /\ \A i \in 1 .. Len(q) : t[i] = q[i] /\ i \in 1 .. Len(t)
      /\ \A i \in 1 .. Len(t) : i \in 1 .. Len(q) \/ i = Len(q) + 1
      /\ Len(q) + 1 \in 1 .. Len(t)
  BY AppendIs
<1> HIDE DEF t
<1>2. /\ \A i \in 1 .. Len(q) : IsPush(t, i) <=> IsPush(q, i)
      /\ IsPush(t, Len(q) + 1) <=> m.type = "updates_push"
  BY <1>1 DEF IsPush
<1>3. ASSUME NEW i \in 1 .. Len(q), IsPush(t, i)
      PROVE  t[i].rev <= to /\ t[i].rev <= to + 1
  <2>1. t[i].rev <= to /\ t[i].rev \in Nat
    BY <1>1, <1>2, <1>3 DEF Gapless, PushRevs
  <2> QED BY <2>1
<1>4. ASSUME NEW r \in from + 1 .. to
      PROVE  \E i \in 1 .. Len(t) : IsPush(t, i) /\ t[i].rev = r
  <2>1. PICK i \in 1 .. Len(q) : IsPush(q, i) /\ q[i].rev = r
    BY DEF Gapless
  <2> QED BY <1>1, <1>2, <2>1
<1>5. m.type # "updates_push" => Gapless(t, from, to)
  BY <1>1, <1>2, <1>3, <1>4 DEF Gapless
<1>6. ASSUME m.type = "updates_push", m.rev = to + 1
      PROVE  Gapless(t, from, to + 1)
  <2>1. \A i \in 1 .. Len(t) : IsPush(t, i) => t[i].rev <= to + 1
    BY <1>1, <1>3, <1>6
  <2>2. \A r \in from + 1 .. to + 1 : r \in from + 1 .. to \/ r = to + 1
    OBVIOUS
  <2>3. IsPush(t, Len(q) + 1) /\ t[Len(q) + 1].rev = to + 1
    BY <1>1, <1>2, <1>6
  <2>4. \A r \in from + 1 .. to + 1 : \E i \in 1 .. Len(t) : IsPush(t, i) /\ t[i].rev = r
    BY <1>1, <1>4, <2>2, <2>3
  <2> QED BY <2>1, <2>4 DEF Gapless
<1> QED BY <1>5, <1>6 DEF t

LEMMA GaplessNone ==
    ASSUME NEW q, Calm(q), NEW rev \in Nat
    PROVE  Gapless(q, rev, rev)
BY DEF Calm, Gapless

-----------------------------------------------------------------------------
(* The copy of the client.                                                 *)
LEMMA LogKept ==
    ASSUME TypeOK, [Next]_vars
    PROVE  /\ Len(log) \in Nat /\ Len(log') \in Nat /\ Len(log) <= Len(log')
           /\ \A i \in 1 .. Len(log) : log'[i] = log[i]
<1>1. IsSeq(log) /\ Len(log) \in Nat
  BY EmptyLen DEF TypeOK, ServerTypes
<1>2. log' = log \/ \E c : log' = Append(log, c)
  <2>1. CASE Still \/ Ends \/ Sends \/ GotLogin \/ GotSnapshot \/ GotUpdates \/ GotPush \/ GotPing
             \/ GotSessions \/ GotEvent \/ InitialSessions
    BY <2>1, SendsIs, LoginIs, SnapshotSends, UpdatesIs, PushDoes, ReplyIs, EventDoes, ListDoes
       DEF Still, copyvars, Ends
  <2>2. CASE Serves
    BY <2>2, AnswerIs, CommitIs, SessionEventIs, Zenon DEF Serves, ServerPush
  <2> QED BY <2>1, <2>2, StepCases
<1>3. CASE log' = log
  BY <1>1, <1>3
<1>4. CASE \E c : log' = Append(log, c)
  <2>1. PICK c : log' = Append(log, c)
    BY <1>4
  <2> QED BY <1>1, <2>1, AppendIs
<1> QED BY <1>2, <1>3, <1>4

LEMMA CopyKept ==
    ASSUME TypeOK, Stream, [Next]_vars
    PROVE  Copy'
<1>1. /\ Len(log) \in Nat /\ Len(log') \in Nat /\ Len(log) <= Len(log')
      /\ \A i \in 1 .. Len(log) : log'[i] = log[i]
  BY LogKept
<1>2. Copy /\ reader.listed \in BOOLEAN /\ reader.puzzled \in BOOLEAN
  BY DEF Stream, TypeOK, ReaderTypes
<1>3. ASSUME UNCHANGED <<m_initialized, m_store, m_rev, program>>,
             reader'.data = reader.data, reader'.rev = reader.rev
      PROVE  Copy'
  <2>1. PrintsData' = PrintsData
    BY <1>3 DEF PrintsData
  <2> QED BY <1>1, <1>2, <1>3, <2>1 DEF Copy
<1>4. ASSUME m_rev' \in 1 .. Len(log), Holds(m_store', log[m_rev']), UNCHANGED program,
             IF PrintsData THEN Read(m_store', m_rev', reader.sessions, reader.listed, reader.puzzled)
             ELSE reader' = reader
      PROVE  Copy'
  <2>1. PrintsData' = PrintsData
    BY <1>4 DEF PrintsData
  <2>2. PrintsData => reader'.rev = m_rev' /\ reader'.data = m_store'
    BY <1>2, <1>4, ReadFields
  <2> QED BY <1>1, <1>4, <2>1, <2>2 DEF Copy
<1>5. CASE Still \/ Ends \/ Sends \/ GotLogin \/ GotUpdates \/ GotPing \/ GotSessions \/ Serves
  <2>1. UNCHANGED <<m_initialized, m_store, m_rev, program, reader>>
    BY <1>5, SendsIs, LoginIs, UpdatesIs, ReplyIs, ServerStill DEF Still, copyvars, Ends, ServerRest
  <2> QED BY <1>3, <2>1
<1>6. CASE GotSnapshot
  BY <1>4, <1>6, SnapshotIs, SnapshotSends
<1>7. CASE GotPush
  BY <1>4, <1>7, PushIs, PushDoes
<1>8. CASE GotEvent
  <2>1. UNCHANGED <<m_initialized, m_store, m_rev, program>>
    BY <1>8, EventDoes
  <2>2. reader'.data = reader.data /\ reader'.rev = reader.rev
    <3> DEFINE e == inbox[1].data
               comes == e.code = "CONNECTED"
               s == IF comes THEN reader.sessions \cup {e.user} ELSE reader.sessions \ {e.user}
               p == reader.puzzled \/ comes = (e.user \in reader.sessions) \/ comes = (e.until # 0)
    <3>1. Read(reader.data, reader.rev, s, reader.listed, p) \/ reader' = reader
      BY <1>8, EventIs
    <3>2. p \in BOOLEAN
      BY <1>2
    <3> HIDE DEF s, p
    <3> QED BY <1>2, <3>1, <3>2, ReadFields
  <2> QED BY <1>3, <2>1, <2>2
<1>9. CASE InitialSessions
  <2>1. UNCHANGED <<m_initialized, m_store, m_rev, program>>
    BY <1>9, ListDoes
  <2>2. reader'.data = reader.data /\ reader'.rev = reader.rev
    <3> DEFINE u == {s.user : s \in Head(inbox).data}
    <3>1. Read(reader.data, reader.rev, u, TRUE, reader.puzzled) \/ reader' = reader
      BY <1>9, ListIs
    <3> HIDE DEF u
    <3>2. CASE Read(reader.data, reader.rev, u, TRUE, reader.puzzled)
      BY <3>2 DEF Read
    <3> QED BY <3>1, <3>2
  <2> QED BY <1>3, <2>1, <2>2
<1> QED BY <1>5, <1>6, <1>7, <1>8, <1>9, StepCases

LEMMA BeforeKept ==
    ASSUME TypeOK, Standing, Stream, [Next]_vars
    PROVE  Before'
<1>1. Before /\ IsSeq(inbox) /\ IsSeq(outbox) /\ m_state \in States
  BY SeqIs DEF Stream, TypeOK, ClientTypes, ServerTypes
<1>2. ASSUME m_state \in {"CONNECTING", "LOADING_SNAPSHOT"}
      PROVE  ~m_initialized /\ data_stream = Null /\ told = 0 /\ NotAsked(outbox) /\ NoPush(inbox)
  BY <1>1, <1>2 DEF Before
<1>3. ASSUME UNCHANGED <<m_state, m_initialized, data_stream, told>>,
             m_state \in {"CONNECTING", "LOADING_SNAPSHOT"} => NotAsked(outbox') /\ NoPush(inbox')
      PROVE  Before'
  BY <1>2, <1>3 DEF Before
<1>4. CASE Still
  BY <1>2, <1>3, <1>4 DEF Still, copyvars
<1>5. CASE Ends \/ GotSnapshot \/ GotUpdates
  <2>1. m_state' \notin {"CONNECTING", "LOADING_SNAPSHOT"}
    BY <1>5, SnapshotSends, UpdatesIs DEF Ends
  <2> QED BY <2>1 DEF Before
<1>6. CASE Sends
  <2>1. PICK kind \in Fetches \cup {"ping"} : outbox' = Append(outbox, Request(kind, m_correlation, 0))
    BY <1>6, SendsIs
  <2>2. Request(kind, m_correlation, 0).type # "updates"
    BY DEF Request, Fetches
  <2>3. NotAsked(outbox) => NotAsked(outbox')
    BY <1>1, <2>1, <2>2, QueueAppend
  <2>4. UNCHANGED <<m_state, m_initialized, data_stream, told, inbox>>
    BY <1>6, SendsIs
  <2> QED BY <1>2, <1>3, <2>3, <2>4
<1>7. CASE GotLogin
  <2>1. m_state = "CONNECTING"
    BY <1>1, <1>7, LoginIs DEF Standing, States
  <2>2. Request("snapshot", m_correlation, 0).type # "updates"
    BY DEF Request
  <2>3. NotAsked(outbox') /\ NoPush(inbox')
    BY <1>1, <1>2, <1>7, <2>1, <2>2, LoginIs, QueueAppend, QueueTail
  <2>4. UNCHANGED <<m_initialized, data_stream, told>>
    BY <1>7, LoginIs
  <2> QED BY <1>2, <2>1, <2>3, <2>4 DEF Before
<1>8. CASE GotPush
  <2>1. m_initialized /\ m_state' \in {m_state, "SYNCED"}
    BY <1>8, PushIsNext, PushDoes
  <2> QED BY <1>2, <2>1 DEF Before
<1>9. CASE GotPing \/ GotSessions \/ GotEvent \/ InitialSessions
  <2>1. UNCHANGED <<m_state, m_initialized, data_stream, told, outbox>>
    BY <1>9, ReplyIs, EventDoes, ListDoes
  <2>2. inbox' = inbox \/ (inbox # <<>> /\ inbox' = Tail(inbox))
    BY <1>9, ReplyIs, EventDoes, ListDoes DEF Standing
  <2>3. NoPush(inbox) => NoPush(inbox')
    BY <1>1, <2>2, QueueTail
  <2> QED BY <1>2, <1>3, <2>1, <2>3
<1>10. CASE ServerAnswer
  <2>1. /\ outbox # <<>> /\ outbox' = Tail(outbox)
        /\ \E m : Say1(m) /\ Answers(outbox[1], m)
    BY <1>10, AnswerIs
  <2>2. PICK m : Say1(m) /\ Answers(outbox[1], m)
    BY <2>1
  <2>3. UNCHANGED <<m_state, m_initialized, told>>
    BY <1>10, ServerStill DEF Serves, ServerRest
  <2>4. 1 \in 1 .. Len(outbox)
    BY <1>1, <2>1, TailIs
  <2>5. ASSUME NotAsked(outbox)
        PROVE  m.type \notin {"updates", "updates_push"} /\ UNCHANGED data_stream
    BY <2>2, <2>4, <2>5 DEF NotAsked, Answers, Fetches
  <2>6. ASSUME NotAsked(outbox), NoPush(inbox)
        PROVE  NotAsked(outbox') /\ NoPush(inbox')
    BY <1>1, <2>1, <2>2, <2>5, <2>6, QueueTail, QueueAppend DEF Say1
  <2> QED BY <1>2, <2>3, <2>5, <2>6 DEF Before
<1>11. CASE ServerPush
  <2>1. data_stream # Null /\ UNCHANGED m_state
    BY <1>11, ServerPushIs, ServerStill DEF Serves, ServerRest
  <2> QED BY <1>2, <2>1 DEF Before
<1>12. CASE ServerCommit
  <2>1. UNCHANGED <<m_state, m_initialized, data_stream, told, outbox, inbox>>
    BY <1>12, CommitIs, ServerStill DEF Serves, ServerRest
  <2> QED BY <1>2, <1>3, <2>1
<1>13. CASE SessionEvent
  <2>1. UNCHANGED <<m_state, m_initialized, data_stream, told, outbox>>
    BY <1>13, SessionEventIs, ServerStill DEF Serves, ServerRest
  <2>2. inbox' = inbox \/ \E m : Say1(m) /\ m.type = "sessions_push"
    BY <1>13, SessionEventIs
  <2>3. NoPush(inbox) => NoPush(inbox')
    BY <1>1, <2>2, QueueAppend DEF Say1
  <2> QED BY <1>2, <1>3, <2>1, <2>3
<1> QED BY <1>4, <1>5, <1>6, <1>7, <1>8, <1>9, <1>10, <1>11, <1>12, <1>13, StepCases DEF Serves

LEMMA AskingKept ==
    ASSUME TypeOK, Standing, Stream, [Next]_vars
    PROVE  Asking'
<1>1. Asking /\ Before /\ IsSeq(inbox) /\ IsSeq(outbox) /\ m_state \in States
  BY SeqIs DEF Stream, TypeOK, ClientTypes, ServerTypes
<1> DEFINE Open == m_initialized /\ data_stream = Null /\ told = 0 /\ NoPush(inbox)
                   /\ Asks(outbox, m_rev)
<1>2. NotAsked(outbox) \/ Open
  BY <1>1 DEF Asking
<1>3. CASE Still
  BY <1>1, <1>3 DEF Still, copyvars, Asking
<1>4. CASE Ends
  BY <1>4, QueueEmpty DEF Ends, Asking
<1>5. CASE Sends
  <2>1. PICK kind \in Fetches \cup {"ping"} : outbox' = Append(outbox, Request(kind, m_correlation, 0))
    BY <1>5, SendsIs
  <2>2. Request(kind, m_correlation, 0).type # "updates"
    BY DEF Request, Fetches
  <2>3. /\ NotAsked(outbox) => NotAsked(outbox')
        /\ Asks(outbox, m_rev) => Asks(outbox', m_rev)
    BY <1>1, <2>1, <2>2, QueueAppend
  <2>4. UNCHANGED <<m_initialized, m_rev, data_stream, told, inbox>>
    BY <1>5, SendsIs
  <2> QED BY <1>2, <2>3, <2>4 DEF Asking
<1>6. CASE GotLogin
  <2>1. m_state = "CONNECTING"
    BY <1>1, <1>6, LoginIs DEF Standing, States
  <2>2. Request("snapshot", m_correlation, 0).type # "updates"
    BY DEF Request
  <2>3. NotAsked(outbox')
    BY <1>1, <1>6, <2>1, <2>2, LoginIs, QueueAppend DEF Before
  <2> QED BY <2>3 DEF Asking
<1>7. CASE GotSnapshot
  <2>1. data_stream = Null /\ told = 0 /\ NotAsked(outbox) /\ NoPush(inbox)
    BY <1>1, <1>7, SnapshotSends DEF Before
  <2>2. Request("updates", m_correlation, inbox[1].rev).rev = inbox[1].rev
    BY DEF Request
  <2>3. NoPush(inbox') /\ Asks(outbox', inbox[1].rev)
    <3>1. /\ inbox # <<>> /\ inbox' = Tail(inbox)
          /\ outbox' = Append(outbox, Request("updates", m_correlation, inbox[1].rev))
      BY <1>7, SnapshotSends
    <3>2. NoPush(inbox')
      BY <1>1, <2>1, <3>1, QueueTail
    <3>3. PICK r : r = Request("updates", m_correlation, inbox[1].rev)
      OBVIOUS
    <3>4. Asks(Append(outbox, r), inbox[1].rev)
      BY <1>1, <2>1, <2>2, <3>3, QueueAppend
    <3> QED BY <3>1, <3>2, <3>3, <3>4
  <2> QED BY <1>7, <2>1, <2>3, SnapshotSends DEF Asking
<1>8. CASE GotUpdates \/ GotPush
  <2>1. inbox # <<>> /\ inbox[1].type \in {"updates", "updates_push"} /\ outbox' = outbox
    BY <1>8, UpdatesIs, PushDoes
  <2>2. ~NoPush(inbox)
    BY <1>1, <2>1, TailIs DEF NoPush
  <2> QED BY <1>2, <2>1, <2>2 DEF Asking
<1>9. CASE GotPing \/ GotSessions \/ GotEvent \/ InitialSessions
  <2>1. UNCHANGED <<m_initialized, m_rev, data_stream, told, outbox>>
    BY <1>9, ReplyIs, EventDoes, ListDoes
  <2>2. inbox' = inbox \/ (inbox # <<>> /\ inbox' = Tail(inbox))
    BY <1>9, ReplyIs, EventDoes, ListDoes DEF Standing
  <2>3. NoPush(inbox) => NoPush(inbox')
    BY <1>1, <2>2, QueueTail
  <2> QED BY <1>2, <2>1, <2>3 DEF Asking
<1>10. CASE ServerAnswer
  <2>1. /\ outbox # <<>> /\ outbox' = Tail(outbox)
        /\ \E m : Say1(m) /\ Answers(outbox[1], m)
    BY <1>10, AnswerIs
  <2>2. PICK m : Say1(m) /\ Answers(outbox[1], m)
    BY <2>1
  <2>3. UNCHANGED <<m_initialized, m_rev, told>>
    BY <1>10, ServerStill DEF Serves, ServerRest
  <2>4. CASE NotAsked(outbox)
    BY <1>1, <2>1, <2>4, QueueTail DEF Asking
  <2>5. CASE Open /\ outbox[1].type = "updates"
    BY <1>1, <2>1, <2>5, QueueTail DEF Asking
  <2>6. CASE Open /\ outbox[1].type # "updates"
    <3>1. m.type \notin {"updates", "updates_push"} /\ UNCHANGED data_stream
      BY <2>2, <2>6 DEF Answers, Fetches
    <3>2. NoPush(inbox') /\ Asks(outbox', m_rev)
      BY <1>1, <2>1, <2>2, <2>6, <3>1, QueueTail, QueueAppend DEF Say1
    <3> QED BY <2>3, <2>6, <3>1, <3>2 DEF Asking
  <2> QED BY <1>2, <2>4, <2>5, <2>6
<1>11. CASE ServerPush
  BY <1>2, <1>11, ServerPushIs DEF Asking
<1>12. CASE ServerCommit
  <2>1. UNCHANGED <<m_initialized, m_rev, data_stream, told, outbox, inbox>>
    BY <1>12, CommitIs, ServerStill DEF Serves, ServerRest
  <2> QED BY <1>1, <2>1 DEF Asking
<1>13. CASE SessionEvent
  <2>1. UNCHANGED <<m_initialized, m_rev, data_stream, told, outbox>>
    BY <1>13, SessionEventIs, ServerStill DEF Serves, ServerRest
  <2>2. inbox' = inbox \/ \E m : Say1(m) /\ m.type = "sessions_push"
    BY <1>13, SessionEventIs
  <2>3. NoPush(inbox) => NoPush(inbox')
    BY <1>1, <2>2, QueueAppend DEF Say1
  <2> QED BY <1>2, <2>1, <2>3 DEF Asking
<1> QED BY <1>3, <1>4, <1>5, <1>6, <1>7, <1>8, <1>9, <1>10, <1>11, <1>12, <1>13, StepCases DEF Serves

(* The answer to the client's question opens the stream at its revision.   *)
LEMMA UpdatesOpens ==
    ASSUME TypeOK, Stream, ServerAnswer, outbox[1].type = "updates"
    PROVE  /\ m_initialized /\ data_stream = Null /\ told = 0 /\ NoPush(inbox)
           /\ outbox[1].rev = m_rev
<1>1. outbox # <<>> /\ IsSeq(outbox)
  BY AnswerIs, SeqIs DEF TypeOK, ServerTypes
<1>2. 1 \in 1 .. Len(outbox)
  BY <1>1, TailIs
<1>3. ~NotAsked(outbox)
  BY <1>2 DEF NotAsked
<1>4. /\ m_initialized /\ data_stream = Null /\ told = 0 /\ NoPush(inbox)
      /\ Asks(outbox, m_rev)
  BY <1>3 DEF Stream, Asking
<1> QED BY <1>2, <1>4 DEF Asks

LEMMA StreamRecord ==
    ASSUME NEW cid \in Nat, NEW rev \in Nat
    PROVE  [cid |-> cid, rev |-> rev] # Null /\ [cid |-> cid, rev |-> rev].rev = rev
<1>1. [cid |-> cid, rev |-> rev] \in [cid : Nat, rev : Nat]
  OBVIOUS
<1> QED BY <1>1, NullAssumption

LEMMA StreamingKept ==
    ASSUME TypeOK, Standing, Stream, [Next]_vars
    PROVE  Streaming'
<1>1. PushRevs(inbox) /\ IsSeq(inbox) /\ m_rev \in Nat
  BY PushRevsIs
<1>2. Len(log) \in Nat /\ Len(log') \in Nat /\ Len(log) <= Len(log')
  BY LogKept
<1>3. ASSUME data_stream # Null
      PROVE  /\ m_initialized /\ data_stream.rev \in m_rev .. Len(log) /\ data_stream.rev \in Nat
             /\ Gapless(inbox, m_rev, data_stream.rev)
  BY <1>1, <1>2, <1>3 DEF Stream, Streaming
<1>4. ASSUME UNCHANGED <<m_initialized, m_rev, data_stream>>,
             data_stream # Null => Gapless(inbox', m_rev, data_stream.rev)
      PROVE  Streaming'
  BY <1>2, <1>3, <1>4 DEF Streaming
<1>5. CASE Still
  BY <1>3, <1>4, <1>5 DEF Still, copyvars
<1>6. CASE Ends
  BY <1>6 DEF Ends, Streaming
<1>7. CASE Sends
  BY <1>3, <1>4, <1>7, SendsIs
<1>8. CASE GotSnapshot
  BY <1>8, SnapshotSends DEF Stream, Before, Streaming
<1>9. CASE GotLogin \/ GotUpdates \/ GotPing \/ GotSessions \/ GotEvent \/ InitialSessions
  <2>1. UNCHANGED <<m_initialized, m_rev, data_stream>>
    BY <1>9, LoginIs, UpdatesIs, ReplyIs, EventDoes, ListDoes
  <2>2. inbox' = inbox \/ (inbox # <<>> /\ inbox' = Tail(inbox) /\ ~IsPush(inbox, 1))
    BY <1>9, LoginIs, UpdatesIs, ReplyIs, EventDoes, ListDoes DEF Standing, IsPush
  <2>3. data_stream # Null => Gapless(inbox', m_rev, data_stream.rev)
    BY <1>1, <1>3, <2>2, GaplessTail
  <2> QED BY <1>4, <2>1, <2>3
<1>10. CASE GotPush
  <2>1. /\ m_initialized /\ data_stream # Null /\ inbox[1].rev = m_rev + 1
        /\ m_rev' = m_rev + 1 /\ UNCHANGED m_initialized
    BY <1>10, PushIsNext, PushIs
  <2>2. inbox # <<>> /\ inbox' = Tail(inbox) /\ IsPush(inbox, 1) /\ UNCHANGED data_stream
    BY <1>10, PushDoes DEF IsPush
  <2>3. Gapless(inbox', m_rev + 1, data_stream.rev)
    BY <1>1, <1>3, <2>1, <2>2, GaplessTail
  <2>4. inbox[1].rev <= data_stream.rev
    <3>1. 1 \in 1 .. Len(inbox)
      BY <1>1, <2>2, TailIs
    <3> QED BY <1>3, <2>1, <2>2, <3>1 DEF Gapless
  <2>5. data_stream.rev \in m_rev + 1 .. Len(log')
    BY <1>1, <1>2, <1>3, <2>1, <2>4
  <2> QED BY <2>1, <2>2, <2>3, <2>5 DEF Streaming
<1>11. CASE ServerAnswer
  <2>1. /\ outbox # <<>> /\ UNCHANGED log
        /\ \E m : Say1(m) /\ Answers(outbox[1], m)
    BY <1>11, AnswerIs
  <2>2. PICK m : Say1(m) /\ Answers(outbox[1], m)
    BY <2>1
  <2>3. UNCHANGED <<m_initialized, m_rev>>
    BY <1>11, ServerStill DEF Serves, ServerRest
  <2>4. CASE outbox[1].type # "updates"
    <3>1. m.type # "updates_push" /\ UNCHANGED data_stream
      BY <2>2, <2>4 DEF Answers, Fetches
    <3>2. data_stream # Null => Gapless(inbox', m_rev, data_stream.rev)
      BY <1>1, <1>3, <2>2, <3>1, GaplessAppend DEF Say1
    <3> QED BY <1>4, <2>3, <3>1, <3>2
  <2>5. CASE outbox[1].type = "updates"
    <3>1. m_initialized /\ NoPush(inbox) /\ outbox[1].rev = m_rev
      BY <1>11, <2>5, UpdatesOpens
    <3>2. m.type # "updates_push" /\ data_stream' = [cid |-> outbox[1].cid, rev |-> m_rev]
      BY <2>2, <2>5, <3>1 DEF Answers, Fetches
    <3>3. data_stream'.rev = m_rev
      BY <3>2
    <3>4. Gapless(inbox, m_rev, m_rev)
      BY <1>1, <3>1, NoPushIs, GaplessNone
    <3>5. Gapless(inbox', m_rev, m_rev)
      BY <1>1, <2>2, <3>2, <3>4, GaplessAppend DEF Say1
    <3>6. m_rev \in 1 .. Len(log)
      BY <3>1 DEF Stream, Copy
    <3> QED BY <1>2, <2>1, <2>3, <3>1, <3>3, <3>5, <3>6 DEF Streaming
  <2> QED BY <2>4, <2>5
<1>12. CASE ServerPush
  <2>1. /\ data_stream # Null /\ data_stream.rev \in Nat /\ data_stream.rev < Len(log)
        /\ data_stream' = [cid |-> data_stream.cid, rev |-> data_stream.rev + 1]
        /\ UNCHANGED log
        /\ \E m : Say1(m) /\ m.type = "updates_push" /\ m.rev = data_stream.rev + 1
    BY <1>12, ServerPushIs
  <2>2. PICK m : Say1(m) /\ m.type = "updates_push" /\ m.rev = data_stream.rev + 1
    BY <2>1
  <2>3. UNCHANGED <<m_initialized, m_rev>>
    BY <1>12, ServerStill DEF Serves, ServerRest
  <2>4. data_stream'.rev = data_stream.rev + 1
    BY <2>1
  <2>5. Gapless(inbox', m_rev, data_stream.rev + 1)
    BY <1>1, <1>3, <2>1, <2>2, GaplessAppend DEF Say1
  <2>6. data_stream.rev + 1 \in m_rev .. Len(log)
    BY <1>1, <1>2, <1>3, <2>1
  <2> QED BY <1>3, <2>1, <2>3, <2>4, <2>5, <2>6 DEF Streaming
<1>13. CASE ServerCommit
  <2>1. UNCHANGED <<m_initialized, m_rev, data_stream, inbox>>
    BY <1>13, CommitIs, ServerStill DEF Serves, ServerRest
  <2> QED BY <1>3, <1>4, <2>1
<1>14. CASE SessionEvent
  <2>1. UNCHANGED <<m_initialized, m_rev, data_stream>>
    BY <1>14, SessionEventIs, ServerStill DEF Serves, ServerRest
  <2>2. inbox' = inbox \/ \E m : Say1(m) /\ m.type = "sessions_push"
    BY <1>14, SessionEventIs
  <2>3. data_stream # Null => Gapless(inbox', m_rev, data_stream.rev)
    BY <1>1, <1>3, <2>2, GaplessAppend DEF Say1
  <2> QED BY <1>4, <2>1, <2>3
<1> QED BY <1>5, <1>6, <1>7, <1>8, <1>9, <1>10, <1>11, <1>12, <1>13, <1>14, StepCases DEF Serves

LEMMA OrderedKept ==
    ASSUME TypeOK, Standing, Stream, [Next]_vars
    PROVE  Ordered'
<1>1. PushRevs(inbox) /\ IsSeq(inbox) /\ m_rev \in Nat
  BY PushRevsIs
<1>2. Rising(inbox, m_rev) /\ (m_state # "CLOSED" /\ data_stream = Null => Calm(inbox))
  BY DEF Stream, Ordered
<1>3. CASE Still
  BY <1>2, <1>3 DEF Still, copyvars, Ordered
<1>4. CASE Ends
  <2>1. m_state' = "CLOSED" /\ m_rev' = m_rev
        /\ (inbox' = <<>> \/ (inbox # <<>> /\ inbox' = Tail(inbox)))
    BY <1>4 DEF Ends
  <2>2. Rising(inbox', m_rev')
    BY <1>1, <1>2, <2>1, QueueTail, QueueEmpty
  <2> QED BY <2>1, <2>2 DEF Ordered
<1>5. CASE Sends
  BY <1>2, <1>5, SendsIs DEF Ordered
<1>6. CASE GotSnapshot
  <2>1. NoPush(inbox)
    BY <1>6, SnapshotSends DEF Stream, Before
  <2>2. NoPush(inbox')
    BY <1>1, <1>6, <2>1, SnapshotSends, QueueTail
  <2> QED BY <2>2, NoPushIs DEF Ordered
<1>7. CASE GotLogin \/ GotUpdates \/ GotPing \/ GotSessions \/ GotEvent \/ InitialSessions
  <2>1. UNCHANGED <<m_rev, data_stream>> /\ (m_state' # "CLOSED" => m_state # "CLOSED")
    BY <1>7, LoginIs, UpdatesIs, ReplyIs, EventDoes, ListDoes
  <2>2. inbox' = inbox \/ (inbox # <<>> /\ inbox' = Tail(inbox))
    BY <1>7, LoginIs, UpdatesIs, ReplyIs, EventDoes, ListDoes DEF Standing
  <2>3. Rising(inbox', m_rev) /\ (Calm(inbox) => Calm(inbox'))
    BY <1>1, <1>2, <2>2, QueueTail
  <2> QED BY <1>2, <2>1, <2>3 DEF Ordered
<1>8. CASE GotPush
  <2>1. inbox[1].rev = m_rev + 1 /\ m_rev' = m_rev + 1 /\ data_stream # Null
    BY <1>8, PushIsNext, PushIs
  <2>2. inbox # <<>> /\ inbox' = Tail(inbox) /\ IsPush(inbox, 1) /\ UNCHANGED data_stream
    BY <1>8, PushDoes DEF IsPush
  <2>3. Rising(inbox', m_rev + 1)
    BY <1>1, <1>2, <2>1, <2>2, RisingTake
  <2> QED BY <2>1, <2>2, <2>3 DEF Ordered
<1>9. CASE ServerAnswer
  <2>1. PICK m : Say1(m) /\ Answers(outbox[1], m)
    BY <1>9, AnswerIs
  <2>2. UNCHANGED <<m_state, m_rev>>
    BY <1>9, ServerStill DEF Serves, ServerRest
  <2>3. m.type # "updates_push"
    BY <2>1 DEF Answers, Fetches
  <2>4. Rising(inbox', m_rev) /\ (Calm(inbox) => Calm(inbox'))
    BY <1>1, <1>2, <2>1, <2>3, QueueAppend DEF Say1
  <2>5. UNCHANGED data_stream \/ data_stream = Null
    BY <1>9, <2>1, UpdatesOpens DEF Answers
  <2> QED BY <1>2, <2>2, <2>4, <2>5 DEF Ordered
<1>10. CASE ServerPush
  <2>1. /\ data_stream # Null /\ data_stream.rev \in Nat /\ data_stream.cid \in Nat
        /\ data_stream' = [cid |-> data_stream.cid, rev |-> data_stream.rev + 1]
        /\ \E m : Say1(m) /\ m.type = "updates_push" /\ m.rev = data_stream.rev + 1
    BY <1>10, ServerPushIs
  <2>2. PICK m : Say1(m) /\ m.type = "updates_push" /\ m.rev = data_stream.rev + 1
    BY <2>1
  <2>3. data_stream' # Null
    BY <2>1, StreamRecord
  <2>4. m_rev' = m_rev
    BY <1>10, ServerStill DEF Serves, ServerRest
  <2>5. /\ m_rev <= data_stream.rev
        /\ \A i \in 1 .. Len(inbox) : IsPush(inbox, i) => inbox[i].rev <= data_stream.rev
    BY <1>1, <2>1 DEF Stream, Streaming, Gapless
  <2>6. Rising(inbox', m_rev)
    BY <1>1, <1>2, <2>1, <2>2, <2>5, RisingPush DEF Say1
  <2> QED BY <2>3, <2>4, <2>6 DEF Ordered
<1>11. CASE ServerCommit
  <2>1. UNCHANGED <<m_state, m_rev, data_stream, inbox>>
    BY <1>11, CommitIs, ServerStill DEF Serves, ServerRest
  <2> QED BY <1>2, <2>1 DEF Ordered
<1>12. CASE SessionEvent
  <2>1. UNCHANGED <<m_state, m_rev, data_stream>>
    BY <1>12, SessionEventIs, ServerStill DEF Serves, ServerRest
  <2>2. inbox' = inbox \/ \E m : Say1(m) /\ m.type = "sessions_push"
    BY <1>12, SessionEventIs
  <2>3. Rising(inbox', m_rev) /\ (Calm(inbox) => Calm(inbox'))
    BY <1>1, <1>2, <2>2, QueueAppend DEF Say1
  <2> QED BY <1>2, <2>1, <2>3 DEF Ordered
<1> QED BY <1>3, <1>4, <1>5, <1>6, <1>7, <1>8, <1>9, <1>10, <1>11, <1>12, StepCases DEF Serves

LEMMA StreamKept ==
    ASSUME TypeOK, Standing, Stream, [Next]_vars
    PROVE  Stream'
BY CopyKept, BeforeKept, AskingKept, StreamingKept, OrderedKept DEF Stream

-----------------------------------------------------------------------------
(* What the server said.                                                   *)
Voice(q, t) == Mounting(q) /\ \A i \in 1 .. Len(q) : t <= q[i].crev

LEMMA VoiceTail ==
    ASSUME NEW q, IsSeq(q), q # <<>>, NEW t, Voice(q, t)
    PROVE  Voice(Tail(q), t) /\ Voice(Tail(q), q[1].crev)
<1> DEFINE s == Tail(q)
<1>1. /\ Len(q) \in Nat /\ Len(q) > 0 /\ Len(s) = Len(q) - 1 /\ 1 \in 1 .. Len(q)
      /\ \A i \in 1 .. Len(s) : i + 1 \in 1 .. Len(q) /\ s[i] = q[i + 1]
  BY TailIs
<1> HIDE DEF s
<1>2. ASSUME NEW i \in 1 .. Len(s), NEW j \in 1 .. Len(s), i < j
      PROVE  s[i].crev <= s[j].crev
  <2>1. /\ i + 1 \in 1 .. Len(q) /\ j + 1 \in 1 .. Len(q) /\ s[i] = q[i + 1] /\ s[j] = q[j + 1]
        /\ i + 1 < j + 1
    BY <1>1, <1>2
  <2>2. q[i + 1].crev <= q[j + 1].crev
    BY <2>1 DEF Voice, Mounting
  <2> QED BY <2>1, <2>2
<1>3. ASSUME NEW i \in 1 .. Len(s)
      PROVE  t <= s[i].crev /\ q[1].crev <= s[i].crev
  <2>1. i + 1 \in 1 .. Len(q) /\ s[i] = q[i + 1] /\ 1 < i + 1
    BY <1>1
  <2>2. t <= q[i + 1].crev /\ q[1].crev <= q[i + 1].crev
    BY <1>1, <2>1 DEF Voice, Mounting
  <2> QED BY <2>1, <2>2
<1> QED BY <1>2, <1>3 DEF Voice, Mounting, s

LEMMA VoiceAppend ==
    ASSUME NEW q, IsSeq(q), NEW t, Voice(q, t), NEW m, NEW last \in Nat, m.crev = last, t <= last,
           \A i \in 1 .. Len(q) : q[i].crev <= last
    PROVE  Voice(Append(q, m), t)
<1> DEFINE s == Append(q, m)
<1>1. /\ Len(q) \in Nat /\ Len(s) = Len(q) + 1 /\ s[Len(q) + 1] = m
      /\ \A i \in 1 .. Len(q) : s[i] = q[i]
      /\ \A i \in 1 .. Len(s) : i \in 1 .. Len(q) \/ i = Len(q) + 1
  BY AppendIs
<1> HIDE DEF s
<1>2. ASSUME NEW i \in 1 .. Len(s), NEW j \in 1 .. Len(s), i < j
      PROVE  s[i].crev <= s[j].crev
  <2>1. i \in 1 .. Len(q)
    BY <1>1, <1>2
  <2>2. CASE j \in 1 .. Len(q)
    BY <1>1, <1>2, <2>1, <2>2 DEF Voice, Mounting
  <2>3. CASE j = Len(q) + 1
    BY <1>1, <2>1, <2>3
  <2> QED BY <1>1, <2>2, <2>3
<1>3. \A i \in 1 .. Len(s) : t <= s[i].crev
  BY <1>1 DEF Voice
<1> QED BY <1>2, <1>3 DEF Voice, Mounting, s

LEMMA ForetoldHead ==
    ASSUME NEW q, Foretold(q)
    PROVE  ~IsPush(q, 1)
<1>1. PICK j \in 1 .. Len(q) : q[j].type = "updates" /\ \A i \in 1 .. j - 1 : ~IsPush(q, i)
  BY DEF Foretold
<1>2. CASE j = 1
  BY <1>1, <1>2 DEF IsPush
<1>3. CASE j # 1
  BY <1>1, <1>3
<1> QED BY <1>2, <1>3

LEMMA ForetoldTail ==
    ASSUME NEW q, IsSeq(q), q # <<>>, Foretold(q), q[1].type # "updates"
    PROVE  Foretold(Tail(q))
<1> DEFINE s == Tail(q)
<1>1. /\ Len(q) \in Nat /\ Len(q) > 0 /\ Len(s) = Len(q) - 1
      /\ \A i \in 1 .. Len(s) : i + 1 \in 1 .. Len(q) /\ s[i] = q[i + 1]
  BY TailIs
<1> HIDE DEF s
<1>2. PICK j \in 1 .. Len(q) : q[j].type = "updates" /\ \A i \in 1 .. j - 1 : ~IsPush(q, i)
  BY DEF Foretold
<1>3. j # 1 /\ j - 1 \in 1 .. Len(s) /\ j - 1 + 1 = j
  BY <1>1, <1>2
<1>4. s[j - 1].type = "updates"
  BY <1>1, <1>2, <1>3
<1>5. ASSUME NEW i \in 1 .. j - 1 - 1
      PROVE  ~IsPush(s, i)
  <2>1. i \in 1 .. Len(s) /\ i + 1 \in 1 .. j - 1
    BY <1>1, <1>3
  <2>2. s[i] = q[i + 1] /\ ~IsPush(q, i + 1)
    BY <1>1, <1>2, <2>1
  <2> QED BY <2>2 DEF IsPush
<1> QED BY <1>3, <1>4, <1>5 DEF Foretold, s

LEMMA ForetoldAppend ==
    ASSUME NEW q, IsSeq(q), NEW m
    PROVE  /\ Foretold(q) => Foretold(Append(q, m))
           /\ Calm(q) /\ m.type = "updates" => Foretold(Append(q, m))
<1> DEFINE s == Append(q, m)
<1>1. /\ Len(q) \in Nat /\ Len(s) = Len(q) + 1 /\ s[Len(q) + 1] = m
      /\ \A i \in 1 .. Len(q) : s[i] = q[i] /\ i \in 1 .. Len(s)
      /\ Len(q) + 1 \in 1 .. Len(s)
  BY AppendIs
<1> HIDE DEF s
<1>2. ASSUME Foretold(q)
      PROVE  Foretold(s)
  <2>1. PICK j \in 1 .. Len(q) : q[j].type = "updates" /\ \A i \in 1 .. j - 1 : ~IsPush(q, i)
    BY <1>2 DEF Foretold
  <2>2. \A i \in 1 .. j - 1 : ~IsPush(s, i)
    <3>1. ASSUME NEW i \in 1 .. j - 1
          PROVE  ~IsPush(s, i)
      <4>1. i \in 1 .. Len(q)
        BY <1>1
      <4> QED BY <1>1, <2>1, <4>1 DEF IsPush
    <3> QED BY <3>1
  <2>3. j \in 1 .. Len(s) /\ s[j].type = "updates"
    BY <1>1, <2>1
  <2> QED BY <2>2, <2>3 DEF Foretold
<1>3. ASSUME Calm(q), m.type = "updates"
      PROVE  Foretold(s)
  <2>1. ASSUME NEW i \in 1 .. Len(q) + 1 - 1
        PROVE  ~IsPush(s, i)
    <3>1. i \in 1 .. Len(q)
      BY <1>1
    <3> QED BY <1>1, <1>3, <3>1 DEF IsPush, Calm
  <2> QED BY <1>1, <1>3, <2>1 DEF Foretold
<1> QED BY <1>2, <1>3 DEF s

LEMMA CrevsAre ==
    ASSUME TypeOK
    PROVE  /\ IsSeq(inbox) /\ Len(log) \in Nat /\ told \in Nat /\ m_rev \in Nat
           /\ \A i \in 1 .. Len(inbox) : inbox[i].crev \in 1 .. Len(log) /\ inbox[i].crev \in Nat
                                         /\ inbox[i].crev <= Len(log)
<1>1. IsSeq(inbox) /\ Len(log) \in Nat /\ told \in Nat /\ m_rev \in Nat /\ MsgsOK(inbox, log)
  BY EmptyLen DEF TypeOK, ServerTypes, MsgTypesOK, ClientTypes
<1>2. \A i \in 1 .. Len(inbox) : inbox[i].crev \in 1 .. Len(log)
  BY <1>1 DEF MsgsOK, MsgOK
<1> QED BY <1>1, <1>2

LEMMA VoiceKept ==
    ASSUME TypeOK, Standing, Stream, Told, [Next]_vars
    PROVE  Voice(inbox, told)' /\ told' <= Len(log')
<1>1. Voice(inbox, told) /\ told <= Len(log) /\ Len(log) \in Nat /\ told \in Nat /\ IsSeq(inbox)
      /\ \A i \in 1 .. Len(inbox) : inbox[i].crev \in Nat /\ inbox[i].crev <= Len(log)
  BY CrevsAre DEF Told, Voice
<1>2. Len(log') \in Nat /\ Len(log) <= Len(log')
  BY LogKept
<1>3. ASSUME UNCHANGED told, \/ inbox' = inbox \/ inbox' = <<>>
                             \/ inbox # <<>> /\ inbox' = Tail(inbox)
                             \/ \E m : Say1(m)
      PROVE  Voice(inbox, told)' /\ told' <= Len(log')
  <2>1. told' <= Len(log')
    BY <1>1, <1>2, <1>3
  <2>2. CASE inbox' = inbox
    BY <1>1, <1>3, <2>1, <2>2 DEF Voice, Mounting
  <2>3. CASE inbox' = <<>>
    BY <2>1, <2>3, EmptyIs DEF Voice, Mounting
  <2>4. CASE inbox # <<>> /\ inbox' = Tail(inbox)
    <3>1. Voice(Tail(inbox), told)
      BY <1>1, <2>4, VoiceTail
    <3> QED BY <1>3, <2>1, <2>4, <3>1 DEF Voice, Mounting
  <2>5. CASE \E m : Say1(m)
    <3>1. PICK m : Say1(m)
      BY <2>5
    <3>2. Voice(Append(inbox, m), told)
      BY <1>1, <3>1, VoiceAppend DEF Say1
    <3>3. inbox' = Append(inbox, m)
      BY <3>1 DEF Say1
    <3> QED BY <1>3, <2>1, <3>2, <3>3 DEF Voice, Mounting
  <2> QED BY <1>3, <2>2, <2>3, <2>4, <2>5
<1>4. CASE Still \/ Ends
  BY <1>3, <1>4 DEF Still, copyvars, Ends
<1>5. CASE Sends
  BY <1>3, <1>5, SendsIs
<1>6. CASE GotLogin \/ GotSnapshot \/ GotPush \/ GotPing \/ GotSessions \/ GotEvent \/ InitialSessions
  <2>1. UNCHANGED told
    BY <1>6, LoginIs, SnapshotSends, PushDoes, ReplyIs, EventDoes, ListDoes
  <2>2. inbox' = inbox \/ (inbox # <<>> /\ inbox' = Tail(inbox))
    BY <1>6, LoginIs, SnapshotSends, PushDoes, ReplyIs, EventDoes, ListDoes DEF Standing
  <2> QED BY <1>3, <2>1, <2>2
<1>7. CASE GotUpdates
  <2>1. told' = inbox[1].crev /\ inbox # <<>> /\ inbox' = Tail(inbox)
    BY <1>7, UpdatesIs
  <2>2. Voice(Tail(inbox), inbox[1].crev) /\ 1 \in 1 .. Len(inbox)
    BY <1>1, <2>1, VoiceTail, TailIs
  <2>3. told' <= Len(log')
    BY <1>1, <1>2, <2>1, <2>2
  <2> QED BY <2>1, <2>2, <2>3 DEF Voice, Mounting
<1>8. CASE Serves
  <2>1. UNCHANGED told
    BY <1>8, ServerStill DEF ServerRest
  <2>2. inbox' = inbox \/ \E m : Say1(m)
    BY <1>8, AnswerIs, ServerPushIs, CommitIs, SessionEventIs DEF Serves
  <2> QED BY <1>3, <2>1, <2>2
<1> QED BY <1>4, <1>5, <1>6, <1>7, <1>8, StepCases

LEMMA ToldKept ==
    ASSUME TypeOK, Standing, Stream, Told, [Next]_vars
    PROVE  Told'
<1>1. /\ IsSeq(inbox) /\ told \in Nat /\ m_rev \in Nat
      /\ \A i \in 1 .. Len(inbox) : told <= inbox[i].crev /\ inbox[i].crev \in Nat /\ inbox[i].crev > 0
  BY CrevsAre DEF Told
<1>2. /\ m_state = "SYNCING" /\ data_stream # Null /\ told = 0 => Foretold(inbox)
      /\ m_state = "SYNCED" => told > 0 /\ told <= m_rev
  BY DEF Told
<1> DEFINE Goal == /\ m_state' = "SYNCING" /\ data_stream' # Null /\ told' = 0 => Foretold(inbox')
                   /\ m_state' = "SYNCED" => told' > 0 /\ told' <= m_rev'
<1>3. SUFFICES Goal
  <2>1. Voice(inbox, told)' /\ told' <= Len(log')
    BY VoiceKept
  <2> QED BY <1>3, <2>1 DEF Told, Voice
<1>4. CASE Still
  BY <1>2, <1>4 DEF Still, copyvars
<1>5. CASE Ends \/ GotLogin
  BY <1>5, LoginIs DEF Ends
<1>6. CASE Sends
  BY <1>2, <1>6, SendsIs
<1>7. CASE GotSnapshot
  BY <1>7, SnapshotSends DEF Stream, Before
<1>8. CASE GotUpdates
  <2>1. /\ told' = inbox[1].crev /\ inbox # <<>> /\ m_rev' = m_rev
        /\ m_state' = "SYNCED" => m_rev = inbox[1].crev
    BY <1>8, UpdatesIs
  <2>2. 1 \in 1 .. Len(inbox)
    BY <1>1, <2>1, TailIs
  <2> QED BY <1>1, <2>1, <2>2
<1>9. CASE GotPush
  <2>1. /\ inbox[1].rev = m_rev + 1 /\ m_rev' = m_rev + 1 /\ data_stream # Null
    BY <1>9, PushIsNext, PushIs
  <2>2. /\ inbox # <<>> /\ inbox' = Tail(inbox) /\ IsPush(inbox, 1) /\ UNCHANGED <<data_stream, told>>
        /\ m_state' = m_state \/ (m_state' = "SYNCED" /\ m_state = "SYNCING"
                                  /\ inbox[1].rev = inbox[1].crev)
    BY <1>9, PushDoes DEF IsPush, Syncs
  <2>3. 1 \in 1 .. Len(inbox)
    BY <1>1, <2>2, TailIs
  <2>4. m_state = "SYNCING" => told # 0
    BY <1>2, <2>1, <2>2, ForetoldHead
  <2> QED BY <1>1, <1>2, <2>1, <2>2, <2>3, <2>4
<1>10. CASE GotPing \/ GotSessions \/ GotEvent \/ InitialSessions
  <2>1. UNCHANGED <<m_state, m_rev, data_stream, told>>
    BY <1>10, ReplyIs, EventDoes, ListDoes
  <2>2. inbox' = inbox \/ (inbox # <<>> /\ inbox' = Tail(inbox) /\ inbox[1].type # "updates")
    BY <1>10, ReplyIs, EventDoes, ListDoes DEF Standing
  <2>3. Foretold(inbox) => Foretold(inbox')
    BY <1>1, <2>2, ForetoldTail
  <2> QED BY <1>2, <2>1, <2>3
<1>11. CASE ServerAnswer
  <2>1. PICK m : Say1(m) /\ Answers(outbox[1], m)
    BY <1>11, AnswerIs
  <2>2. UNCHANGED <<m_state, m_rev, told>>
    BY <1>11, ServerStill DEF Serves, ServerRest
  <2>3. CASE UNCHANGED data_stream
    <3>1. Foretold(inbox) => Foretold(inbox')
      BY <1>1, <2>1, ForetoldAppend DEF Say1
    <3> QED BY <1>2, <2>2, <2>3, <3>1
  <2>4. CASE outbox[1].type = "updates"
    <3>1. m.type = "updates"
      BY <2>1, <2>4 DEF Answers, Fetches
    <3>2. Calm(inbox)
      BY <1>11, <2>4, UpdatesOpens, NoPushIs
    <3>3. Foretold(inbox')
      BY <1>1, <2>1, <3>1, <3>2, ForetoldAppend DEF Say1
    <3> QED BY <1>2, <2>2, <3>3
  <2> QED BY <2>1, <2>3, <2>4 DEF Answers
<1>12. CASE ServerPush
  <2>1. data_stream # Null /\ \E m : Say1(m)
    BY <1>12, ServerPushIs
  <2>2. UNCHANGED <<m_state, m_rev, told>>
    BY <1>12, ServerStill DEF Serves, ServerRest
  <2>3. Foretold(inbox) => Foretold(inbox')
    BY <1>1, <2>1, ForetoldAppend DEF Say1
  <2> QED BY <1>2, <2>1, <2>2, <2>3
<1>13. CASE ServerCommit \/ SessionEvent
  <2>1. UNCHANGED data_stream /\ (inbox' = inbox \/ \E m : Say1(m))
    BY <1>13, CommitIs, SessionEventIs
  <2>2. UNCHANGED <<m_state, m_rev, told>>
    BY <1>13, ServerStill DEF Serves, ServerRest
  <2>3. Foretold(inbox) => Foretold(inbox')
    BY <1>1, <2>1, ForetoldAppend DEF Say1
  <2> QED BY <1>2, <2>1, <2>2, <2>3
<1> QED BY <1>4, <1>5, <1>6, <1>7, <1>8, <1>9, <1>10, <1>11, <1>12, <1>13, StepCases DEF Serves

-----------------------------------------------------------------------------
(* The sessions printed and the messages in flight.                        *)
LEMMA LeadsTail ==
    ASSUME NEW q, IsSeq(q), q # <<>>, NEW from, NEW to, NEW bound, Leads(q, from, to, bound)
    PROVE  \E b \in SUBSET Users : Effect(q[1], from, b) /\ Leads(Tail(q), b, to, bound)
<1> DEFINE s == Tail(q)
<1>1. /\ Len(q) \in Nat /\ Len(q) > 0 /\ Len(s) = Len(q) - 1 /\ 1 \in 1 .. Len(q)
      /\ \A i \in 1 .. Len(s) : i + 1 \in 1 .. Len(q) /\ s[i] = q[i + 1]
  BY TailIs
<1> HIDE DEF s
<1>2. PICK st \in [1 .. Len(q) + 1 -> SUBSET Users] :
          Chain(st, q, from) /\ (bound => st[Len(q) + 1] = to)
  BY DEF Leads
<1>3. st[1] = from /\ \A i \in 1 .. Len(q) : Effect(q[i], st[i], st[i + 1])
  BY <1>2 DEF Chain
<1> DEFINE su == [i \in 1 .. Len(s) + 1 |-> st[i + 1]]
<1>4. \A i \in 1 .. Len(s) + 1 : i + 1 \in 1 .. Len(q) + 1
  BY <1>1
<1>5. su \in [1 .. Len(s) + 1 -> SUBSET Users] /\ \A i \in 1 .. Len(s) + 1 : su[i] = st[i + 1]
  BY <1>2, <1>4
<1> HIDE DEF su
<1>6. su[1] = st[2] /\ su[Len(s) + 1] = st[Len(q) + 1] /\ st[2] \in SUBSET Users
  BY <1>1, <1>2, <1>5
<1>7. ASSUME NEW i \in 1 .. Len(s)
      PROVE  Effect(s[i], su[i], su[i + 1])
  <2>1. i + 1 \in 1 .. Len(q) /\ s[i] = q[i + 1] /\ i \in 1 .. Len(s) + 1 /\ i + 1 \in 1 .. Len(s) + 1
    BY <1>1
  <2>2. su[i] = st[i + 1] /\ su[i + 1] = st[i + 1 + 1]
    BY <1>5, <2>1
  <2>3. Effect(q[i + 1], st[i + 1], st[i + 1 + 1])
    BY <1>3, <2>1
  <2> QED BY <2>1, <2>2, <2>3
<1>8. Chain(su, s, st[2])
  BY <1>5, <1>6, <1>7 DEF Chain
<1>9. Leads(s, st[2], to, bound)
  BY <1>2, <1>5, <1>6, <1>8 DEF Leads
<1>10. Effect(q[1], from, st[2])
  <2>1. Effect(q[1], st[1], st[1 + 1])
    BY <1>1, <1>3
  <2> QED BY <1>3, <2>1
<1> QED BY <1>6, <1>9, <1>10 DEF s

LEMMA ChainAppend ==
    ASSUME NEW q, IsSeq(q), NEW from, NEW st \in [1 .. Len(q) + 1 -> SUBSET Users],
           Chain(st, q, from), NEW m, NEW b \in SUBSET Users, Effect(m, st[Len(q) + 1], b)
    PROVE  Leads(Append(q, m), from, b, TRUE)
<1> DEFINE s == Append(q, m)
<1>1. /\ Len(q) \in Nat /\ Len(s) = Len(q) + 1 /\ s[Len(q) + 1] = m
      /\ \A i \in 1 .. Len(q) : s[i] = q[i]
      /\ \A i \in 1 .. Len(s) : i \in 1 .. Len(q) \/ i = Len(q) + 1
  BY AppendIs
<1> HIDE DEF s
<1> DEFINE su == [i \in 1 .. Len(s) + 1 |-> IF i = Len(s) + 1 THEN b ELSE st[i]]
<1>2. \A i \in 1 .. Len(s) + 1 : i # Len(s) + 1 => i \in 1 .. Len(q) + 1
  BY <1>1
<1>3. su \in [1 .. Len(s) + 1 -> SUBSET Users]
  BY <1>2
<1>4. su[Len(s) + 1] = b
  BY <1>1
<1>5. ASSUME NEW i \in 1 .. Len(q) + 1
      PROVE  su[i] = st[i]
  BY <1>1
<1> HIDE DEF su
<1>6. su[1] = from
  BY <1>1, <1>5 DEF Chain
<1>7. ASSUME NEW i \in 1 .. Len(s)
      PROVE  Effect(s[i], su[i], su[i + 1])
  <2>1. CASE i \in 1 .. Len(q)
    <3>1. i \in 1 .. Len(q) + 1 /\ i + 1 \in 1 .. Len(q) + 1 /\ s[i] = q[i]
      BY <1>1, <2>1
    <3>2. su[i] = st[i] /\ su[i + 1] = st[i + 1]
      BY <1>5, <3>1
    <3>3. Effect(q[i], st[i], st[i + 1])
      BY <2>1 DEF Chain
    <3> QED BY <3>1, <3>2, <3>3
  <2>2. CASE i = Len(q) + 1
    <3>1. i \in 1 .. Len(q) + 1 /\ s[i] = m /\ i + 1 = Len(s) + 1
      BY <1>1, <2>2
    <3>2. su[i] = st[Len(q) + 1] /\ su[i + 1] = b
      BY <1>4, <1>5, <2>2, <3>1
    <3> QED BY <3>1, <3>2
  <2> QED BY <1>1, <2>1, <2>2
<1>8. Chain(su, s, from)
  BY <1>3, <1>6, <1>7 DEF Chain
<1>9. Leads(s, from, b, TRUE)
  BY <1>3, <1>4, <1>8 DEF Leads
<1> QED BY <1>9 DEF s

LEMMA LeadsLoose ==
    ASSUME NEW q, NEW from, NEW to, NEW bound, Leads(q, from, to, bound), NEW too, NEW less,
           less => bound /\ to = too
    PROVE  Leads(q, from, too, less)
BY DEF Leads

(* Nothing for the sessions.                                               *)
Neutral(m) == m.type \notin {"sessions", "sessions_push"}
LEMMA EffectIs ==
    ASSUME NEW m, NEW a, NEW b
    PROVE  /\ Neutral(m) => (Effect(m, a, b) <=> b = a)
           /\ m.type = "sessions" => (Effect(m, a, b) <=> b = {s.user : s \in m.data})
           /\ m.type = "sessions_push" => (Effect(m, a, b) <=>
                /\ (m.data.code = "CONNECTED") = (m.data.user \notin a)
                /\ (m.data.code = "CONNECTED") = (m.data.until = 0)
                /\ b = IF m.data.code = "CONNECTED" THEN a \cup {m.data.user} ELSE a \ {m.data.user})
<1>1. CASE m.type = "sessions"
  BY <1>1, Zenon DEF Effect, Neutral
<1>2. CASE m.type = "sessions_push"
  BY <1>2 DEF Effect, Neutral
<1>3. CASE m.type \notin {"sessions", "sessions_push"}
  BY <1>3 DEF Effect, Neutral
<1> QED BY <1>1, <1>2, <1>3

LEMMA LeadsNeutral ==
    ASSUME NEW q, IsSeq(q), NEW from, NEW to, NEW bound, Leads(q, from, to, bound), NEW m, Neutral(m)
    PROVE  Leads(Append(q, m), from, to, bound)
<1>1. PICK st \in [1 .. Len(q) + 1 -> SUBSET Users] :
          Chain(st, q, from) /\ (bound => st[Len(q) + 1] = to)
  BY DEF Leads
<1>2. PICK b : b = st[Len(q) + 1]
  OBVIOUS
<1>3. b \in SUBSET Users
  <2>1. Len(q) + 1 \in 1 .. Len(q) + 1
    BY EmptyLen
  <2> QED BY <1>1, <1>2, <2>1
<1>4. Effect(m, st[Len(q) + 1], b)
  BY <1>2, EffectIs
<1>5. Leads(Append(q, m), from, b, TRUE)
  BY <1>1, <1>3, <1>4, ChainAppend
<1> QED BY <1>1, <1>2, <1>5, LeadsLoose

LEMMA LeadsList ==
    ASSUME NEW q, IsSeq(q), NEW from, NEW to, NEW bound, Leads(q, from, to, bound), NEW m,
           m.type = "sessions", NEW b \in SUBSET Users, b = {s.user : s \in m.data}
    PROVE  Leads(Append(q, m), from, b, TRUE)
<1>1. PICK st \in [1 .. Len(q) + 1 -> SUBSET Users] : Chain(st, q, from)
  BY DEF Leads
<1>2. Effect(m, st[Len(q) + 1], b)
  BY EffectIs
<1> QED BY <1>1, <1>2, ChainAppend

LEMMA LeadsEvent ==
    ASSUME NEW q, IsSeq(q), NEW from, NEW to, Leads(q, from, to, TRUE), NEW m,
           NEW b \in SUBSET Users, Effect(m, to, b)
    PROVE  Leads(Append(q, m), from, b, TRUE)
<1>1. PICK st \in [1 .. Len(q) + 1 -> SUBSET Users] : Chain(st, q, from) /\ st[Len(q) + 1] = to
  BY DEF Leads
<1> QED BY <1>1, ChainAppend

(* The list of sessions that arrives is the one that was asked for.        *)
LEMMA ListExpected ==
    ASSUME TypeOK, Stage, PrintsSessions, Got("sessions")
    PROVE  Replied /\ Answered(inbox[1])
<1>1. /\ loop.pc = "idle" /\ m_state # "CLOSED" /\ inbox # <<>> /\ inbox[1].type = "sessions"
      /\ IsSeq(inbox) /\ m_requests \in Seq(Commands)
  BY DEF Got, TypeOK, ServerTypes, ClientTypes
<1>2. 1 \in 1 .. Len(inbox)
  BY <1>1, TailIs
<1>3. ~Free(inbox, Given)
  BY <1>1, <1>2 DEF Free, Given
<1>4. Replied
  BY <1>1, <1>3 DEF Stage, Somewhere, Idling, Queued, Quiet, Sent, Taken
<1>5. Len(m_requests) = 1 /\ Single(inbox, Given, "sessions", m_requests[1].cid)
  BY <1>4 DEF Replied
<1>6. inbox[1].cid = m_requests[1].cid
  BY <1>1, <1>2, <1>5 DEF Single, Given
<1>7. m_requests # <<>> /\ Head(m_requests) = m_requests[1]
  BY <1>1, <1>5, EmptyIs
<1> QED BY <1>4, <1>6, <1>7 DEF Answered

LEMMA NoPing ==
    ASSUME TypeOK, Stage, PrintsSessions, Got("ping")
    PROVE  FALSE
<1>1. /\ loop.pc = "idle" /\ m_state # "CLOSED" /\ inbox # <<>> /\ inbox[1].type = "ping"
      /\ IsSeq(inbox)
  BY DEF Got, TypeOK, ServerTypes
<1>2. 1 \in 1 .. Len(inbox)
  BY <1>1, TailIs
<1>3. ~Free(inbox, Given)
  BY <1>1, <1>2 DEF Free, Given
<1>4. ASSUME NEW cid
      PROVE  ~Single(inbox, Given, "sessions", cid)
  BY <1>1, <1>2 DEF Single, Given
<1> QED BY <1>1, <1>3, <1>4 DEF Stage, Somewhere, Idling, Queued, Quiet, Sent, Replied, Taken

LEMMA ReadSame ==
    ASSUME TypeOK, Stream, GotSnapshot \/ GotPush
    PROVE  /\ reader'.sessions = reader.sessions /\ reader'.listed = reader.listed
           /\ reader'.puzzled = reader.puzzled
<1>1. reader.listed \in BOOLEAN /\ reader.puzzled \in BOOLEAN
  BY DEF TypeOK, ReaderTypes
<1>2. \/ Read(m_store', m_rev', reader.sessions, reader.listed, reader.puzzled)
      \/ reader' = reader
  BY SnapshotIs, PushIs
<1> QED BY <1>1, <1>2, ReadFields

(* An event is one that the reader expects.                                *)
LEMMA EventFits ==
    ASSUME TypeOK, Mirror, PrintsSessions, GotEvent
    PROVE  /\ reader'.puzzled = reader.puzzled /\ reader'.listed = reader.listed
           /\ Leads(Tail(inbox), reader'.sessions, sessions, sessions_stream # Null)
<1> DEFINE m == inbox[1]
           e == inbox[1].data
           comes == e.code = "CONNECTED"
           s == IF comes THEN reader.sessions \cup {e.user} ELSE reader.sessions \ {e.user}
           p == reader.puzzled \/ comes = (e.user \in reader.sessions) \/ comes = (e.until # 0)
<1>1. m.type = "sessions_push" /\ inbox # <<>> /\ m_state # "CLOSED" /\ IsSeq(inbox)
  BY EventDoes DEF TypeOK, ServerTypes
<1>2. Leads(inbox, reader.sessions, sessions, sessions_stream # Null)
  BY <1>1 DEF Mirror
<1>3. PICK b \in SUBSET Users :
          Effect(m, reader.sessions, b) /\ Leads(Tail(inbox), b, sessions, sessions_stream # Null)
  BY <1>1, <1>2, LeadsTail
<1>4. comes = (e.user \notin reader.sessions) /\ comes = (e.until = 0) /\ b = s
  BY <1>1, <1>3, EffectIs
<1>5. Read(reader.data, reader.rev, s, reader.listed, p)
  BY EventIs
<1>6. reader.listed \in BOOLEAN /\ reader.puzzled \in BOOLEAN /\ p \in BOOLEAN
  BY DEF TypeOK, ReaderTypes
<1>7. p = reader.puzzled
  BY <1>4, <1>6
<1> HIDE DEF s, p
<1>8. reader'.sessions = s /\ reader'.listed = reader.listed /\ reader'.puzzled = p
  BY <1>5, <1>6, ReadFields
<1> QED BY <1>3, <1>4, <1>7, <1>8

LEMMA ListRead ==
    ASSUME TypeOK, InitialSessions
    PROVE  /\ reader'.puzzled = reader.puzzled
           /\ PrintsSessions => /\ reader'.listed = TRUE
                                /\ reader'.sessions = {s.user : s \in Head(inbox).data}
<1> DEFINE u == {s.user : s \in Head(inbox).data}
<1>1. IF PrintsSessions THEN Read(reader.data, reader.rev, u, TRUE, reader.puzzled)
      ELSE reader' = reader
  BY ListIs
<1> HIDE DEF u
<1>2. ASSUME Read(reader.data, reader.rev, u, TRUE, reader.puzzled)
      PROVE  reader'.puzzled = reader.puzzled /\ reader'.listed = TRUE /\ reader'.sessions = u
  BY <1>2 DEF Read
<1>3. CASE PrintsSessions
  BY <1>1, <1>2, <1>3 DEF u
<1>4. CASE ~PrintsSessions
  BY <1>1, <1>4
<1> QED BY <1>3, <1>4

LEMMA MirrorKept ==
    ASSUME TypeOK, Standing, Stream, Listing, [Next]_vars
    PROVE  Mirror'
<1>1. Stage /\ Mirror /\ IsSeq(inbox) /\ sessions \in SUBSET Users
  BY DEF Listing, TypeOK, ServerTypes
<1>2. ASSUME PrintsSessions, m_state # "CLOSED"
      PROVE  Leads(inbox, reader.sessions, sessions, sessions_stream # Null)
  BY <1>1, <1>2 DEF Mirror
<1>3. ASSUME UNCHANGED program, m_state = "CLOSED" => m_state' = "CLOSED",
             PrintsSessions /\ m_state # "CLOSED" =>
                Leads(inbox', reader'.sessions, sessions', sessions_stream' # Null)
      PROVE  Mirror'
  <2>1. PrintsSessions' = PrintsSessions
    BY <1>3 DEF PrintsSessions
  <2> QED BY <1>3, <2>1 DEF Mirror
<1>4. CASE Still
  BY <1>2, <1>3, <1>4 DEF Still, copyvars
<1>5. CASE Ends
  BY <1>5 DEF Ends, Mirror
<1>6. CASE Sends
  BY <1>2, <1>3, <1>6, SendsIs
<1>7. CASE GotLogin \/ GotSnapshot \/ GotUpdates \/ GotPush \/ GotPing
  <2>1. /\ UNCHANGED <<program, sessions, sessions_stream>> /\ inbox # <<>> /\ inbox' = Tail(inbox)
        /\ m_state # "CLOSED"
    BY <1>7, LoginIs, SnapshotSends, UpdatesIs, PushDoes, ReplyIs DEF GotPing
  <2>2. Neutral(inbox[1])
    BY <1>7, LoginIs, SnapshotSends, UpdatesIs, PushDoes DEF Neutral, GotPing, Got
  <2>3. reader'.sessions = reader.sessions
    BY <1>7, LoginIs, ReadSame, UpdatesIs, ReplyIs
  <2>4. ASSUME PrintsSessions
        PROVE  Leads(inbox', reader.sessions, sessions, sessions_stream # Null)
    <3>1. PICK b \in SUBSET Users : Effect(inbox[1], reader.sessions, b)
                /\ Leads(Tail(inbox), b, sessions, sessions_stream # Null)
      BY <1>1, <1>2, <2>1, <2>4, LeadsTail
    <3> QED BY <2>1, <2>2, <3>1, EffectIs
  <2> QED BY <1>3, <2>1, <2>3, <2>4
<1>8. CASE GotSessions
  <2>1. UNCHANGED <<program, sessions, sessions_stream, reader, m_state>>
    BY <1>8, ReplyIs
  <2>2. PrintsSessions => inbox' = inbox
    BY <1>1, <1>8, ListExpected DEF GotSessions
  <2> QED BY <1>2, <1>3, <2>1, <2>2
<1>9. CASE GotEvent
  <2>1. UNCHANGED <<program, sessions, sessions_stream, m_state>> /\ inbox' = Tail(inbox)
    BY <1>9, EventDoes
  <2>2. PrintsSessions => Leads(Tail(inbox), reader'.sessions, sessions, sessions_stream # Null)
    BY <1>1, <1>9, EventFits
  <2> QED BY <1>3, <2>1, <2>2
<1>10. CASE InitialSessions
  <2>1. UNCHANGED <<program, sessions, sessions_stream, m_state>> /\ inbox' = Tail(inbox)
    BY <1>10, ListDoes
  <2>2. inbox # <<>> /\ inbox[1].type = "sessions"
    BY <1>10, ListDoes DEF Standing
  <2>3. Head(inbox) = inbox[1]
    BY <1>1, <2>2, TailIs
  <2>4. ASSUME PrintsSessions, m_state # "CLOSED"
        PROVE  Leads(inbox', reader'.sessions, sessions, sessions_stream # Null)
    <3>1. PICK b \in SUBSET Users : Effect(inbox[1], reader.sessions, b)
                /\ Leads(Tail(inbox), b, sessions, sessions_stream # Null)
      BY <1>1, <1>2, <2>2, <2>4, LeadsTail
    <3>2. b = {s.user : s \in inbox[1].data}
      BY <2>2, <3>1, EffectIs
    <3>3. reader'.sessions = b
      BY <1>10, <2>3, <2>4, <3>2, ListRead
    <3> QED BY <2>1, <3>1, <3>3
  <2> QED BY <1>3, <2>1, <2>4
<1>11. CASE ServerAnswer
  <2>1. UNCHANGED sessions /\ \E m : Say1(m) /\ Answers(outbox[1], m)
    BY <1>11, AnswerIs
  <2>2. PICK m : Say1(m) /\ Answers(outbox[1], m)
    BY <2>1
  <2>3. UNCHANGED <<program, m_state, reader>> /\ inbox' = Append(inbox, m)
    BY <1>11, <2>2, ServerStill DEF Serves, ServerRest, Say1
  <2>4. CASE UNCHANGED sessions_stream /\ Neutral(m)
    BY <1>1, <1>2, <1>3, <2>1, <2>3, <2>4, LeadsNeutral
  <2>5. CASE m.type = "sessions" /\ m.data = {Active(s) : s \in sessions}
    <3>1. \A s : Active(s).user = s
      BY DEF Active
    <3>2. sessions = {a.user : a \in m.data}
      BY <2>5, <3>1
    <3>3. ASSUME PrintsSessions, m_state # "CLOSED"
          PROVE  Leads(inbox', reader.sessions, sessions, sessions_stream' # Null)
      <4>1. Leads(Append(inbox, m), reader.sessions, sessions, TRUE)
        BY <1>1, <1>2, <2>5, <3>2, <3>3, LeadsList
      <4> QED BY <2>3, <4>1, LeadsLoose
    <3> QED BY <1>3, <2>1, <2>3, <3>3
  <2> QED BY <2>2, <2>4, <2>5 DEF Answers, Neutral
<1>12. CASE ServerPush
  <2>1. UNCHANGED <<sessions, sessions_stream>> /\ \E m : Say1(m) /\ m.type = "updates_push"
    BY <1>12, ServerPushIs
  <2>2. PICK m : Say1(m) /\ m.type = "updates_push"
    BY <2>1
  <2>3. UNCHANGED <<program, m_state, reader>> /\ inbox' = Append(inbox, m) /\ Neutral(m)
    BY <1>12, <2>2, ServerStill DEF Serves, ServerRest, Say1, Neutral
  <2> QED BY <1>1, <1>2, <1>3, <2>1, <2>3, LeadsNeutral
<1>13. CASE ServerCommit
  <2>1. UNCHANGED <<sessions, sessions_stream, inbox>>
    BY <1>13, CommitIs
  <2>2. UNCHANGED <<program, m_state, reader>>
    BY <1>13, ServerStill DEF Serves, ServerRest
  <2> QED BY <1>2, <1>3, <2>1, <2>2
<1>14. CASE SessionEvent
  <2>1. UNCHANGED <<program, m_state, reader>>
    BY <1>14, ServerStill DEF Serves, ServerRest
  <2>2. UNCHANGED sessions_stream /\ sessions' \in SUBSET Users
    BY <1>14, SessionEventIs
  <2>3. CASE sessions_stream = Null /\ inbox' = inbox
    BY <1>2, <1>3, <2>1, <2>2, <2>3, LeadsLoose
  <2>4. CASE sessions_stream # Null /\ \E m : /\ Say1(m) /\ m.type = "sessions_push"
                                              /\ \E s \in Others : Toggles(s, m.data)
    <3>1. PICK m : /\ Say1(m) /\ m.type = "sessions_push" /\ \E s \in Others : Toggles(s, m.data)
      BY <2>4
    <3>2. Effect(m, sessions, sessions')
      BY <3>1, EffectIs DEF Toggles
    <3>3. ASSUME PrintsSessions, m_state # "CLOSED"
          PROVE  Leads(inbox', reader.sessions, sessions', sessions_stream # Null)
      <4>1. Leads(inbox, reader.sessions, sessions, TRUE)
        BY <1>2, <2>4, <3>3, LeadsLoose
      <4>2. Leads(Append(inbox, m), reader.sessions, sessions', TRUE)
        BY <1>1, <2>2, <3>2, <4>1, LeadsEvent
      <4>3. inbox' = Append(inbox, m)
        BY <3>1 DEF Say1
      <4> QED BY <4>2, <4>3, LeadsLoose
    <3> QED BY <1>3, <2>1, <2>2, <3>3
  <2> QED BY <1>14, <2>3, <2>4, SessionEventIs
<1> QED BY <1>4, <1>5, <1>6, <1>7, <1>8, <1>9, <1>10, <1>11, <1>12, <1>13, <1>14, StepCases DEF Serves

LEMMA NotPuzzled ==
    ASSUME TypeOK, Standing, Stream, Listing, ~reader.puzzled, [Next]_vars
    PROVE  ~reader'.puzzled
<1>1. CASE Still \/ Ends \/ Sends \/ GotLogin \/ GotUpdates \/ GotPing \/ GotSessions \/ Serves
  <2>1. reader' = reader
    BY <1>1, SendsIs, LoginIs, UpdatesIs, ReplyIs, ServerStill DEF Still, copyvars, Ends, ServerRest
  <2> QED BY <2>1
<1>2. CASE GotSnapshot \/ GotPush
  BY <1>2, ReadSame
<1>3. CASE GotEvent
  <2>1. CASE PrintsSessions
    BY <1>3, <2>1, EventFits DEF Listing
  <2>2. CASE ~PrintsSessions
    BY <1>3, <2>2, EventIs
  <2> QED BY <2>1, <2>2
<1>4. CASE InitialSessions
  BY <1>4, ListRead
<1> QED BY <1>1, <1>2, <1>3, <1>4, StepCases

-----------------------------------------------------------------------------
(* The request for the sessions.                                           *)
LEMMA FreeIs ==
    ASSUME NEW q, IsSeq(q), NEW types
    PROVE  /\ Free(q, types) /\ q # <<>> => Free(Tail(q), types) /\ q[1].type \notin types
           /\ \A m : Free(q, types) /\ m.type \notin types => Free(Append(q, m), types)
           /\ \A type : First(q, types, type) => Free(Tail(q), types)
           /\ \A m, type : First(q, types, type) /\ m.type \notin types =>
                  First(Append(q, m), types, type)
<1>1. ASSUME Free(q, types), q # <<>>
      PROVE  Free(Tail(q), types) /\ q[1].type \notin types
  BY <1>1, TailIs DEF Free
<1>2. ASSUME NEW m, Free(q, types), m.type \notin types
      PROVE  Free(Append(q, m), types)
  BY <1>2, AppendIs DEF Free
<1>3. ASSUME NEW type, First(q, types, type)
      PROVE  Free(Tail(q), types)
  <2> DEFINE s == Tail(q)
  <2>1. /\ Len(q) \in Nat /\ Len(s) = Len(q) - 1
        /\ \A i \in 1 .. Len(s) : i + 1 \in 1 .. Len(q) /\ s[i] = q[i + 1]
    BY <1>3, TailIs DEF First
  <2> HIDE DEF s
  <2>2. ASSUME NEW i \in 1 .. Len(s)
        PROVE  s[i].type \notin types
    <3>1. i + 1 \in 2 .. Len(q) /\ s[i] = q[i + 1]
      BY <2>1
    <3> QED BY <1>3, <3>1 DEF First
  <2> QED BY <2>2 DEF Free, s
<1>4. ASSUME NEW m, NEW type, First(q, types, type), m.type \notin types
      PROVE  First(Append(q, m), types, type)
  <2> DEFINE s == Append(q, m)
  <2>1. s # <<>> /\ s[1] = q[1]
    BY <1>4, AppendHead DEF First
  <2>2. /\ Len(q) \in Nat /\ Len(s) = Len(q) + 1 /\ s[Len(q) + 1] = m
        /\ \A i \in 1 .. Len(q) : s[i] = q[i]
    BY AppendIs
  <2> HIDE DEF s
  <2>3. ASSUME NEW i \in 2 .. Len(s)
        PROVE  s[i].type \notin types
    <3>1. CASE i \in 2 .. Len(q)
      <4>1. i \in 1 .. Len(q)
        BY <2>2, <3>1
      <4> QED BY <1>4, <2>2, <3>1, <4>1 DEF First
    <3>2. CASE i = Len(q) + 1
      BY <1>4, <2>2, <3>2
    <3> QED BY <2>2, <3>1, <3>2
  <2> QED BY <1>4, <2>1, <2>3 DEF First, s
<1> QED BY <1>1, <1>2, <1>3, <1>4

LEMMA SingleTail ==
    ASSUME NEW q, IsSeq(q), q # <<>>, NEW types, NEW type, NEW cid, Single(q, types, type, cid),
           type \in types
    PROVE  /\ q[1].type \notin types => Single(Tail(q), types, type, cid)
           /\ q[1].type \in types =>
                /\ q[1].type = type /\ q[1].cid = cid /\ Free(Tail(q), types)
                /\ First(q, types, type)
<1> DEFINE s == Tail(q)
<1>1. /\ Len(q) \in Nat /\ Len(s) = Len(q) - 1 /\ 1 \in 1 .. Len(q)
      /\ \A i \in 1 .. Len(s) : i + 1 \in 1 .. Len(q) /\ s[i] = q[i + 1]
  BY TailIs
<1> HIDE DEF s
<1>2. PICK i \in 1 .. Len(q) : /\ q[i].type = type /\ q[i].cid = cid
                               /\ \A j \in 1 .. Len(q) : j # i => q[j].type \notin types
  BY DEF Single
<1>3. ASSUME q[1].type \notin types
      PROVE  Single(s, types, type, cid)
  <2>1. i # 1 /\ i - 1 \in 1 .. Len(s) /\ i - 1 + 1 = i
    BY <1>1, <1>2, <1>3
  <2>2. s[i - 1] = q[i]
    BY <1>1, <2>1
  <2>3. ASSUME NEW j \in 1 .. Len(s), j # i - 1
        PROVE  s[j].type \notin types
    <3>1. j + 1 \in 1 .. Len(q) /\ s[j] = q[j + 1] /\ j + 1 # i
      BY <1>1, <2>1, <2>3
    <3> QED BY <1>2, <3>1
  <2> QED BY <1>2, <2>1, <2>2, <2>3 DEF Single
<1>4. ASSUME q[1].type \in types
      PROVE  q[1].type = type /\ q[1].cid = cid /\ First(q, types, type)
  <2>1. i = 1
    BY <1>1, <1>2, <1>4
  <2>2. \A j \in 2 .. Len(q) : j \in 1 .. Len(q) /\ j # 1
    BY <1>1
  <2> QED BY <1>2, <2>1, <2>2 DEF First
<1> QED BY <1>3, <1>4, FreeIs DEF s

LEMMA SingleAppend ==
    ASSUME NEW q, IsSeq(q), NEW types, NEW type, NEW cid, NEW m
    PROVE  /\ Single(q, types, type, cid) /\ m.type \notin types =>
                  Single(Append(q, m), types, type, cid)
           /\ Free(q, types) /\ m.type = type /\ m.cid = cid => Single(Append(q, m), types, type, cid)
<1> DEFINE s == Append(q, m)
<1>1. /\ Len(q) \in Nat /\ Len(s) = Len(q) + 1 /\ s[Len(q) + 1] = m
      /\ \A i \in 1 .. Len(q) : s[i] = q[i] /\ i \in 1 .. Len(s)
      /\ \A i \in 1 .. Len(s) : i \in 1 .. Len(q) \/ i = Len(q) + 1
      /\ Len(q) + 1 \in 1 .. Len(s)
  BY AppendIs
<1> HIDE DEF s
<1>2. ASSUME Single(q, types, type, cid), m.type \notin types
      PROVE  Single(s, types, type, cid)
  <2>1. PICK i \in 1 .. Len(q) : /\ q[i].type = type /\ q[i].cid = cid
                                 /\ \A j \in 1 .. Len(q) : j # i => q[j].type \notin types
    BY <1>2 DEF Single
  <2>2. \A j \in 1 .. Len(s) : j # i => s[j].type \notin types
    BY <1>1, <1>2, <2>1
  <2> QED BY <1>1, <2>1, <2>2 DEF Single
<1>3. ASSUME Free(q, types), m.type = type, m.cid = cid
      PROVE  Single(s, types, type, cid)
  <2>1. \A j \in 1 .. Len(s) : j # Len(q) + 1 => s[j].type \notin types
    BY <1>1, <1>3 DEF Free
  <2> QED BY <1>1, <1>3, <2>1 DEF Single
<1> QED BY <1>2, <1>3 DEF s

LEMMA CmdAppend ==
    ASSUME NEW q, IsSeq(q), NEW m
    PROVE  /\ NoCmd(q) /\ m.kind = "close" => NoCmd(Append(q, m))
           /\ OneCmd(q) /\ m.kind = "close" => OneCmd(Append(q, m))
           /\ NoCmd(q) /\ m.kind \in Fetches => OneCmd(Append(q, m))
<1> DEFINE s == Append(q, m)
<1>1. /\ Len(q) \in Nat /\ Len(s) = Len(q) + 1 /\ s[Len(q) + 1] = m
      /\ \A i \in 1 .. Len(q) : s[i] = q[i] /\ i \in 1 .. Len(s)
      /\ \A i \in 1 .. Len(s) : i \in 1 .. Len(q) \/ i = Len(q) + 1
      /\ Len(q) + 1 \in 1 .. Len(s)
  BY AppendIs
<1> HIDE DEF s
<1>2. NoCmd(q) /\ m.kind = "close" => NoCmd(s)
  BY <1>1 DEF NoCmd
<1>3. ASSUME OneCmd(q), m.kind = "close"
      PROVE  OneCmd(s)
  <2>1. PICK i \in 1 .. Len(q) :
            q[i].kind \in Fetches /\ \A j \in 1 .. Len(q) : j # i => q[j].kind = "close"
    BY <1>3 DEF OneCmd
  <2>2. \A j \in 1 .. Len(s) : j # i => s[j].kind = "close"
    BY <1>1, <1>3, <2>1
  <2> QED BY <1>1, <2>1, <2>2 DEF OneCmd
<1>4. ASSUME NoCmd(q), m.kind \in Fetches
      PROVE  OneCmd(s)
  <2>1. \A j \in 1 .. Len(s) : j # Len(q) + 1 => s[j].kind = "close"
    BY <1>1, <1>4 DEF NoCmd
  <2> QED BY <1>1, <1>4, <2>1 DEF OneCmd
<1> QED BY <1>2, <1>3, <1>4 DEF s

LEMMA CmdTail ==
    ASSUME NEW q, IsSeq(q), q # <<>>, q[1].kind # "close"
    PROVE  ~NoCmd(q) /\ (OneCmd(q) => NoCmd(Tail(q)) /\ q[1].kind \in Fetches)
<1> DEFINE s == Tail(q)
<1>1. /\ Len(q) \in Nat /\ Len(s) = Len(q) - 1 /\ 1 \in 1 .. Len(q)
      /\ \A i \in 1 .. Len(s) : i + 1 \in 1 .. Len(q) /\ s[i] = q[i + 1]
  BY TailIs
<1> HIDE DEF s
<1>2. ~NoCmd(q)
  BY <1>1 DEF NoCmd
<1>3. ASSUME OneCmd(q)
      PROVE  NoCmd(s) /\ q[1].kind \in Fetches
  <2>1. PICK i \in 1 .. Len(q) :
            q[i].kind \in Fetches /\ \A j \in 1 .. Len(q) : j # i => q[j].kind = "close"
    BY <1>3 DEF OneCmd
  <2>2. i = 1
    BY <1>1, <2>1
  <2>3. ASSUME NEW j \in 1 .. Len(s)
        PROVE  s[j].kind = "close"
    <3>1. j + 1 \in 1 .. Len(q) /\ s[j] = q[j + 1] /\ j + 1 # 1
      BY <1>1
    <3> QED BY <2>1, <2>2, <3>1
  <2> QED BY <2>1, <2>2, <2>3 DEF NoCmd
<1> QED BY <1>2, <1>3 DEF s

(* The program that prints the sessions asks for them in its second call.  *)
LEMMA ListCall ==
    ASSUME TypeOK, Calls, PrintsSessions
    PROVE  /\ next \in 1 .. Len(Script[program]) /\ Len(Script[program]) \in Nat
           /\ Len(Script[program]) > 2
           /\ Op # "ping" /\ (Op \in Fetches => next = 2)
           /\ next = 1 => Op = "wait_synced"
<1>1. program \in {"watcher", "sessions_only", "once"} /\ program \in DOMAIN Script
  BY DEF PrintsSessions, TypeOK, MainTypes
<1>2. next \in Nat \ {0} /\ next <= Len(Script[program]) /\ Len(Script[program]) \in Nat
  BY <1>1, ScriptLen DEF TypeOK, MainTypes, Calls
<1>3. next \in 1 .. Len(Script[program])
  BY <1>2
<1>4. CASE program \in {"watcher", "sessions_only"}
  <2>1. Script[program] = <<"wait_synced", "fetch_stream", "get", "wait_closed">>
    BY <1>4, ScriptIs
  <2>2. next \in {1, 2, 3, 4} /\ Len(Script[program]) = 4
    BY <1>3, <2>1
  <2> QED BY <1>2, <1>3, <2>1, <2>2 DEF Op, Fetches
<1>5. CASE program = "once"
  <2>1. Script[program] = <<"wait_synced", "fetch", "get", "close", "wait_closed">>
    BY <1>5, ScriptIs
  <2>2. next \in {1, 2, 3, 4, 5} /\ Len(Script[program]) = 5
    BY <1>3, <2>1
  <2> QED BY <1>2, <1>3, <2>1, <2>2 DEF Op, Fetches
<1> QED BY <1>1, <1>4, <1>5

(* While the client is not closed, its lists change only in these steps.   *)
LEMMA LiveCases ==
    ASSUME TypeOK, Standing, m_state # "CLOSED", [Next]_vars
    PROVE  \/ MainStep \/ Signal
           \/ (Still /\ Turns /\ UNCHANGED <<m_commands, m_requests, next>>)
           \/ Ends \/ Sends \/ GotLogin \/ GotSnapshot \/ GotUpdates \/ GotPush \/ GotPing
           \/ GotSessions \/ GotEvent \/ InitialSessions \/ Serves
<1>1. CASE UNCHANGED vars
  BY <1>1, Zenon DEF vars, clientvars, mainvars, servervars, Still, copyvars, Turns
<1>2. CASE Notify \/ WakeUp \/ CommandsDone
  <2>1. UNCHANGED <<m_commands, m_requests, next>>
    BY <1>2, Zenon DEF Notify, WakeUp, CommandsDone, mainrest
  <2> QED BY <1>2, <2>1, LoopStill, LoopTurns
<1>3. CASE ClearLists \/ AbortEnds \/ RunEnds
  <2>1. loop.pc \in Over
    BY <1>3 DEF ClearLists, AbortEnds, RunEnds, At, Over
  <2> QED BY <2>1 DEF Standing
<1>4. CASE PopCommand
  <2>1. ASSUME /\ IsClose(Head(m_commands)) /\ m_state # "CLOSED" /\ Abort("commands")
               /\ inbox' = <<>>
        PROVE  ~Still
    BY <2>1 DEF Abort, Still, copyvars
  <2>2. ASSUME SendRequest(Head(m_commands))
        PROVE  ~Still
    <3>1. m_correlation' = m_correlation + 1 /\ m_correlation \in Nat
      BY <2>2 DEF SendRequest, TypeOK, ClientTypes
    <3>2. m_correlation' # m_correlation
      BY <3>1
    <3> QED BY <3>2, Zenon DEF Still, copyvars
  <2>3. ~Still
    BY <1>4, <2>1, <2>2, Zenon DEF PopCommand
  <2> QED BY <1>4, <2>3, PopCases
<1>5. CASE Receive
  BY <1>5, ReceiveCases
<1>6. CASE Interrupt \/ ConnectionClosed
  BY <1>6, AbortCases
<1> QED BY <1>1, <1>2, <1>3, <1>4, <1>5, <1>6 DEF Next, LoopStep, Serves

(* A step that leaves the request where it is.                             *)
LEMMA StaysSomewhere ==
    ASSUME Somewhere, UNCHANGED <<m_commands, m_requests, m_sessions_cid, sessions_stream>>,
           loop'.pc = "sessions" <=> loop.pc = "sessions",
           Free(outbox, Asked) => Free(outbox', Asked),
           \A type \in Fetches : \A cid : Single(outbox, Asked, type, cid) => Single(outbox', Asked, type, cid),
           Free(inbox, Given) => Free(inbox', Given),
           \A cid : Single(inbox, Given, "sessions", cid) => Single(inbox', Given, "sessions", cid),
           loop.pc = "sessions" /\ First(inbox, Given, "sessions") => First(inbox', Given, "sessions")
    PROVE  Somewhere' /\ (Idling => Idling')
<1>1. Linked => Linked'
  BY DEF Linked
<1>2. ASSUME Quiet
      PROVE  Quiet'
  BY <1>1, <1>2 DEF Quiet
<1>3. Idling => Idling'
  BY <1>2 DEF Idling, NoCmd
<1>4. Queued => Queued'
  BY <1>2 DEF Queued, OneCmd
<1>5. ASSUME Sent
      PROVE  Sent'
  <2>1. Single(outbox', Asked, m_requests[1].kind, m_requests[1].cid)
    BY <1>5 DEF Sent
  <2> QED BY <1>1, <1>5, <2>1 DEF Sent, NoCmd
<1>6. ASSUME Replied
      PROVE  Replied'
  <2>1. Single(inbox', Given, "sessions", m_requests[1].cid)
    BY <1>6 DEF Replied
  <2> QED BY <1>6, <2>1 DEF Replied, NoCmd
<1>7. Taken => Taken'
  BY <1>1 DEF Taken, NoCmd
<1> QED BY <1>3, <1>4, <1>5, <1>6, <1>7 DEF Somewhere

(* The queues when a message that is not about the sessions comes or goes. *)
LEMMA InboxPasses ==
    ASSUME NEW q, IsSeq(q)
    PROVE  /\ q # <<>> /\ q[1].type \notin Given =>
                /\ Free(q, Given) => Free(Tail(q), Given)
                /\ \A cid : Single(q, Given, "sessions", cid) => Single(Tail(q), Given, "sessions", cid)
           /\ \A m : m.type \notin Given =>
                /\ Free(q, Given) => Free(Append(q, m), Given)
                /\ \A cid : Single(q, Given, "sessions", cid) => Single(Append(q, m), Given, "sessions", cid)
                /\ First(q, Given, "sessions") => First(Append(q, m), Given, "sessions")
<1>1. "sessions" \in Given
  BY DEF Given
<1> QED BY <1>1, FreeIs, SingleTail, SingleAppend

LEMMA OutboxPasses ==
    ASSUME NEW q, IsSeq(q)
    PROVE  /\ q # <<>> /\ q[1].type \notin Asked =>
                /\ Free(q, Asked) => Free(Tail(q), Asked)
                /\ \A type \in Fetches : \A cid : Single(q, Asked, type, cid) => Single(Tail(q), Asked, type, cid)
           /\ \A m : m.type \notin Asked =>
                /\ Free(q, Asked) => Free(Append(q, m), Asked)
                /\ \A type \in Fetches : \A cid : Single(q, Asked, type, cid) => Single(Append(q, m), Asked, type, cid)
<1>1. Fetches \subseteq Asked
  BY DEF Asked
<1> QED BY <1>1, FreeIs, SingleTail, SingleAppend

LEMMA MainStage ==
    ASSUME TypeOK, Calls, Somewhere, next <= 2 => Idling, PrintsSessions, MainStep \/ Signal
    PROVE  Somewhere' /\ (next' <= 2 => Idling')
<1>1. UNCHANGED <<m_requests, loop, outbox, inbox, m_sessions_cid, sessions_stream>>
  BY MainStill, Zenon DEF Still, copyvars
<1>2. IsSeq(m_commands) /\ MainTypes /\ next \in Nat
  BY SeqIs DEF TypeOK, ClientTypes, MainTypes
<1>3. Quiet => Quiet'
  BY <1>1 DEF Quiet, Linked
<1>4. next' <= 2 => next <= 2
  <2>1. next' = next \/ next' = next + 1
    BY <1>2, MainMoves DEF Stays, Waiting, Pushing, Finishing, Returning, Throw, Return
  <2> QED BY <1>2, <2>1
<1>5. CASE UNCHANGED m_commands
  <2>1. Somewhere' /\ (Idling => Idling')
    BY <1>1, <1>5, StaysSomewhere
  <2> QED BY <1>4, <2>1
<1>6. ASSUME m_commands' = Append(m_commands, Command("close"))
      PROVE  Somewhere' /\ (next' <= 2 => Idling')
  <2>1. Command("close").kind = "close"
    BY DEF Command
  <2>2. /\ NoCmd(m_commands) => NoCmd(m_commands')
        /\ OneCmd(m_commands) => OneCmd(m_commands')
    BY <1>2, <1>6, <2>1, CmdAppend
  <2>3. Idling => Idling'
    BY <1>3, <2>2 DEF Idling
  <2>4. Queued => Queued'
    BY <1>3, <2>2 DEF Queued
  <2>5. Sent => Sent'
    BY <1>1, <2>2 DEF Sent, Linked
  <2>6. Replied => Replied'
    BY <1>1, <2>2 DEF Replied
  <2>7. Taken => Taken'
    BY <1>1, <2>2 DEF Taken, Linked
  <2> QED BY <1>4, <2>3, <2>4, <2>5, <2>6, <2>7 DEF Somewhere
<1>7. ASSUME Return, Op \in Kinds, m_commands' = Append(m_commands, Command(Op))
      PROVE  Somewhere' /\ (next' <= 2 => Idling')
  <2>1. CASE Op = "close"
    BY <1>6, <1>7, <2>1
  <2>2. CASE Op # "close"
    <3>1. Op \in Fetches /\ next = 2 /\ Len(Script[program]) > 2
      BY <1>7, <2>2, ListCall DEF Kinds
    <3>2. next' = 3
      BY <1>7, <3>1 DEF Return
    <3>3. Idling
      BY <3>1
    <3>4. Command(Op).kind = Op
      BY DEF Command
    <3>5. OneCmd(m_commands')
      BY <1>2, <1>7, <3>1, <3>3, <3>4, CmdAppend DEF Idling
    <3>6. Queued'
      BY <1>3, <3>3, <3>5 DEF Queued, Idling
    <3> QED BY <3>2, <3>6 DEF Somewhere
  <2> QED BY <2>1, <2>2
<1> QED BY <1>2, <1>5, <1>6, <1>7, MainQueues

LEMMA SendsStage ==
    ASSUME TypeOK, Somewhere, next <= 2 => Idling, Sends
    PROVE  Sent' /\ ~(next' <= 2)
<1>1. /\ m_commands # <<>> /\ m_commands' = Tail(m_commands)
      /\ UNCHANGED <<m_sessions_cid, sessions_stream, inbox, loop, next>>
  BY SendsIs
<1>2. PICK kind \in Fetches \cup {"ping"} :
        /\ kind = m_commands[1].kind
        /\ outbox' = Append(outbox, Request(kind, m_correlation, 0))
        /\ m_requests' = Append(m_requests, [kind |-> kind, cid |-> m_correlation])
  BY SendsIs
<1>3. IsSeq(m_commands) /\ IsSeq(outbox)
  BY SeqIs DEF TypeOK, ClientTypes, ServerTypes
<1>4. kind # "close"
  BY DEF Fetches
<1>5. ~NoCmd(m_commands)
  BY <1>1, <1>2, <1>3, <1>4, CmdTail
<1>6. Queued
  BY <1>5 DEF Somewhere, Idling, Sent, Replied, Taken
<1>7. NoCmd(m_commands') /\ kind \in Fetches
  BY <1>1, <1>2, <1>3, <1>4, <1>6, CmdTail DEF Queued
<1>8. PICK r : r = [kind |-> kind, cid |-> m_correlation]
  OBVIOUS
<1>9. r.kind = kind /\ r.cid = m_correlation
  BY <1>8
<1>10. m_requests' = <<r>>
  BY <1>2, <1>6, <1>8 DEF Queued, Quiet
<1>11. Len(m_requests') = 1 /\ m_requests'[1] = r
  BY <1>10
<1>12. PICK m : m = Request(kind, m_correlation, 0)
  OBVIOUS
<1>13. m.type = kind /\ m.cid = m_correlation
  BY <1>12 DEF Request
<1>14. Single(outbox', Asked, kind, m_correlation)
  BY <1>2, <1>3, <1>6, <1>12, <1>13, SingleAppend DEF Queued, Quiet
<1>15. Free(inbox', Given) /\ loop'.pc # "sessions" /\ Linked'
  BY <1>1, <1>6 DEF Queued, Quiet, Linked
<1>16. Sent'
  BY <1>7, <1>9, <1>11, <1>14, <1>15 DEF Sent
<1> QED BY <1>1, <1>5, <1>16 DEF Idling

LEMMA AnswerStage ==
    ASSUME TypeOK, Somewhere, next <= 2 => Idling, ServerAnswer
    PROVE  Somewhere' /\ (next' <= 2 => Idling')
<1>1. /\ outbox # <<>> /\ outbox' = Tail(outbox) /\ IsSeq(outbox) /\ IsSeq(inbox)
      /\ \E m : Say1(m) /\ Answers(outbox[1], m)
  BY AnswerIs, SeqIs DEF TypeOK, ServerTypes
<1>2. PICK m : Say1(m) /\ Answers(outbox[1], m)
  BY <1>1
<1>3. inbox' = Append(inbox, m) /\ UNCHANGED <<m_commands, m_requests, m_sessions_cid, loop, next>>
  BY <1>2, ServerStill DEF Serves, ServerRest, Say1
<1> DEFINE req == outbox[1]
<1>4. CASE req.type \notin Asked
  <2>1. m.type \notin Given /\ UNCHANGED sessions_stream
    BY <1>2, <1>4 DEF Answers, Asked, Given
  <2>2. Somewhere' /\ (Idling => Idling')
    BY <1>1, <1>3, <1>4, <2>1, StaysSomewhere, InboxPasses, OutboxPasses
  <2> QED BY <1>3, <2>2
<1>5. CASE req.type \in Asked
  <2>1. ~Free(outbox, Asked)
    BY <1>1, <1>5, FreeIs
  <2>2. Sent
    BY <2>1 DEF Somewhere, Idling, Queued, Quiet, Replied, Taken
  <2>3. m_requests[1].kind \in Fetches /\ m_requests[1].kind \in Asked
        /\ Single(outbox, Asked, m_requests[1].kind, m_requests[1].cid)
    BY <2>2 DEF Sent, Asked
  <2>4. req.type = m_requests[1].kind /\ req.cid = m_requests[1].cid /\ Free(outbox', Asked)
    BY <1>1, <1>5, <2>3, SingleTail
  <2>5. /\ m.type = "sessions" /\ m.cid = req.cid
        /\ sessions_stream' = (IF req.type = "fetch_stream" THEN req.cid ELSE Null)
    BY <1>2, <2>3, <2>4 DEF Answers, Fetches
  <2>6. Single(inbox', Given, "sessions", m_requests[1].cid)
    BY <1>1, <1>3, <2>2, <2>4, <2>5, SingleAppend DEF Sent
  <2>7. Replied'
    BY <1>3, <2>2, <2>4, <2>5, <2>6 DEF Replied, Sent, NoCmd
  <2>8. ~Idling
    BY <2>1 DEF Idling, Quiet
  <2> QED BY <1>3, <2>7, <2>8 DEF Somewhere
<1> QED BY <1>4, <1>5

LEMMA ListTaken ==
    ASSUME TypeOK, Stage, PrintsSessions, GotSessions
    PROVE  Taken' /\ ~(next' <= 2)
<1>1. Replied /\ Answered(inbox[1])
  BY ListExpected DEF GotSessions
<1>2. /\ m_requests' = Tail(m_requests) /\ m_sessions_cid' = StreamCid(Head(m_requests))
      /\ loop' = [pc |-> "sessions", ret |-> "idle"] /\ inbox' = inbox
  BY <1>1, Zenon DEF GotSessions, SessionsResp, Answer
<1>3. UNCHANGED <<m_commands, outbox, sessions_stream, next>>
  BY ReplyIs
<1>4. m_requests \in Seq(Commands) /\ Len(m_requests) = 1 /\ IsSeq(inbox)
  BY <1>1 DEF Replied, TypeOK, ClientTypes, ServerTypes
<1>5. Tail(m_requests) = <<>> /\ Head(m_requests) = m_requests[1]
  <2>1. m_requests # <<>>
    BY <1>4, EmptyIs
  <2>2. Tail(m_requests) \in Seq(Commands) /\ Len(Tail(m_requests)) = 0
    BY <1>4, <2>1, HeadTailProperties
  <2>3. Tail(m_requests) = <<>>
    BY <2>2, EmptySeq
  <2>4. Head(m_requests) = m_requests[1]
    BY <1>4, <2>1
  <2> QED BY <2>3, <2>4
<1>6. inbox # <<>> /\ inbox[1].type = "sessions" /\ m_state # "CLOSED"
  BY ReplyIs DEF GotSessions, Got
<1>7. "sessions" \in Given
  BY DEF Given
<1>8. First(inbox, Given, "sessions") /\ ~Free(inbox, Given)
  BY <1>1, <1>4, <1>6, <1>7, SingleTail, FreeIs DEF Replied
<1>9. Linked'
  BY <1>1, <1>2, <1>3, <1>5 DEF Linked, Replied, StreamCid
<1>10. Taken'
  BY <1>1, <1>2, <1>3, <1>5, <1>8, <1>9 DEF Taken, Replied, NoCmd
<1>11. ~Idling
  BY <1>8 DEF Idling, Quiet
<1> QED BY <1>3, <1>6, <1>10, <1>11 DEF Stage

LEMMA StageKept ==
    ASSUME TypeOK, Calls, Standing, Stream, Listing, [Next]_vars
    PROVE  Stage'
<1>1. Stage /\ IsSeq(inbox) /\ IsSeq(outbox) /\ loop = [pc |-> loop.pc, ret |-> loop.ret]
  BY SeqIs DEF Listing, TypeOK, ServerTypes, ClientTypes
<1>2. program' = program
  BY MainMoves, LoopMoves DEF TypeOK
<1>3. PrintsSessions' = PrintsSessions
  BY <1>2 DEF PrintsSessions
<1>4. CASE m_state = "CLOSED" \/ ~PrintsSessions
  <2>1. m_state = "CLOSED" => m_state' = "CLOSED"
    BY StepCases, SendsIs, LoginIs, SnapshotSends, UpdatesIs, PushDoes, ReplyIs, EventDoes, ListDoes,
       ServerStill DEF Still, copyvars, Ends, ServerRest
  <2> QED BY <1>3, <1>4, <2>1 DEF Stage
<1>5. CASE m_state # "CLOSED" /\ PrintsSessions
  <2>1. Somewhere /\ (next <= 2 => Idling)
    BY <1>1, <1>5 DEF Stage
  <2>2. SUFFICES (Somewhere' /\ (next' <= 2 => Idling')) \/ m_state' = "CLOSED"
    BY DEF Stage
  <2>3. CASE MainStep \/ Signal
    BY <1>5, <2>1, <2>3, MainStage
  <2>4. CASE Still /\ Turns /\ UNCHANGED <<m_commands, m_requests, next>>
    <3>1. UNCHANGED <<outbox, inbox, m_sessions_cid, sessions_stream>>
      BY <2>4, Zenon DEF Still, copyvars
    <3>2. Somewhere' /\ (Idling => Idling')
      BY <2>1, <2>4, <3>1, StaysSomewhere DEF Turns
    <3> QED BY <2>1, <2>4, <3>2
  <2>5. CASE Ends
    BY <2>5 DEF Ends
  <2>6. CASE Sends
    BY <2>1, <2>6, SendsStage DEF Somewhere
  <2>7. CASE GotLogin \/ GotSnapshot
    <3>1. /\ UNCHANGED <<m_commands, m_requests, m_sessions_cid, sessions_stream, next>>
          /\ loop.pc = "idle" /\ inbox # <<>> /\ inbox' = Tail(inbox)
          /\ loop' = [pc |-> "notify", ret |-> "idle"]
      BY <2>7, LoginIs, SnapshotSends
    <3>2. loop'.pc = "notify" /\ inbox[1].type \notin Given
      BY <2>7, <3>1, LoginIs, SnapshotSends DEF Given
    <3>3. \E m : m.type \notin Asked /\ outbox' = Append(outbox, m)
      <4>1. PICK m : outbox' = Append(outbox, m) /\ (m = Request("snapshot", m_correlation, 0)
                       \/ m = Request("updates", m_correlation, inbox[1].rev))
        BY <2>7, LoginIs, SnapshotSends
      <4>2. m.type \notin Asked
        BY <4>1 DEF Request, Asked, Fetches
      <4> QED BY <4>1, <4>2
    <3>4. Somewhere' /\ (Idling => Idling')
      BY <1>1, <2>1, <3>1, <3>2, <3>3, StaysSomewhere, InboxPasses, OutboxPasses
    <3> QED BY <2>1, <3>1, <3>4
  <2>8. CASE GotUpdates \/ GotPush \/ GotEvent
    <3>1. /\ UNCHANGED <<m_commands, m_requests, m_sessions_cid, sessions_stream, next, outbox>>
          /\ inbox # <<>> /\ inbox' = Tail(inbox)
      BY <2>8, UpdatesIs, PushDoes, EventDoes
    <3>2. inbox[1].type \notin Given /\ loop.pc = "idle"
      BY <2>8, UpdatesIs, PushDoes, EventDoes DEF Given, GotEvent, Got
    <3>3. loop'.pc # "sessions"
      BY <2>8, <3>2, UpdatesIs, PushDoes, EventDoes
    <3>4. Somewhere' /\ (Idling => Idling')
      BY <1>1, <2>1, <3>1, <3>2, <3>3, StaysSomewhere, InboxPasses
    <3> QED BY <2>1, <3>1, <3>4
  <2>9. CASE GotPing
    BY <1>1, <1>5, <2>9, NoPing DEF GotPing
  <2>10. CASE GotSessions
    BY <1>1, <1>5, <2>10, ListTaken DEF Somewhere
  <2>11. CASE InitialSessions
    <3>1. /\ UNCHANGED <<m_commands, m_requests, m_sessions_cid, sessions_stream, next, outbox>>
          /\ inbox' = Tail(inbox) /\ loop.pc = "sessions" /\ loop' = [loop EXCEPT !.pc = "idle"]
      BY <2>11, ListDoes
    <3>2. Taken
      BY <2>1, <3>1 DEF Somewhere, Idling, Queued, Quiet, Sent, Replied
    <3>3. loop'.pc = "idle"
      BY <1>1, <3>1
    <3>4. Free(inbox', Given)
      BY <1>1, <3>1, <3>2, FreeIs DEF Taken
    <3>5. Idling'
      BY <3>1, <3>2, <3>3, <3>4 DEF Taken, Idling, Quiet, Linked, NoCmd
    <3> QED BY <3>5 DEF Somewhere
  <2>12. CASE ServerAnswer
    BY <2>1, <2>12, AnswerStage
  <2>13. CASE ServerPush \/ ServerCommit \/ SessionEvent
    <3>1. UNCHANGED <<m_commands, m_requests, m_sessions_cid, next, loop>>
      BY <2>13, ServerStill DEF Serves, ServerRest
    <3>2. UNCHANGED <<outbox, sessions_stream>>
      BY <2>13, ServerPushIs, CommitIs, SessionEventIs
    <3>3. inbox' = inbox \/ \E m : inbox' = Append(inbox, m) /\ m.type \notin Given
      BY <2>13, ServerPushIs, CommitIs, SessionEventIs DEF Say1, Given
    <3>4. Somewhere' /\ (Idling => Idling')
      BY <1>1, <2>1, <3>1, <3>2, <3>3, StaysSomewhere, InboxPasses
    <3> QED BY <2>1, <3>1, <3>4
  <2> QED BY <1>5, <2>3, <2>4, <2>5, <2>6, <2>7, <2>8, <2>9, <2>10, <2>11, <2>12, <2>13, LiveCases
          DEF Serves
<1> QED BY <1>4, <1>5

-----------------------------------------------------------------------------
(* What the main thread can count on.                                      *)
LEMMA OnceCall ==
    ASSUME TypeOK, Calls, program \in {"once", "data_once"}
    PROVE  /\ next \in 1 .. Len(Script[program]) /\ Len(Script[program]) \in {3, 5}
           /\ program = "once" => Len(Script[program]) = 5
           /\ next = 1 => Op = "wait_synced"
           /\ program = "once" /\ next = 3 => Op = "get"
           /\ program = "once" /\ next > 3 => Op \notin Kinds \ {"close"}
<1>1. program \in DOMAIN Script /\ next \in Nat \ {0} /\ next <= Len(Script[program])
  BY DEF TypeOK, MainTypes, Calls
<1>2. CASE program = "once"
  <2>1. Script[program] = <<"wait_synced", "fetch", "get", "close", "wait_closed">>
    BY <1>2, ScriptIs
  <2>2. next \in {1, 2, 3, 4, 5} /\ Len(Script[program]) = 5
    BY <1>1, <2>1
  <2> QED BY <2>1, <2>2 DEF Op, Kinds, Fetches
<1>3. CASE program = "data_once"
  <2>1. Script[program] = <<"wait_synced", "close", "wait_closed">>
    BY <1>3, ScriptIs
  <2>2. next \in {1, 2, 3} /\ Len(Script[program]) = 3
    BY <1>1, <2>1
  <2> QED BY <1>3, <2>1, <2>2 DEF Op, Kinds, Fetches
<1> QED BY <1>2, <1>3

(* The main thread goes on only when its call has returned.                *)
LEMMA GoesOn ==
    ASSUME TypeOK, Calls, [Next]_vars, next' # next
    PROVE  (MainStep \/ Signal) /\ next' = next + 1 /\ Returning
<1>1. MainStep \/ Signal
  BY LoopMoves
<1>2. Returning
  BY <1>1, MainMoves DEF TypeOK, Stays, Waiting, Pushing, Finishing, Throw
<1> QED BY <1>1, <1>2 DEF Returning, Return

LEMMA SyncedKept ==
    ASSUME TypeOK, Standing, Stream, Told, Progress, [Next]_vars
    PROVE  Synced'
<1>1. Calls /\ Synced /\ next \in Nat /\ m_rev \in Nat /\ told \in Nat
  BY DEF Progress, TypeOK, MainTypes, ClientTypes, ServerTypes
<1>2. program' = program
  BY <1>1, MainMoves, LoopMoves DEF TypeOK
<1> DEFINE Good == m_initialized /\ m_state \in {"SYNCED", "CLOSED"} /\ told > 0 /\ told <= m_rev
<1>3. SUFFICES ASSUME program \in {"once", "data_once"}, next' > 1
               PROVE  Good'
  BY <1>2 DEF Synced
<1>4. Good
  <2>1. CASE next > 1
    BY <1>1, <1>3, <2>1 DEF Synced
  <2>2. CASE ~(next > 1)
    <3>1. next' = next + 1 /\ Returning /\ next = 1
      <4>1. next' # next
        BY <1>3, <2>2
      <4>2. next >= 1
        BY DEF TypeOK, MainTypes
      <4> QED BY <1>1, <2>2, <4>1, <4>2, GoesOn
    <3>2. Op = "wait_synced"
      BY <1>1, <1>3, <3>1, OnceCall
    <3>3. Reached
      BY <3>1, <3>2 DEF Returning, Kinds, Fetches
    <3>4. m_state = "SYNCED"
      BY <3>2, <3>3 DEF Reached
    <3> QED BY <3>4 DEF Standing, Told
  <2> QED BY <2>1, <2>2
<1>5. CASE Still
  BY <1>4, <1>5 DEF Still, copyvars
<1>6. CASE Ends
  BY <1>4, <1>6 DEF Ends
<1>7. CASE Sends
  BY <1>4, <1>7, SendsIs
<1>8. CASE GotLogin \/ GotSnapshot \/ GotUpdates
  BY <1>4, <1>8, LoginIs, SnapshotSends, UpdatesIs DEF Standing
<1>9. CASE GotPush
  <2>1. UNCHANGED <<m_initialized, told>> /\ m_state' \in {m_state, "SYNCED"}
    BY <1>9, PushDoes
  <2>2. m_rev' = m_rev + 1
    BY <1>9, PushIs
  <2> QED BY <1>1, <1>4, <2>1, <2>2
<1>10. CASE GotPing \/ GotSessions
  BY <1>4, <1>10, ReplyIs
<1>11. CASE GotEvent \/ InitialSessions
  BY <1>4, <1>11, EventDoes, ListDoes
<1>12. CASE Serves
  BY <1>4, <1>12, ServerStill DEF ServerRest
<1> QED BY <1>5, <1>6, <1>7, <1>8, <1>9, <1>10, <1>11, <1>12, StepCases

LEMMA ValueKept ==
    ASSUME TypeOK, Progress, [Next]_vars, program = "once", next' > 3
    PROVE  future' = "value"
<1>1. Calls /\ Listed /\ next \in Nat /\ MainTypes
  BY DEF Progress, TypeOK, MainTypes
<1>2. future = "value"
  <2>1. CASE next > 3
    BY <1>1, <2>1 DEF Listed
  <2>2. CASE ~(next > 3)
    <3>1. Returning /\ next = 3
      <4>1. next' # next
        BY <2>2
      <4> QED BY <1>1, <2>2, <4>1, GoesOn
    <3>2. Op = "get"
      BY <1>1, <3>1, OnceCall
    <3> QED BY <3>1, <3>2 DEF Returning, WaitOp, Kinds, Fetches
  <2> QED BY <2>1, <2>2
<1>3. CASE ~(MainStep \/ Signal)
  BY <1>2, <1>3, LoopFuture
<1>4. CASE MainStep \/ Signal
  <2>1. KeepsFuture
    BY <1>1, <1>4, MainMoves
  <2>2. ASSUME at \in Pushes, Op # "close"
        PROVE  FALSE
    <3>1. Op \in Kinds \ {"close"}
      BY <1>1, <2>2 DEF Calls
    <3>2. ~(next > 3)
      BY <1>1, <3>1, OnceCall
    <3>3. Returning /\ next = 3
      <4>1. next' # next
        BY <3>2
      <4> QED BY <1>1, <3>2, <4>1, GoesOn
    <3>4. Op = "get"
      BY <1>1, <3>3, OnceCall
    <3> QED BY <3>1, <3>4 DEF Kinds, Fetches
  <2> QED BY <1>2, <2>1, <2>2 DEF KeepsFuture
<1> QED BY <1>3, <1>4

LEMMA ListedKept ==
    ASSUME TypeOK, Standing, Stream, Listing, Progress, [Next]_vars
    PROVE  Listed'
<1>1. Calls /\ Listed /\ MainTypes /\ loop = [pc |-> loop.pc, ret |-> loop.ret] /\ Stage /\ Mirror
  BY DEF Progress, TypeOK, ClientTypes, Listing
<1>2. program' = program
  BY <1>1, MainMoves, LoopMoves
<1>3. PrintsSessions' = PrintsSessions
  BY <1>2 DEF PrintsSessions
<1>4. ASSUME PrintsSessions, future' = "value"
      PROVE  reader'.listed \/ loop'.pc = "sessions"
  <2>1. CASE MainStep \/ Signal
    <3>1. future = "value"
      BY <1>1, <1>4, <2>1, MainMoves DEF KeepsFuture
    <3>2. UNCHANGED <<reader, loop>>
      BY <2>1, MainStill, Zenon DEF Still, copyvars
    <3> QED BY <1>1, <1>4, <3>1, <3>2 DEF Listed
  <2>2. CASE ~(MainStep \/ Signal) /\ Got("ping")
    BY <1>1, <1>4, <2>2, NoPing
  <2>3. CASE loop'.pc = "sessions"
    BY <2>3
  <2>4. CASE ~(MainStep \/ Signal) /\ UNCHANGED future
    <3>1. reader.listed \/ loop.pc = "sessions"
      BY <1>1, <1>4, <2>4 DEF Listed
    <3>2. CASE Still /\ Turns
      <4>1. reader' = reader
        BY <3>2, Zenon DEF Still, copyvars
      <4> QED BY <3>1, <3>2, <4>1 DEF Turns
    <3>3. CASE Ends
      BY <3>1, <3>3 DEF Ends
    <3>4. CASE Sends
      BY <3>1, <3>4, SendsIs
    <3>5. CASE GotLogin \/ GotUpdates \/ GotPing \/ GotSessions
      <4>1. reader' = reader /\ loop.pc = "idle"
        BY <3>5, LoginIs, UpdatesIs, ReplyIs DEF GotPing, GotSessions, Got
      <4> QED BY <3>1, <4>1
    <3>6. CASE GotSnapshot \/ GotPush
      BY <3>1, <3>6, ReadSame, SnapshotSends, PushDoes
    <3>7. CASE GotEvent
      BY <1>1, <1>4, <3>1, <3>7, EventFits DEF GotEvent, Got
    <3>8. CASE InitialSessions
      BY <1>4, <3>8, ListRead
    <3>9. CASE Serves
      BY <3>1, <3>9, ServerStill DEF ServerRest
    <3> QED BY <3>2, <3>3, <3>4, <3>5, <3>6, <3>7, <3>8, <3>9, StepCases
  <2> QED BY <1>4, <2>1, <2>2, <2>3, <2>4, LoopFuture
<1> QED BY <1>2, <1>3, <1>4, ValueKept DEF Listed

-----------------------------------------------------------------------------
LEMMA InvInit ==
    ASSUME Init
    PROVE  Inv
<1>1. /\ m_state = "CONNECTING" /\ m_con = FALSE /\ m_initialized = FALSE
      /\ m_store = << >> /\ m_rev = 0 /\ m_correlation = 1 /\ m_sessions_cid = 0
      /\ m_commands = <<>> /\ m_requests = <<>> /\ loop = [pc |-> "idle", ret |-> "idle"]
      /\ program \in Programs /\ next = 1 /\ at = "call" /\ future = "none" /\ failed = FALSE
      /\ reader = [data |-> << >>, rev |-> 0, sessions |-> {}, listed |-> FALSE, puzzled |-> FALSE]
      /\ log = <<InitialData>> /\ sessions = {Self} /\ data_stream = Null /\ sessions_stream = Null
      /\ outbox = <<[type |-> "login", cid |-> 1, rev |-> 0]>> /\ inbox = <<>> /\ told = 0
  BY DEF Init, Idle, Request
<1>2. program \in DOMAIN Script
  BY <1>1, ProgramsAssumption
<1>3. reader.sessions = {} /\ reader.listed = FALSE /\ reader.puzzled = FALSE
  BY <1>1
<1>4. loop.pc = "idle"
  BY <1>1
<1>e. IsSeq(inbox) /\ Len(inbox) = 0 /\ Len(m_commands) = 0
  BY <1>1, EmptyIs
<1>o. outbox \in Seq(Requests) /\ Len(outbox) = 1 /\ outbox[1].type = "login"
  <2>1. [type |-> "login", cid |-> 1, rev |-> 0] \in Requests
    BY DEF Requests
  <2> QED BY <1>1, <2>1
<1>5. TypeOK
  <2>1. ClientTypes
    <3>1. m_commands \in Seq(Commands) /\ m_requests \in Seq(Commands)
      BY <1>1, EmptySeq
    <3>2. IsFcn(m_store, Values)
      BY <1>1, EmptySeq DEF IsFcn
    <3> QED BY <1>1, <3>1, <3>2 DEF ClientTypes, States, Pcs, Rets
  <2>2. MainTypes
    <3>1. next \in Nat \ {0} /\ future \in {"none", "pending", "value", "exception"}
      BY <1>1
    <3>2. at \in {"call"} \cup Waits \cup Pushes \cup Stops
      BY <1>1
    <3>3. failed \in BOOLEAN
      BY <1>1
    <3> QED BY <1>2, <3>1, <3>2, <3>3 DEF MainTypes
  <2>3. ReaderTypes
    BY <1>1 DEF ReaderTypes
  <2>4. ServerTypes
    <3>1. log \in Seq({InitialData}) /\ Len(log) = 1 /\ log[1] = InitialData
      BY <1>1
    <3>2. IsSeq(log)
      BY <3>1, SeqIs
    <3>3. IsFcn(InitialData, Data)
      BY DataAssumption DEF IsFcn
    <3> QED BY <1>1, <1>e, <1>o, <3>1, <3>2, <3>3 DEF ServerTypes, Users
  <2>5. MsgTypesOK
    BY <1>e DEF MsgTypesOK, MsgsOK
  <2> QED BY <2>1, <2>2, <2>3, <2>4, <2>5 DEF TypeOK
<1>6. Standing
  BY <1>1, <1>4 DEF Standing, Over
<1>7. Stream
  <2>1. NoPush(inbox) /\ Rising(inbox, m_rev) /\ Calm(inbox)
    BY <1>1, QueueEmpty
  <2>2. NotAsked(outbox)
    BY <1>o DEF NotAsked
  <2> QED BY <1>1, <2>1, <2>2 DEF Stream, Copy, Before, Asking, Streaming, Ordered
<1>8. Told
  <2>1. Len(log) = 1
    BY <1>1
  <2> QED BY <1>1, <1>e, <2>1 DEF Told, Mounting
<1>9. Stage
  <2>1. Free(inbox, Given) /\ NoCmd(m_commands)
    BY <1>e DEF Free, NoCmd
  <2>2. Free(outbox, Asked)
    BY <1>o DEF Free, Asked, Fetches
  <2> QED BY <1>1, <1>4, <2>1, <2>2 DEF Stage, Somewhere, Idling, Quiet, Linked
<1>10. Mirror
  <2> DEFINE st == [i \in 1 .. Len(inbox) + 1 |-> {}]
  <2>1. st \in [1 .. Len(inbox) + 1 -> SUBSET Users] /\ st[1] = {}
    BY <1>e
  <2> HIDE DEF st
  <2>2. Chain(st, inbox, reader.sessions)
    BY <1>3, <1>e, <2>1 DEF Chain
  <2> QED BY <1>1, <2>1, <2>2 DEF Mirror, Leads
<1>11. Progress
  <2>1. Len(Script[program]) \in Nat /\ Len(Script[program]) > 0
    BY <1>2, ScriptLen
  <2>2. Calls
    BY <1>1, <2>1 DEF Calls, Pushes, Waits, Stops
  <2> QED BY <1>1, <2>2 DEF Progress, Synced, Listed
<1> QED BY <1>3, <1>5, <1>6, <1>7, <1>8, <1>9, <1>10, <1>11 DEF Inv, Listing

LEMMA InvNext ==
    ASSUME Inv, [Next]_vars
    PROVE  Inv'
<1>1. TypeOK /\ Standing /\ Stream /\ Told /\ Listing /\ ~reader.puzzled /\ Progress /\ Calls
  BY DEF Inv, Progress
<1>2. TypeOK' /\ Standing' /\ Stream' /\ Told'
  BY <1>1, TypeKept, StandingKept, StreamKept, ToldKept
<1>3. Listing' /\ ~reader'.puzzled
  BY <1>1, StageKept, MirrorKept, NotPuzzled DEF Listing
<1>4. Progress'
  <2>1. Calls'
    BY <1>1, CallsKept DEF TypeOK
  <2> QED BY <1>1, <2>1, SyncedKept, ListedKept DEF Progress
<1> QED BY <1>2, <1>3, <1>4 DEF Inv

(* The programs keep their invariant, whatever the threads, the signals    *)
(* and the server do in between.                                           *)
THEOREM WatcherInvariant == Spec => []Inv
<1>1. Init => Inv
  BY InvInit
<1>2. Inv /\ [Next]_vars => Inv'
  BY InvNext
<1> QED BY <1>1, <1>2, PTL DEF Spec

(* Every commit is printed once and in order: who applies the lines that   *)
(* watcher prints always has the content that the server committed as the  *)
(* client's revision, and no line contradicts the ones before it.          *)
THEOREM PrintedLinesRebuild == Spec => []PrintedRebuilds
<1>1. Inv => PrintedRebuilds
  <2> SUFFICES ASSUME Inv
               PROVE  PrintedRebuilds
    OBVIOUS
  <2>1. TypeOK /\ Copy /\ ~reader.puzzled
    BY DEF Inv, Stream
  <2>2. ASSUME PrintsData, m_initialized
        PROVE  /\ reader.rev = m_rev
               /\ [k \in DOMAIN reader.data |-> reader.data[k].data] = log[m_rev]
    <3>1. /\ m_rev \in 1 .. Len(log) /\ Holds(m_store, log[m_rev])
          /\ reader.rev = m_rev /\ reader.data = m_store
      BY <2>1, <2>2 DEF Copy
    <3>2. IsFcn(log[m_rev], Data)
      BY <2>1, <3>1 DEF TypeOK, ServerTypes
    <3> QED BY <3>1, <3>2 DEF Holds, IsFcn
  <2> QED BY <2>1, <2>2 DEF PrintedRebuilds
<1> QED BY <1>1, WatcherInvariant, PTL

(* The session events continue the printed list: once everything that was  *)
(* sent has arrived, the printed sessions are those of the server, and     *)
(* process_sessions_push() knows the stream of the next event.             *)
THEOREM PrintedSessionsMirror == Spec => []SessionsMirrored
<1>1. Inv => SessionsMirrored
  <2> SUFFICES ASSUME Inv, PrintsSessions, sessions_stream # Null, inbox = <<>>
               PROVE  reader.sessions = sessions /\ m_sessions_cid = sessions_stream
    BY DEF SessionsMirrored
  <2>1. Standing /\ Stage /\ Mirror
    BY DEF Inv, Listing
  <2>2. m_state # "CLOSED"
    BY <2>1 DEF Standing
  <2>3. Len(inbox) = 0
    BY EmptyIs
  <2>4. Linked
    BY <2>1, <2>2, <2>3 DEF Stage, Somewhere, Idling, Queued, Quiet, Sent, Replied, Taken, Single, First
  <2>5. PICK st \in [1 .. Len(inbox) + 1 -> SUBSET Users] :
            Chain(st, inbox, reader.sessions) /\ st[Len(inbox) + 1] = sessions
    BY <2>1, <2>2 DEF Mirror, Leads
  <2>6. st[1] = reader.sessions
    BY <2>5 DEF Chain
  <2> QED BY <2>3, <2>4, <2>5, <2>6 DEF Linked
<1> QED BY <1>1, WatcherInvariant, PTL

(* watcher --once that ends well has printed all the data that the server  *)
(* had when it answered, and the sessions, although main() calls close()   *)
(* as soon as the promise is set and the loop prints only afterwards.      *)
THEOREM OncePrintsEverything == Spec => []OncePrintsAll
<1>1. Inv => OncePrintsAll
  <2> SUFFICES ASSUME Inv, at = "ended", ~failed, program \in {"once", "data_once"}
               PROVE  /\ reader.rev >= told /\ told > 0
                      /\ PrintsSessions => reader.listed
    BY DEF OncePrintsAll
  <2>1. TypeOK /\ Copy /\ Calls /\ Synced /\ Listed
    BY DEF Inv, Stream, Progress
  <2>2. ~(next < Len(Script[program])) /\ loop.pc = "ended"
    BY <2>1 DEF Calls, Stops
  <2>3. /\ next \in 1 .. Len(Script[program]) /\ Len(Script[program]) \in {3, 5}
        /\ program = "once" => Len(Script[program]) = 5
    BY <2>1, OnceCall
  <2>4. next > 1 /\ (program = "once" => next > 3)
    <3>1. PICK n \in {3, 5} : n = Len(Script[program])
      BY <2>3
    <3>2. next \in 1 .. n /\ ~(next < n) /\ (program = "once" => n = 5)
      BY <2>2, <2>3, <3>1
    <3> QED BY <3>2
  <2>5. m_initialized /\ told > 0 /\ told <= m_rev
    BY <2>1, <2>4 DEF Synced
  <2>6. reader.rev = m_rev
    BY <2>1, <2>5 DEF Copy, PrintsData
  <2>7. m_rev \in Nat /\ told \in Nat
    BY <2>1 DEF TypeOK, ClientTypes, ServerTypes
  <2>8. PrintsSessions => reader.listed
    <3>1. PrintsSessions => program = "once"
      BY DEF PrintsSessions
    <3> QED BY <2>1, <2>2, <2>4, <3>1 DEF Listed
  <2> QED BY <2>5, <2>6, <2>7, <2>8
<1> QED BY <1>1, WatcherInvariant, PTL
=============================================================================
