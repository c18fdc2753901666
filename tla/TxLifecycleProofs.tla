-------------------------- MODULE TxLifecycleProofs --------------------------
(***************************************************************************)
(* Proofs about TxLifecycle, for any number of transactions and any        *)
(* bounds: its types, SubmittedTracked and ClosedResolved.                 *)
(***************************************************************************)
EXTENDS TxLifecycle, SequenceTheorems, TLAPS

Reporting(t) == loop.pc \in {"check", "guard", "write"} /\ loop.tx = t
Queued(t) == Names(m_commands, t) \/ Names(m_requests, t)
Code == SubmitCode \cup {"EXCEPTION", "COMMITTED"}

(* The queues hold each transaction once, and only submit commands name    *)
(* one.                                                                    *)
Once(q) ==
    \A i, j \in DOMAIN q : q[i].tx = q[j].tx /\ q[i].tx \in Tx => i = j
Kinds(q, kinds) ==
    \A i \in DOMAIN q : q[i].kind \in kinds /\ (q[i].kind = "submit" <=> q[i].tx \in Tx)

QueuesOK ==
    /\ Kinds(m_commands, {"submit", "ping", "close"}) /\ Once(m_commands)
    /\ Kinds(m_requests, {"submit", "ping"}) /\ Once(m_requests)
    /\ Kinds(m_accepted, {"submit"}) /\ Once(m_accepted)

LoopPc == {"idle", "commands", "cancel", "check", "guard", "write", "closing", "clearing",
           "ending", "done"}
LoopRec == [pc : LoopPc, tx : Tx \cup {Null}, code : Code \cup {""}, open : BOOLEAN,
            ret : {"", "idle", "commands", "cancel", "ending"}]
LoopOK ==
    /\ loop \in LoopRec
    /\ IF loop.pc \in {"check", "guard", "write"}
       THEN loop.tx \in Tx /\ loop.code \in Code /\ loop.ret \in {"idle", "commands", "cancel"}
       ELSE loop.tx = Null
    /\ loop.pc = "closing" => loop.ret \in {"commands", "ending"}
    /\ loop.pc \in {"closing", "clearing", "ending"} => c_state = "CLOSED"
    /\ loop.pc = "cancel" \/ loop.ret = "cancel" => ConnectionLoss

(* One token per transaction: its command, its request, its place among    *)
(* the accepted ones, or the report under way.                             *)
OneToken(t) ==
    /\ Names(m_commands, t) => ~Names(m_requests, t)
    /\ Queued(t) => ~Names(m_accepted, t) /\ ~Reporting(t)
    /\ Reporting(t) => (Names(m_accepted, t) <=> loop.code = "ACCEPTED")
    /\ m_state[t] = "OPEN" \/ upc[t] \in {"push", "queue"} =>
            ~Queued(t) /\ ~Names(m_accepted, t) /\ ~Reporting(t)

(* m_mutex_promise                                                         *)
Locked(t) ==
    /\ upc[t] \in {"push", "queue"} => m_mutex_promise[t] = "user" /\ m_state[t] = "SUBMITTED"
    /\ Reporting(t) /\ loop.pc # "check" => m_mutex_promise[t] = "loop"

(* What the place of the token tells of the state.                         *)
StateOK(t) ==
    /\ Queued(t) => m_state[t] \in {"SUBMITTED"} \cup Closed
    /\ Names(m_accepted, t) /\ ~Reporting(t) => m_state[t] \in {"ACCEPTED"} \cup Closed
    /\ Reporting(t) => \/ m_state[t] \in {ExpectedState} \cup Closed
                       \/ loop.pc = "check" /\ loop.ret = "cancel" /\ m_state[t] = "ACCEPTED"
    /\ Reporting(t) /\ loop.pc = "write" /\ ~loop.open => IsClosed(t)

Tracked(t) ==
    c_state # "CLOSED" /\ ~threw[t] =>
        /\ m_state[t] = "SUBMITTED" /\ upc[t] \notin {"push", "queue"} => Queued(t) \/ Reporting(t)
        /\ m_state[t] = "ACCEPTED" /\ ~ConnectionLoss => Names(m_accepted, t) \/ Reporting(t)

Resolved(t) ==
    /\ satisfied[t] => future[t] # "pending"
    /\ IsClosed(t) /\ upc[t] = "free" => future[t] # "pending"

PerTx(t) == OneToken(t) /\ Locked(t) /\ StateOK(t) /\ Tracked(t) /\ Resolved(t)
IInv == TypeOK /\ QueuesOK /\ LoopOK /\ \A t \in Tx : PerTx(t)

-----------------------------------------------------------------------------
LEMMA NamesEmpty == \A t : ~Names(<<>>, t)
BY DEF Names

LEMMA NamesAppend ==
    ASSUME NEW q \in Seq(CommandRec), NEW c \in CommandRec, NEW t
    PROVE  Names(Append(q, c), t) <=> Names(q, t) \/ c.tx = t
BY SMTT(30) DEF Names

LEMMA NamesTail ==
    ASSUME NEW q \in Seq(CommandRec), q # <<>>, NEW t
    PROVE  Names(q, t) <=> Head(q).tx = t \/ Names(Tail(q), t)
<1>1. ASSUME NEW i \in DOMAIN q, q[i].tx = t PROVE Head(q).tx = t \/ Names(Tail(q), t)
  <2>1. CASE i = 1
    BY <1>1, <2>1
  <2>2. CASE i # 1
    <3>1. i - 1 \in DOMAIN Tail(q) /\ Tail(q)[i - 1] = q[i]
      BY <2>2
    <3> QED BY <1>1, <3>1 DEF Names
  <2> QED BY <2>1, <2>2
<1>2. ASSUME Names(Tail(q), t) PROVE Names(q, t)
  BY <1>2 DEF Names
<1>3. ASSUME Head(q).tx = t PROVE Names(q, t)
  BY <1>3 DEF Names
<1> QED BY <1>1, <1>2, <1>3 DEF Names

LEMMA QueueAppend ==
    ASSUME NEW q \in Seq(CommandRec), NEW c \in CommandRec, NEW kinds,
           Kinds(q, kinds), Once(q), c.kind \in kinds, c.kind = "submit" <=> c.tx \in Tx,
           c.tx \in Tx => ~Names(q, c.tx)
    PROVE  Kinds(Append(q, c), kinds) /\ Once(Append(q, c))
BY DEF Kinds, Once, Names

LEMMA QueueTail ==
    ASSUME NEW q \in Seq(CommandRec), q # <<>>, NEW kinds, Kinds(q, kinds), Once(q)
    PROVE  /\ Kinds(Tail(q), kinds) /\ Once(Tail(q))
           /\ Head(q) \in CommandRec /\ Tail(q) \in Seq(CommandRec)
           /\ Head(q).kind \in kinds /\ (Head(q).kind = "submit" <=> Head(q).tx \in Tx)
           /\ Head(q).tx \in Tx => ~Names(Tail(q), Head(q).tx)
<1>1. \A i \in DOMAIN Tail(q) : i + 1 \in DOMAIN q /\ Tail(q)[i] = q[i + 1] /\ i \in Int
  OBVIOUS
<1>2. 1 \in DOMAIN q /\ Head(q) = q[1]
  OBVIOUS
<1>3. Kinds(Tail(q), kinds)
  BY <1>1 DEF Kinds
<1>4. Once(Tail(q))
  BY <1>1 DEF Once
<1>5. Head(q).tx \in Tx => ~Names(Tail(q), Head(q).tx)
  BY <1>1, <1>2 DEF Once, Names
<1> QED BY <1>2, <1>3, <1>4, <1>5 DEF Kinds

LEMMA QueueEmpty == \A kinds : Kinds(<<>>, kinds) /\ Once(<<>>)
BY DEF Kinds, Once

(* The event loop between two calls.                                       *)
LEMMA AtFields ==
    ASSUME NEW p \in LoopPc
    PROVE  /\ At(p) \in LoopRec
           /\ At(p).pc = p /\ At(p).tx = Null /\ At(p).ret = ""
BY DEF At, LoopRec

-----------------------------------------------------------------------------
LEMMA InitIInv == Init => IInv
<1> SUFFICES ASSUME Init PROVE IInv
  OBVIOUS
<1>1. TypeOK
  <2>1. loop.pc = "idle"
    BY AtFields DEF Init, LoopPc
  <2>2. pings \in 0 .. MaxPing
    BY LifecycleAssumption DEF Init
  <2>3. /\ m_commands \in Seq(CommandRec) /\ m_requests \in Seq(CommandRec)
        /\ m_accepted \in Seq(CommandRec)
    BY DEF Init
  <2>4. /\ m_state \in [Tx -> {"OPEN", "SUBMITTED", "ACCEPTED"} \cup Closed]
        /\ m_mutex_promise \in [Tx -> {"none", "user", "loop"}]
        /\ upc \in [Tx -> {"free", "push", "queue", "discard", "unpromise"}]
        /\ future \in [Tx -> {"none", "pending", "EXCEPTION", "COMMITTED"} \cup SubmitCode]
        /\ satisfied \in [Tx -> BOOLEAN] /\ threw \in [Tx -> BOOLEAN]
        /\ discarded \in [Tx -> BOOLEAN]
    BY DEF Init
  <2>5. c_state = "CONNECTED" /\ async = FALSE /\ closer = FALSE /\ died = FALSE
    BY DEF Init
  <2> QED BY <2>1, <2>2, <2>3, <2>4, <2>5 DEF TypeOK
<1>2. QueuesOK
  BY QueueEmpty DEF Init, QueuesOK
<1>3. LoopOK
  BY AtFields DEF Init, LoopOK, LoopPc
<1>4. ASSUME NEW t \in Tx PROVE PerTx(t)
  <2>1. loop.pc = "idle"
    BY AtFields DEF Init, LoopPc
  <2> QED BY <2>1, NamesEmpty DEF Init, PerTx, OneToken, Locked, StateOK, Tracked, Resolved,
             Queued, Reporting, IsClosed, Closed
<1> QED BY <1>1, <1>2, <1>3, <1>4 DEF IInv

(* Push() of a command.                                                    *)
LEMMA PushQueues ==
    ASSUME IInv, NEW c \in CommandRec, Push(c), c.kind = "submit" <=> c.tx \in Tx,
           c.tx \in Tx => ~Queued(c.tx)
    PROVE  /\ m_commands' \in Seq(CommandRec) /\ async' \in BOOLEAN /\ QueuesOK'
           /\ \A t \in Tx : Names(m_commands, t)' <=> Names(m_commands, t) \/ c.tx = t
<1>1. m_commands' = Append(m_commands, c) /\ m_commands \in Seq(CommandRec)
  BY DEF IInv, TypeOK, Push
<1>2. c.kind \in {"submit", "ping", "close"}
  BY DEF CommandRec
<1>3. /\ Kinds(m_commands, {"submit", "ping", "close"})' /\ Once(m_commands)'
  BY <1>1, <1>2, QueueAppend DEF IInv, QueuesOK, Queued
<1>4. QueuesOK'
  BY <1>3 DEF Push, QueuesOK, IInv
<1>5. async' \in BOOLEAN
  BY DEF IInv, TypeOK, Push
<1> QED BY <1>1, <1>4, <1>5, NamesAppend

LEMMA SubmitBeginIInv ==
    ASSUME IInv, NEW u \in Tx, SubmitBegin(u) PROVE IInv'
<1> USE DEF SubmitBegin, IInv, clientvars
<1>1. TypeOK'
  BY DEF TypeOK
<1>2. QueuesOK'
  BY DEF QueuesOK
<1>3. LoopOK'
  BY DEF LoopOK
<1>4. ASSUME NEW t \in Tx PROVE PerTx(t)'
  BY DEF PerTx, OneToken, Locked, StateOK, Tracked, Resolved, Queued, Reporting, IsClosed,
     Closed, TypeOK, LoopOK, ExpectedState
<1> QED BY <1>1, <1>2, <1>3, <1>4

LEMMA SubmitPushIInv ==
    ASSUME IInv, NEW u \in Tx, SubmitPush(u) PROVE IInv'
<1> USE DEF SubmitPush, SubmitReturn, IInv, clientvars, txvars, history
<1>1. TypeOK'
  BY ZenonT(30) DEF TypeOK, NewFuture
<1>2. QueuesOK'
  BY DEF QueuesOK
<1>3. LoopOK'
  BY DEF LoopOK
<1>4. ASSUME NEW t \in Tx PROVE PerTx(t)'
  <2> USE DEF PerTx, Queued, Reporting
  <2>1. OneToken(t)'
    BY DEF OneToken, TypeOK
  <2>2. Locked(t)'
    BY DEF OneToken, Locked, TypeOK
  <2>3. StateOK(t)'
    BY DEF StateOK, ExpectedState, IsClosed
  <2>4. Tracked(t)'
    BY DEF Tracked, TypeOK
  <2>5. Resolved(t)'
    BY DEF Resolved, IsClosed, Closed, Locked, NewFuture, TypeOK
  <2> QED BY <2>1, <2>2, <2>3, <2>4, <2>5
<1> QED BY <1>1, <1>2, <1>3, <1>4

LEMMA SubmitQueueIInv ==
    ASSUME IInv, NEW u \in Tx, SubmitQueue(u) PROVE IInv'
<1> USE DEF IInv
<1> DEFINE c == Command("submit", u)
<1>0. ~Queued(u) /\ ~Names(m_accepted, u) /\ ~Reporting(u) /\ m_state[u] = "SUBMITTED"
  BY DEF SubmitQueue, PerTx, OneToken, Locked
<1>1. CASE Full /\ SubmitReturn(u, "none", TRUE) /\ UNCHANGED clientvars
  <2> USE <1>1 DEF SubmitReturn, clientvars
  <2>1. TypeOK'
    BY DEF TypeOK
  <2>2. QueuesOK'
    BY DEF QueuesOK
  <2>3. LoopOK'
    BY DEF LoopOK
  <2>4. ASSUME NEW t \in Tx PROVE PerTx(t)'
    <3> USE DEF PerTx, Queued, Reporting
    <3>1. OneToken(t)'
      BY <1>0 DEF OneToken, TypeOK
    <3>2. Locked(t)'
      BY <1>0 DEF OneToken, Locked, TypeOK
    <3>3. StateOK(t)'
      BY <1>0 DEF StateOK, ExpectedState, IsClosed
    <3>4. Tracked(t)'
      BY <1>0 DEF Tracked, TypeOK
    <3>5. Resolved(t)'
      BY <1>0 DEF Resolved, IsClosed, Closed, Locked, NewFuture, TypeOK
    <3> QED BY <3>1, <3>2, <3>3, <3>4, <3>5
  <2> QED BY <2>1, <2>2, <2>3, <2>4
<1>2. CASE ~Full /\ SubmitReturn(u, NewFuture(u), FALSE) /\ Push(c)
  <2>1. c \in CommandRec /\ c.kind = "submit" /\ c.tx = u
    BY DEF Command, CommandRec
  <2>2. /\ m_commands' \in Seq(CommandRec) /\ async' \in BOOLEAN /\ QueuesOK'
        /\ \A t \in Tx : Names(m_commands, t)' <=> Names(m_commands, t) \/ u = t
    BY <1>0, <1>2, <2>1, PushQueues
  <2> USE <1>2 DEF SubmitReturn, Push
  <2>3. TypeOK'
    BY <2>2 DEF TypeOK, NewFuture
  <2>4. LoopOK'
    BY DEF LoopOK
  <2>5. ASSUME NEW t \in Tx PROVE PerTx(t)'
    <3> USE DEF PerTx, Queued, Reporting
    <3>1. OneToken(t)'
      BY <1>0, <2>2 DEF OneToken, TypeOK
    <3>2. Locked(t)'
      BY <1>0, <2>2 DEF OneToken, Locked, TypeOK
    <3>3. StateOK(t)'
      BY <1>0, <2>2 DEF StateOK, ExpectedState, IsClosed
    <3>4. Tracked(t)'
      BY <1>0, <2>2 DEF Tracked, TypeOK
    <3>5. Resolved(t)'
      BY <1>0, <2>2 DEF Resolved, IsClosed, Closed, Locked, NewFuture, TypeOK
    <3> QED BY <3>1, <3>2, <3>3, <3>4, <3>5
  <2> QED BY <2>2, <2>3, <2>4, <2>5
<1> QED BY <1>1, <1>2 DEF SubmitQueue

LEMMA PingCloseIInv ==
    ASSUME IInv, Ping \/ Close PROVE IInv'
<1> USE DEF IInv
<1>1. /\ UNCHANGED <<txvars, upc, history>> /\ UNCHANGED <<c_state, m_requests, m_accepted, loop>>
      /\ pings' \in 0 .. MaxPing /\ closer' \in BOOLEAN
  <2>1. CASE Ping
    BY <2>1, LifecycleAssumption DEF Ping, clientvars, TypeOK, Push
  <2>2. CASE Close
    BY <2>2 DEF Close, clientvars, TypeOK, Push
  <2> QED BY <2>1, <2>2
<1>2. PICK c \in CommandRec : c.tx = Null /\ c.kind # "submit" /\ (UNCHANGED clientvars \/ Push(c))
  BY DEF Ping, Close, Command, CommandRec
<1>3. /\ m_commands' \in Seq(CommandRec) /\ async' \in BOOLEAN /\ QueuesOK'
      /\ \A t \in Tx : Names(m_commands, t)' <=> Names(m_commands, t)
  <2>1. CASE UNCHANGED clientvars
    BY <2>1 DEF clientvars, TypeOK, QueuesOK
  <2>2. CASE Push(c)
    BY <1>2, <2>2, PushQueues, LifecycleAssumption
  <2> QED BY <1>2, <2>1, <2>2
<1> USE <1>1 DEF txvars, history
<1>4. TypeOK'
  BY <1>3 DEF TypeOK
<1>5. LoopOK'
  BY DEF LoopOK
<1>6. ASSUME NEW t \in Tx PROVE PerTx(t)'
  BY <1>3 DEF PerTx, OneToken, Locked, StateOK, Tracked, Resolved, Queued, Reporting,
     IsClosed, ExpectedState
<1> QED BY <1>3, <1>4, <1>5, <1>6

LEMMA DiscardCheckIInv ==
    ASSUME IInv, NEW u \in Tx, DiscardCheck(u) PROVE IInv'
<1> USE DEF IInv, DiscardCheck, clientvars, txvars, history
<1>1. TypeOK'
  BY DEF TypeOK
<1>2. QueuesOK'
  BY DEF QueuesOK
<1>3. LoopOK'
  BY DEF LoopOK
<1>4. ASSUME NEW t \in Tx PROVE PerTx(t)'
  <2> USE DEF PerTx, Queued, Reporting
  <2>1. OneToken(t)'
    BY DEF OneToken, TypeOK
  <2>2. Locked(t)'
    BY DEF OneToken, Locked, TypeOK
  <2>3. StateOK(t)'
    BY DEF StateOK, ExpectedState, IsClosed, TypeOK
  <2>4. Tracked(t)'
    BY DEF Tracked, TypeOK
  <2>5. Resolved(t)'
    BY DEF Resolved, IsClosed, Closed, Locked, TypeOK
  <2> QED BY <2>1, <2>2, <2>3, <2>4, <2>5
<1> QED BY <1>1, <1>2, <1>3, <1>4

LEMMA DiscardWriteIInv ==
    ASSUME IInv, NEW u \in Tx, DiscardWrite(u) PROVE IInv'
<1> USE DEF IInv, DiscardWrite, clientvars, txvars, history
<1>1. TypeOK'
  BY DEF TypeOK, Closed
<1>2. QueuesOK'
  BY DEF QueuesOK
<1>3. LoopOK'
  BY DEF LoopOK
<1>4. ASSUME NEW t \in Tx PROVE PerTx(t)'
  <2> USE DEF PerTx, Queued, Reporting
  <2>1. OneToken(t)'
    BY DEF OneToken, TypeOK, Closed
  <2>2. Locked(t)'
    BY DEF OneToken, Locked, TypeOK, Closed
  <2>3. StateOK(t)'
    BY DEF StateOK, ExpectedState, IsClosed, TypeOK, Closed
  <2>4. Tracked(t)'
    BY DEF Tracked, TypeOK, Closed
  <2>5. Resolved(t)'
    BY DEF Resolved, IsClosed, Closed, Locked, TypeOK, Closed
  <2> QED BY <2>1, <2>2, <2>3, <2>4, <2>5
<1> QED BY <1>1, <1>2, <1>3, <1>4

LEMMA DiscardPromiseIInv ==
    ASSUME IInv, NEW u \in Tx, DiscardPromise(u) PROVE IInv'
<1> USE DEF IInv, DiscardPromise, clientvars, txvars, history
<1>1. TypeOK'
  BY DEF TypeOK
<1>2. QueuesOK'
  BY DEF QueuesOK
<1>3. LoopOK'
  BY DEF LoopOK
<1>4. ASSUME NEW t \in Tx PROVE PerTx(t)'
  <2> USE DEF PerTx, Queued, Reporting
  <2>1. OneToken(t)'
    BY DEF OneToken, TypeOK
  <2>2. Locked(t)'
    BY DEF OneToken, Locked, TypeOK
  <2>3. StateOK(t)'
    BY DEF StateOK, ExpectedState, IsClosed, TypeOK
  <2>4. Tracked(t)'
    BY DEF Tracked, TypeOK
  <2>5. Resolved(t)'
    BY DEF Resolved, IsClosed, Closed, Locked, TypeOK
  <2> QED BY <2>1, <2>2, <2>3, <2>4, <2>5
<1> QED BY <1>1, <1>2, <1>3, <1>4

LEMMA WakeUpIInv ==
    ASSUME IInv, WakeUp PROVE IInv'
<1> USE DEF IInv, WakeUp, txvars, others, LoopPc
<1>1. TypeOK'
  BY AtFields DEF TypeOK
<1>2. QueuesOK'
  BY AtFields DEF QueuesOK
<1>3. LoopOK'
  BY AtFields DEF LoopOK
<1>4. ASSUME NEW t \in Tx PROVE PerTx(t)'
  <2> USE DEF PerTx, Queued, Reporting
  <2>1. OneToken(t)'
    BY AtFields DEF OneToken, TypeOK
  <2>2. Locked(t)'
    BY AtFields DEF OneToken, Locked, TypeOK
  <2>3. StateOK(t)'
    BY AtFields DEF StateOK, ExpectedState, IsClosed, TypeOK
  <2>4. Tracked(t)'
    BY AtFields DEF Tracked, TypeOK
  <2>5. Resolved(t)'
    BY AtFields DEF Resolved, IsClosed, Closed, Locked, TypeOK
  <2> QED BY <2>1, <2>2, <2>3, <2>4, <2>5
<1> QED BY <1>1, <1>2, <1>3, <1>4

LEMMA ConnectionClosedIInv ==
    ASSUME IInv, ConnectionClosed PROVE IInv'
<1> USE DEF IInv, ConnectionClosed, txvars, others, LoopPc
<1>1. TypeOK'
  BY AtFields DEF TypeOK
<1>2. QueuesOK'
  BY AtFields DEF QueuesOK
<1>3. LoopOK'
  BY AtFields DEF LoopOK
<1>4. ASSUME NEW t \in Tx PROVE PerTx(t)'
  <2> USE DEF PerTx, Queued, Reporting
  <2>1. OneToken(t)'
    BY AtFields DEF OneToken, TypeOK
  <2>2. Locked(t)'
    BY AtFields DEF OneToken, Locked, TypeOK
  <2>3. StateOK(t)'
    BY AtFields DEF StateOK, ExpectedState, IsClosed, TypeOK
  <2>4. Tracked(t)'
    BY AtFields DEF Tracked, TypeOK
  <2>5. Resolved(t)'
    BY AtFields DEF Resolved, IsClosed, Closed, Locked, TypeOK
  <2> QED BY <2>1, <2>2, <2>3, <2>4, <2>5
<1> QED BY <1>1, <1>2, <1>3, <1>4

LEMMA ReconnectedIInv ==
    ASSUME IInv, Reconnected PROVE IInv'
<1> USE DEF IInv, Reconnected, txvars, others
<1>1. TypeOK'
  BY DEF TypeOK
<1>2. QueuesOK'
  BY DEF QueuesOK
<1>3. LoopOK'
  BY DEF LoopOK
<1>4. ASSUME NEW t \in Tx PROVE PerTx(t)'
  <2> USE DEF PerTx, Queued, Reporting
  <2>1. OneToken(t)'
    BY DEF OneToken, TypeOK
  <2>2. Locked(t)'
    BY DEF OneToken, Locked, TypeOK
  <2>3. StateOK(t)'
    BY DEF StateOK, ExpectedState, IsClosed, TypeOK
  <2>4. Tracked(t)'
    BY DEF Tracked, TypeOK
  <2>5. Resolved(t)'
    BY DEF Resolved, IsClosed, Closed, Locked, TypeOK
  <2> QED BY <2>1, <2>2, <2>3, <2>4, <2>5
<1> QED BY <1>1, <1>2, <1>3, <1>4

LEMMA CommandsDoneIInv ==
    ASSUME IInv, CommandsDone PROVE IInv'
<1> USE DEF IInv, CommandsDone, txvars, others, LoopPc
<1>1. TypeOK'
  BY AtFields DEF TypeOK
<1>2. QueuesOK'
  BY AtFields DEF QueuesOK
<1>3. LoopOK'
  BY AtFields DEF LoopOK
<1>4. ASSUME NEW t \in Tx PROVE PerTx(t)'
  <2> USE DEF PerTx, Queued, Reporting
  <2>1. OneToken(t)'
    BY AtFields DEF OneToken, TypeOK
  <2>2. Locked(t)'
    BY AtFields DEF OneToken, Locked, TypeOK
  <2>3. StateOK(t)'
    BY AtFields DEF StateOK, ExpectedState, IsClosed, TypeOK
  <2>4. Tracked(t)'
    BY AtFields DEF Tracked, TypeOK
  <2>5. Resolved(t)'
    BY AtFields DEF Resolved, IsClosed, Closed, Locked, TypeOK
  <2> QED BY <2>1, <2>2, <2>3, <2>4, <2>5
<1> QED BY <1>1, <1>2, <1>3, <1>4

LEMMA ReportGuardIInv ==
    ASSUME IInv, ReportGuard PROVE IInv'
<1> USE DEF IInv
<1>1. /\ loop.pc = "guard" /\ loop'.pc = "write" /\ loop'.tx = loop.tx
      /\ loop'.code = loop.code /\ loop'.ret = loop.ret
      /\ loop'.open = ~IsClosed(loop.tx) /\ loop' \in LoopRec
  BY DEF ReportGuard, LoopOK, LoopRec, LoopPc, IsClosed
<1>2. /\ UNCHANGED <<c_state, m_commands, async, m_requests, m_accepted>>
      /\ UNCHANGED <<m_state, satisfied, m_mutex_promise, future, died>>
      /\ UNCHANGED <<upc, pings, closer, threw, discarded>>
  BY DEF ReportGuard, txvars, others
<1>3. TypeOK'
  BY <1>1, <1>2 DEF TypeOK
<1>4. QueuesOK'
  BY <1>2 DEF QueuesOK
<1>5. LoopOK'
  BY <1>1, <1>2 DEF LoopOK
<1>6. ASSUME NEW t \in Tx PROVE PerTx(t)'
  <2> USE DEF PerTx, Queued, Reporting
  <2>1. OneToken(t)'
    BY <1>1, <1>2 DEF OneToken, TypeOK
  <2>2. Locked(t)'
    BY <1>1, <1>2 DEF OneToken, Locked, TypeOK
  <2>3. StateOK(t)'
    BY <1>1, <1>2 DEF StateOK, ExpectedState, IsClosed, TypeOK
  <2>4. Tracked(t)'
    BY <1>1, <1>2 DEF Tracked, TypeOK
  <2>5. Resolved(t)'
    BY <1>1, <1>2 DEF Resolved, IsClosed, Closed, Locked, TypeOK
  <2> QED BY <2>1, <2>2, <2>3, <2>4, <2>5
<1> QED BY <1>3, <1>4, <1>5, <1>6

LEMMA ReportCheckIInv ==
    ASSUME IInv, ReportCheck PROVE IInv'
<1> USE DEF IInv
<1>1. /\ UNCHANGED <<c_state, m_commands, async, m_requests, m_accepted, m_state, satisfied>>
      /\ UNCHANGED <<future, died, upc, pings, closer, threw, discarded>>
      /\ loop.pc = "check" /\ m_mutex_promise[loop.tx] = "none" /\ loop.tx \in Tx
  BY DEF ReportCheck, others, LoopOK
<1>2. QueuesOK'
  BY <1>1 DEF QueuesOK
<1>3. CASE m_state[loop.tx] = ExpectedState
  <2>1. /\ loop'.pc = "guard" /\ loop'.tx = loop.tx /\ loop'.code = loop.code
        /\ loop'.ret = loop.ret /\ loop' \in LoopRec
    BY <1>3 DEF ReportCheck, LoopOK, LoopRec, LoopPc
  <2>2. m_mutex_promise' = [m_mutex_promise EXCEPT ![loop.tx] = "loop"]
    BY <1>3 DEF ReportCheck
  <2>3. TypeOK'
    BY <1>1, <2>1, <2>2 DEF TypeOK
  <2>4. LoopOK'
    BY <1>1, <2>1 DEF LoopOK
  <2>5. ASSUME NEW t \in Tx PROVE PerTx(t)'
    <3> USE DEF PerTx, Queued, Reporting
    <3>1. OneToken(t)'
      BY <1>1, <1>3, <2>1, <2>2 DEF OneToken, TypeOK
    <3>2. Locked(t)'
      BY <1>1, <1>3, <2>1, <2>2 DEF OneToken, Locked, TypeOK
    <3>3. StateOK(t)'
      BY <1>1, <1>3, <2>1, <2>2 DEF StateOK, ExpectedState, IsClosed, TypeOK
    <3>4. Tracked(t)'
      BY <1>1, <1>3, <2>1, <2>2 DEF Tracked, TypeOK
    <3>5. Resolved(t)'
      BY <1>1, <1>3, <2>1, <2>2 DEF Resolved, IsClosed, Closed, Locked, TypeOK
    <3> QED BY <3>1, <3>2, <3>3, <3>4, <3>5
  <2> QED BY <1>2, <2>3, <2>4, <2>5
<1>4. CASE m_state[loop.tx] # ExpectedState
  <2>1. /\ loop'.pc = loop.ret /\ loop'.tx = Null /\ loop'.ret = "" /\ loop' \in LoopRec
        /\ loop.ret \in {"idle", "commands", "cancel"} /\ m_mutex_promise' = m_mutex_promise
    BY <1>1, <1>4, AtFields, ZenonT(30) DEF ReportCheck, LoopOK, LoopPc
  <2>3. TypeOK'
    BY <1>1, <2>1 DEF TypeOK
  <2>4. LoopOK'
    BY <1>1, <2>1 DEF LoopOK
  <2>5. ASSUME NEW t \in Tx PROVE PerTx(t)'
    <3> USE DEF PerTx, Queued, Reporting
    <3>1. OneToken(t)'
      BY <1>1, <1>4, <2>1 DEF OneToken, TypeOK
    <3>2. Locked(t)'
      BY <1>1, <1>4, <2>1 DEF OneToken, Locked, TypeOK
    <3>3. StateOK(t)'
      BY <1>1, <1>4, <2>1 DEF StateOK, ExpectedState, IsClosed, TypeOK
    <3>4. Tracked(t)'
      BY <1>1, <1>4, <2>1 DEF Tracked, TypeOK, StateOK, ExpectedState, LoopOK, OneToken, Closed
    <3>5. Resolved(t)'
      BY <1>1, <1>4, <2>1 DEF Resolved, IsClosed, Closed, Locked, TypeOK
    <3> QED BY <3>1, <3>2, <3>3, <3>4, <3>5
  <2> QED BY <1>2, <2>3, <2>4, <2>5
<1> QED BY <1>3, <1>4

LEMMA ReportWriteIInv ==
    ASSUME IInv, ReportWrite PROVE IInv'
<1> USE DEF IInv
<1> DEFINE u == loop.tx
           throws == loop.code # "ACCEPTED" /\ satisfied[u]
<1>1. /\ UNCHANGED <<m_commands, async, m_requests, m_accepted, upc, pings, closer, threw>>
      /\ UNCHANGED discarded
      /\ loop.pc = "write" /\ u \in Tx /\ loop.code \in Code
      /\ loop.ret \in {"idle", "commands", "cancel"}
  BY DEF ReportWrite, others, LoopOK
<1>2. /\ m_state' = IF loop.open THEN [m_state EXCEPT ![u] = NewState(loop.code)] ELSE m_state
      /\ future' = IF loop.code = "ACCEPTED" \/ throws \/ future[u] # "pending"
                   THEN future ELSE [future EXCEPT ![u] = loop.code]
      /\ satisfied' = [satisfied EXCEPT ![u] =
                IF throws \/ loop.code = "ACCEPTED" THEN @ ELSE loop.code # "TRY_LATER"]
      /\ m_mutex_promise' = [m_mutex_promise EXCEPT ![u] = "none"]
      /\ c_state' = IF throws THEN "CLOSED" ELSE c_state
      /\ died' = (died \/ throws)
  BY DEF ReportWrite
<1>3. /\ loop'.tx = Null /\ loop' \in LoopRec
      /\ IF throws THEN loop'.pc = "closing" /\ loop'.ret = "ending"
         ELSE loop'.pc = loop.ret /\ loop'.ret = ""
  <2>1. CASE throws
    BY <2>1, AtFields DEF ReportWrite, LoopPc, LoopRec
  <2>2. CASE ~throws
    BY <1>1, <2>2, AtFields DEF ReportWrite, LoopPc
  <2> QED BY <2>1, <2>2
<1>4. /\ NewState(loop.code) \in {"OPEN", "ACCEPTED"} \cup Closed
      /\ NewState(loop.code) = "OPEN" <=> loop.code = "TRY_LATER"
      /\ NewState(loop.code) = "ACCEPTED" <=> loop.code = "ACCEPTED"
  BY <1>1 DEF NewState, Code, SubmitCode, Closed
<1> HIDE DEF throws
<1>5. TypeOK'
  <2>1. m_state' \in [Tx -> {"OPEN", "SUBMITTED", "ACCEPTED"} \cup Closed]
    BY <1>1, <1>2, <1>4 DEF TypeOK
  <2>2. future' \in [Tx -> {"none", "pending", "EXCEPTION", "COMMITTED"} \cup SubmitCode]
    BY <1>1, <1>2 DEF TypeOK, Code
  <2>3. satisfied' \in [Tx -> BOOLEAN] /\ died' \in BOOLEAN
    BY <1>1, <1>2 DEF TypeOK, throws
  <2> QED BY <1>1, <1>2, <1>3, <2>1, <2>2, <2>3 DEF TypeOK
<1>6. QueuesOK'
  BY <1>1 DEF QueuesOK
<1>7. LoopOK'
  BY <1>1, <1>2, <1>3 DEF LoopOK
<1>8. ASSUME NEW t \in Tx PROVE PerTx(t)'
  <2> USE DEF PerTx, Queued, Reporting
  <2>1. OneToken(t)'
    BY <1>1, <1>2, <1>3, <1>4 DEF OneToken, TypeOK, Closed
  <2>2. Locked(t)'
    BY <1>1, <1>2, <1>3, <1>4 DEF OneToken, Locked, TypeOK
  <2>3. StateOK(t)'
    BY <1>1, <1>2, <1>3, <1>4, ZenonT(30) DEF StateOK, OneToken, ExpectedState, IsClosed, Closed, TypeOK
  <2>4. Tracked(t)'
    BY <1>1, <1>2, <1>3, <1>4 DEF Tracked, StateOK, OneToken, IsClosed, Closed, TypeOK
  <2>5. Resolved(t)'
    BY <1>1, <1>2, <1>3, <1>4, ZenonT(30) DEF Resolved, IsClosed, Closed, Locked, TypeOK, Code, SubmitCode, throws
  <2> QED BY <2>1, <2>2, <2>3, <2>4, <2>5
<1> QED BY <1>5, <1>6, <1>7, <1>8

(* Report(): the event loop turns to transaction u.                        *)
LEMMA ReportFields ==
    ASSUME NEW u \in Tx, NEW code \in Code, NEW ret \in {"idle", "commands", "cancel"},
           Report(u, code, ret)
    PROVE  /\ loop'.pc = "check" /\ loop'.tx = u /\ loop'.code = code /\ loop'.ret = ret
           /\ loop' \in LoopRec
BY DEF Report, LoopRec, LoopPc

LEMMA PopCommandIInv ==
    ASSUME IInv, PopCommand PROVE IInv'
<1> USE DEF IInv
<1> DEFINE cmd == Head(m_commands)
<1>1. /\ m_commands # <<>> /\ m_commands' = Tail(m_commands) /\ loop.pc = "commands"
      /\ UNCHANGED <<async, m_accepted>>
      /\ UNCHANGED <<m_state, satisfied, m_mutex_promise, future, died>>
      /\ UNCHANGED <<upc, pings, closer, threw, discarded>>
  BY DEF PopCommand, txvars, others
<1>2. /\ m_commands' \in Seq(CommandRec) /\ cmd \in CommandRec
      /\ cmd.kind = "submit" <=> cmd.tx \in Tx
      /\ cmd.tx \in Tx => ~Names(m_commands', cmd.tx)
      /\ Kinds(m_commands', {"submit", "ping", "close"}) /\ Once(m_commands')
  BY <1>1, QueueTail DEF QueuesOK, TypeOK
<1>3. \A t \in Tx : Names(m_commands, t) <=> cmd.tx = t \/ Names(m_commands', t)
  BY <1>1, NamesTail DEF TypeOK
<1> HIDE DEF cmd
<1>4. CASE /\ cmd.kind = "close" /\ c_state # "CLOSED" /\ c_state' = "CLOSED"
           /\ loop' = [At("closing") EXCEPT !.ret = "commands"] /\ UNCHANGED m_requests
  <2>1. loop'.pc = "closing" /\ loop'.tx = Null /\ loop'.ret = "commands" /\ loop' \in LoopRec
    BY <1>4, AtFields, ZenonT(30) DEF LoopRec, LoopPc
  <2>2. cmd.tx \notin Tx
    BY <1>2, <1>4
  <2>3. TypeOK'
    BY <1>1, <1>2, <1>4, <2>1 DEF TypeOK
  <2>4. QueuesOK'
    BY <1>1, <1>2, <1>4 DEF QueuesOK
  <2>5. LoopOK'
    BY <1>4, <2>1 DEF LoopOK
  <2>6. ASSUME NEW t \in Tx PROVE PerTx(t)'
    <3> USE DEF PerTx, Queued, Reporting
    <3>1. OneToken(t)'
      BY <1>1, <1>3, <1>4, <2>1, <2>2 DEF OneToken
    <3>2. Locked(t)'
      BY <1>1, <1>3, <1>4, <2>1, <2>2 DEF OneToken, Locked
    <3>3. StateOK(t)'
      BY <1>1, <1>3, <1>4, <2>1, <2>2 DEF StateOK, OneToken, ExpectedState, IsClosed, Closed
    <3>4. Tracked(t)'
      BY <1>1, <1>3, <1>4, <2>1, <2>2 DEF Tracked, OneToken, StateOK
    <3>5. Resolved(t)'
      BY <1>1, <1>3, <1>4, <2>1, <2>2 DEF Resolved, IsClosed
    <3> QED BY <3>1, <3>2, <3>3, <3>4, <3>5
  <2> QED BY <2>3, <2>4, <2>5, <2>6
<1>5. CASE /\ cmd.kind # "close" /\ c_state = "CONNECTED"
           /\ m_requests' = Append(m_requests, cmd) /\ UNCHANGED <<c_state, loop>>
  <2>1. /\ cmd.kind \in {"submit", "ping"}
        /\ cmd.tx \in Tx => ~Names(m_requests, cmd.tx)
    BY <1>2, <1>3, <1>5 DEF CommandRec, PerTx, OneToken
  <2>2. Kinds(m_requests', {"submit", "ping"}) /\ Once(m_requests') /\ m_requests' \in Seq(CommandRec)
    BY <1>2, <1>5, <2>1, QueueAppend DEF QueuesOK, TypeOK
  <2>3. \A t \in Tx : Names(m_requests', t) <=> Names(m_requests, t) \/ cmd.tx = t
    BY <1>2, <1>5, NamesAppend DEF TypeOK
  <2>4. TypeOK'
    BY <1>1, <1>2, <1>5, <2>2 DEF TypeOK
  <2>5. QueuesOK'
    BY <1>1, <1>2, <2>2 DEF QueuesOK
  <2>6. LoopOK'
    BY <1>5 DEF LoopOK
  <2>7. ASSUME NEW t \in Tx PROVE PerTx(t)'
    <3> USE DEF PerTx, Queued, Reporting
    <3>1. OneToken(t)'
      BY <1>1, <1>2, <1>3, <1>5, <2>3 DEF OneToken
    <3>2. Locked(t)'
      BY <1>1, <1>2, <1>3, <1>5, <2>3 DEF OneToken, Locked
    <3>3. StateOK(t)'
      BY <1>1, <1>2, <1>3, <1>5, <2>3 DEF StateOK, OneToken, ExpectedState, IsClosed, Closed
    <3>4. Tracked(t)'
      BY <1>1, <1>2, <1>3, <1>5, <2>3 DEF Tracked, OneToken, StateOK
    <3>5. Resolved(t)'
      BY <1>1, <1>2, <1>3, <1>5, <2>3 DEF Resolved, IsClosed
    <3> QED BY <3>1, <3>2, <3>3, <3>4, <3>5
  <2> QED BY <2>4, <2>5, <2>6, <2>7
<1>6. CASE /\ cmd.kind = "submit" /\ c_state # "CONNECTED"
           /\ Report(cmd.tx, "EXCEPTION", "commands") /\ UNCHANGED <<c_state, m_requests>>
  <2>1. /\ loop'.pc = "check" /\ loop'.tx = cmd.tx /\ loop'.code = "EXCEPTION"
        /\ loop'.ret = "commands" /\ loop' \in LoopRec /\ cmd.tx \in Tx
    BY <1>2, <1>6, ReportFields DEF Code
  <2>2. TypeOK'
    BY <1>1, <1>2, <1>6, <2>1 DEF TypeOK
  <2>3. QueuesOK'
    BY <1>1, <1>2, <1>6 DEF QueuesOK
  <2>4. LoopOK'
    BY <1>6, <2>1 DEF LoopOK, Code
  <2>5. ASSUME NEW t \in Tx PROVE PerTx(t)'
    <3> USE DEF PerTx, Queued, Reporting
    <3>1. OneToken(t)'
      BY <1>1, <1>2, <1>3, <1>6, <2>1 DEF OneToken
    <3>2. Locked(t)'
      BY <1>1, <1>2, <1>3, <1>6, <2>1 DEF OneToken, Locked
    <3>3. StateOK(t)'
      BY <1>1, <1>2, <1>3, <1>6, <2>1 DEF StateOK, OneToken, ExpectedState, IsClosed, Closed
    <3>4. Tracked(t)'
      BY <1>1, <1>2, <1>3, <1>6, <2>1 DEF Tracked, OneToken, StateOK
    <3>5. Resolved(t)'
      BY <1>1, <1>2, <1>3, <1>6, <2>1 DEF Resolved, IsClosed
    <3> QED BY <3>1, <3>2, <3>3, <3>4, <3>5
  <2> QED BY <2>2, <2>3, <2>4, <2>5
<1>7. CASE cmd.kind # "submit" /\ UNCHANGED <<c_state, m_requests, loop>>
  <2>1. TypeOK'
    BY <1>1, <1>2, <1>7 DEF TypeOK
  <2>2. QueuesOK'
    BY <1>1, <1>2, <1>7 DEF QueuesOK
  <2>3. LoopOK'
    BY <1>7 DEF LoopOK
  <2>4. ASSUME NEW t \in Tx PROVE PerTx(t)'
    <3> USE DEF PerTx, Queued, Reporting
    <3>1. OneToken(t)'
      BY <1>1, <1>2, <1>3, <1>7 DEF OneToken
    <3>2. Locked(t)'
      BY <1>1, <1>2, <1>3, <1>7 DEF OneToken, Locked
    <3>3. StateOK(t)'
      BY <1>1, <1>2, <1>3, <1>7 DEF StateOK, OneToken, ExpectedState, IsClosed, Closed
    <3>4. Tracked(t)'
      BY <1>1, <1>2, <1>3, <1>7 DEF Tracked, OneToken, StateOK
    <3>5. Resolved(t)'
      BY <1>1, <1>2, <1>3, <1>7 DEF Resolved, IsClosed
    <3> QED BY <3>1, <3>2, <3>3, <3>4, <3>5
  <2> QED BY <2>1, <2>2, <2>3, <2>4
<1> QED BY <1>4, <1>5, <1>6, <1>7 DEF PopCommand, cmd

LEMMA ResponseIInv ==
    ASSUME IInv, Response PROVE IInv'
<1> USE DEF IInv
<1> DEFINE req == Head(m_requests)
<1>1. /\ m_requests # <<>> /\ m_requests' = Tail(m_requests) /\ loop.pc = "idle"
      /\ UNCHANGED <<c_state, m_commands, async>>
      /\ UNCHANGED <<m_state, satisfied, m_mutex_promise, future, died>>
      /\ UNCHANGED <<upc, pings, closer, threw, discarded>>
  BY DEF Response, txvars, others
<1>2. /\ m_requests' \in Seq(CommandRec) /\ req \in CommandRec
      /\ req.kind = "submit" <=> req.tx \in Tx
      /\ req.tx \in Tx => ~Names(m_requests', req.tx)
      /\ Kinds(m_requests', {"submit", "ping"}) /\ Once(m_requests')
  BY <1>1, QueueTail DEF QueuesOK, TypeOK
<1>3. \A t \in Tx : Names(m_requests, t) <=> req.tx = t \/ Names(m_requests', t)
  BY <1>1, NamesTail DEF TypeOK
<1>4. \/ req.kind = "ping" /\ UNCHANGED <<loop, m_accepted>>
      \/ /\ req.kind = "submit"
         /\ \E code \in SubmitCode :
              /\ Report(req.tx, code, "idle")
              /\ m_accepted' = IF code = "ACCEPTED" THEN Append(m_accepted, req) ELSE m_accepted
  BY DEF Response
<1> HIDE DEF req
<1>5. CASE req.kind = "ping" /\ UNCHANGED <<loop, m_accepted>>
  <2>1. TypeOK'
    BY <1>1, <1>2, <1>5 DEF TypeOK
  <2>2. QueuesOK'
    BY <1>1, <1>2, <1>5 DEF QueuesOK
  <2>3. LoopOK'
    BY <1>1, <1>5 DEF LoopOK
  <2>4. ASSUME NEW t \in Tx PROVE PerTx(t)'
    <3> USE DEF PerTx, Queued, Reporting
    <3>1. OneToken(t)'
      BY <1>1, <1>2, <1>3, <1>5 DEF OneToken
    <3>2. Locked(t)'
      BY <1>1, <1>2, <1>3, <1>5 DEF OneToken, Locked
    <3>3. StateOK(t)'
      BY <1>1, <1>2, <1>3, <1>5 DEF StateOK, OneToken, ExpectedState, IsClosed, Closed
    <3>4. Tracked(t)'
      BY <1>1, <1>2, <1>3, <1>5 DEF Tracked, OneToken, StateOK
    <3>5. Resolved(t)'
      BY <1>1, <1>2, <1>3, <1>5 DEF Resolved, IsClosed
    <3> QED BY <3>1, <3>2, <3>3, <3>4, <3>5
  <2> QED BY <2>1, <2>2, <2>3, <2>4
<1>6. ASSUME req.kind = "submit", NEW code \in SubmitCode, Report(req.tx, code, "idle"),
             m_accepted' = IF code = "ACCEPTED" THEN Append(m_accepted, req) ELSE m_accepted
      PROVE  IInv'
  <2>1. /\ loop'.pc = "check" /\ loop'.tx = req.tx /\ loop'.code = code
        /\ loop'.ret = "idle" /\ loop' \in LoopRec /\ req.tx \in Tx /\ code # "COMMITTED"
    BY <1>2, <1>6, ReportFields DEF Code, SubmitCode
  <2>2. ~Names(m_accepted, req.tx) /\ ~Names(m_commands, req.tx)
    BY <1>3, <2>1 DEF PerTx, OneToken, Queued
  <2>3. /\ Kinds(m_accepted', {"submit"}) /\ Once(m_accepted') /\ m_accepted' \in Seq(CommandRec)
        /\ \A t \in Tx : Names(m_accepted', t) <=>
                Names(m_accepted, t) \/ (code = "ACCEPTED" /\ req.tx = t)
    <3>1. CASE code = "ACCEPTED"
      BY <1>2, <1>6, <2>2, <3>1, QueueAppend, NamesAppend DEF QueuesOK, TypeOK
    <3>2. CASE code # "ACCEPTED"
      BY <1>6, <3>2 DEF QueuesOK, TypeOK
    <3> QED BY <3>1, <3>2
  <2>4. TypeOK'
    BY <1>1, <1>2, <2>1, <2>3 DEF TypeOK
  <2>5. QueuesOK'
    BY <1>1, <1>2, <2>3 DEF QueuesOK
  <2>6. LoopOK'
    BY <1>1, <2>1 DEF LoopOK, Code
  <2>7. ASSUME NEW t \in Tx PROVE PerTx(t)'
    <3> USE DEF PerTx, Queued, Reporting
    <3>1. OneToken(t)'
      BY <1>1, <1>2, <1>3, <2>1, <2>2, <2>3 DEF OneToken
    <3>2. Locked(t)'
      BY <1>1, <1>2, <1>3, <2>1, <2>2, <2>3 DEF OneToken, Locked
    <3>3. StateOK(t)'
      BY <1>1, <1>2, <1>3, <2>1, <2>2, <2>3 DEF StateOK, OneToken, ExpectedState, IsClosed, Closed
    <3>4. Tracked(t)'
      BY <1>1, <1>2, <1>3, <2>1, <2>2, <2>3 DEF Tracked, OneToken, StateOK
    <3>5. Resolved(t)'
      BY <1>1, <1>2, <1>3, <2>1, <2>2, <2>3 DEF Resolved, IsClosed
    <3> QED BY <3>1, <3>2, <3>3, <3>4, <3>5
  <2> QED BY <2>4, <2>5, <2>6, <2>7
<1> QED BY <1>4, <1>5, <1>6

LEMMA CommitArrivesIInv ==
    ASSUME IInv, CommitArrives PROVE IInv'
<1> USE DEF IInv
<1> DEFINE req == Head(m_accepted)
<1>1. /\ m_accepted # <<>> /\ m_accepted' = Tail(m_accepted) /\ loop.pc = "idle"
      /\ UNCHANGED <<c_state, m_commands, async, m_requests>>
      /\ UNCHANGED <<m_state, satisfied, m_mutex_promise, future, died>>
      /\ UNCHANGED <<upc, pings, closer, threw, discarded>>
  BY DEF CommitArrives, txvars, others
<1>2. /\ m_accepted' \in Seq(CommandRec) /\ req.tx \in Tx /\ ~Names(m_accepted', req.tx)
      /\ Kinds(m_accepted', {"submit"}) /\ Once(m_accepted')
  BY <1>1, QueueTail, SMTT(30) DEF QueuesOK, TypeOK
<1>3. \A t \in Tx : Names(m_accepted, t) <=> req.tx = t \/ Names(m_accepted', t)
  BY <1>1, NamesTail DEF TypeOK
<1>4. /\ loop'.pc = "check" /\ loop'.tx = req.tx /\ loop'.code = "COMMITTED"
      /\ loop'.ret = "idle" /\ loop' \in LoopRec
  BY <1>2, ReportFields DEF Code, CommitArrives
<1> HIDE DEF req
<1>5. TypeOK'
  BY <1>1, <1>2, <1>4 DEF TypeOK
<1>6. QueuesOK'
  BY <1>1, <1>2 DEF QueuesOK
<1>7. LoopOK'
  BY <1>1, <1>2, <1>4 DEF LoopOK, Code
<1>8. ASSUME NEW t \in Tx PROVE PerTx(t)'
  <2> USE DEF PerTx, Queued, Reporting
  <2>1. OneToken(t)'
    BY <1>1, <1>2, <1>3, <1>4 DEF OneToken
  <2>2. Locked(t)'
    BY <1>1, <1>2, <1>3, <1>4 DEF OneToken, Locked
  <2>3. StateOK(t)'
    BY <1>1, <1>2, <1>3, <1>4 DEF StateOK, OneToken, ExpectedState, IsClosed, Closed
  <2>4. Tracked(t)'
    BY <1>1, <1>2, <1>3, <1>4 DEF Tracked, OneToken, StateOK
  <2>5. Resolved(t)'
    BY <1>1, <1>2, <1>3, <1>4 DEF Resolved, IsClosed
  <2> QED BY <2>1, <2>2, <2>3, <2>4, <2>5
<1> QED BY <1>5, <1>6, <1>7, <1>8

(* cancel_requests() takes the first request, or else the first accepted   *)
(* one, or there is none left.                                             *)
LEMMA CancelHead ==
    ASSUME TypeOK, CancelNext
    PROVE  \/ /\ m_requests = <<>> /\ m_accepted = <<>> /\ loop' = At("idle")
              /\ UNCHANGED <<m_requests, m_accepted>>
           \/ /\ m_requests # <<>> /\ m_requests' = Tail(m_requests) /\ UNCHANGED m_accepted
              /\ \/ /\ Head(m_requests).kind = "submit"
                    /\ Report(Head(m_requests).tx, "EXCEPTION", "cancel")
                 \/ Head(m_requests).kind = "ping" /\ UNCHANGED loop
           \/ /\ m_requests = <<>> /\ m_accepted # <<>> /\ m_accepted' = Tail(m_accepted)
              /\ UNCHANGED m_requests
              /\ \/ /\ Head(m_accepted).kind = "submit"
                    /\ Report(Head(m_accepted).tx, "EXCEPTION", "cancel")
                 \/ Head(m_accepted).kind = "ping" /\ UNCHANGED loop
<1> DEFINE q == m_requests \o m_accepted
<1>0. m_requests \in Seq(CommandRec) /\ m_accepted \in Seq(CommandRec)
  BY DEF TypeOK
<1>1. CASE m_requests # <<>>
  <2>1. q # <<>> /\ Head(q) = Head(m_requests)
    BY <1>0, <1>1
  <2> HIDE DEF q
  <2> QED BY <1>1, <2>1 DEF CancelNext, q
<1>2. CASE m_requests = <<>>
  <2>1. q = m_accepted
    BY <1>0, <1>2
  <2> HIDE DEF q
  <2> QED BY <1>2, <2>1 DEF CancelNext, q
<1> QED BY <1>1, <1>2

LEMMA CancelNextIInv ==
    ASSUME IInv, CancelNext PROVE IInv'
<1> USE DEF IInv
<1>1. /\ loop.pc = "cancel" /\ UNCHANGED <<c_state, m_commands, async>>
      /\ UNCHANGED <<m_state, satisfied, m_mutex_promise, future, died>>
      /\ UNCHANGED <<upc, pings, closer, threw, discarded>>
  BY DEF CancelNext, txvars, others
<1>2. CASE /\ m_requests = <<>> /\ m_accepted = <<>> /\ loop' = At("idle")
           /\ UNCHANGED <<m_requests, m_accepted>>
  <2>1. loop'.pc = "idle" /\ loop'.tx = Null /\ loop'.ret = "" /\ loop' \in LoopRec
    BY <1>2, AtFields DEF LoopPc
  <2>2. TypeOK'
    BY <1>1, <1>2, <2>1 DEF TypeOK
  <2>3. QueuesOK'
    BY <1>1, <1>2 DEF QueuesOK
  <2>4. LoopOK'
    BY <1>1, <2>1 DEF LoopOK
  <2>5. ASSUME NEW t \in Tx PROVE PerTx(t)'
    <3> USE DEF PerTx, Queued, Reporting
    <3>1. OneToken(t)'
      BY <1>1, <1>2, <2>1 DEF OneToken
    <3>2. Locked(t)'
      BY <1>1, <1>2, <2>1 DEF OneToken, Locked
    <3>3. StateOK(t)'
      BY <1>1, <1>2, <2>1 DEF StateOK, OneToken, ExpectedState, IsClosed, Closed
    <3>4. Tracked(t)'
      BY <1>1, <1>2, <2>1 DEF Tracked, OneToken, StateOK
    <3>5. Resolved(t)'
      BY <1>1, <1>2, <2>1 DEF Resolved, IsClosed
    <3> QED BY <3>1, <3>2, <3>3, <3>4, <3>5
  <2> QED BY <2>2, <2>3, <2>4, <2>5
<1>3. CASE /\ m_requests # <<>> /\ m_requests' = Tail(m_requests) /\ UNCHANGED m_accepted
           /\ \/ /\ Head(m_requests).kind = "submit"
                 /\ Report(Head(m_requests).tx, "EXCEPTION", "cancel")
              \/ Head(m_requests).kind = "ping" /\ UNCHANGED loop
  <2> DEFINE req == Head(m_requests)
  <2>1. /\ m_requests' \in Seq(CommandRec) /\ (req.kind = "submit" <=> req.tx \in Tx)
        /\ req.tx \in Tx => ~Names(m_requests', req.tx)
        /\ Kinds(m_requests', {"submit", "ping"}) /\ Once(m_requests')
    BY <1>3, QueueTail DEF QueuesOK, TypeOK
  <2>2. \A t \in Tx : Names(m_requests, t) <=> req.tx = t \/ Names(m_requests', t)
    BY <1>3, NamesTail DEF TypeOK
  <2>3. \/ req.tx \notin Tx /\ UNCHANGED loop
        \/ /\ loop'.pc = "check" /\ loop'.tx = req.tx /\ loop'.code = "EXCEPTION"
           /\ loop'.ret = "cancel" /\ loop' \in LoopRec /\ req.tx \in Tx
    BY <1>3, <2>1, ReportFields DEF Code
  <2> HIDE DEF req
  <2>4. TypeOK'
    BY <1>1, <1>3, <2>1, <2>3 DEF TypeOK
  <2>5. QueuesOK'
    BY <1>1, <1>3, <2>1 DEF QueuesOK
  <2>6. LoopOK'
    BY <1>1, <2>3 DEF LoopOK, Code
  <2>7. ASSUME NEW t \in Tx PROVE PerTx(t)'
    <3> USE DEF PerTx, Queued, Reporting
    <3>1. OneToken(t)'
      BY <1>1, <1>3, <2>1, <2>2, <2>3 DEF OneToken
    <3>2. Locked(t)'
      BY <1>1, <1>3, <2>1, <2>2, <2>3 DEF OneToken, Locked
    <3>3. StateOK(t)'
      BY <1>1, <1>3, <2>1, <2>2, <2>3 DEF StateOK, OneToken, ExpectedState, IsClosed, Closed
    <3>4. Tracked(t)'
      BY <1>1, <1>3, <2>1, <2>2, <2>3 DEF Tracked, OneToken, StateOK
    <3>5. Resolved(t)'
      BY <1>1, <1>3, <2>1, <2>2, <2>3 DEF Resolved, IsClosed
    <3> QED BY <3>1, <3>2, <3>3, <3>4, <3>5
  <2> QED BY <2>4, <2>5, <2>6, <2>7
<1>4. CASE /\ m_requests = <<>> /\ m_accepted # <<>> /\ m_accepted' = Tail(m_accepted)
           /\ UNCHANGED m_requests
           /\ \/ /\ Head(m_accepted).kind = "submit"
                 /\ Report(Head(m_accepted).tx, "EXCEPTION", "cancel")
              \/ Head(m_accepted).kind = "ping" /\ UNCHANGED loop
  <2> DEFINE req == Head(m_accepted)
  <2>1. /\ m_accepted' \in Seq(CommandRec) /\ req.kind = "submit" /\ req.tx \in Tx
        /\ ~Names(m_accepted', req.tx) /\ Kinds(m_accepted', {"submit"}) /\ Once(m_accepted')
    BY <1>4, QueueTail DEF QueuesOK, TypeOK
  <2>2. \A t \in Tx : Names(m_accepted, t) <=> req.tx = t \/ Names(m_accepted', t)
    BY <1>4, NamesTail DEF TypeOK
  <2>3. /\ loop'.pc = "check" /\ loop'.tx = req.tx /\ loop'.code = "EXCEPTION"
        /\ loop'.ret = "cancel" /\ loop' \in LoopRec
    BY <1>4, <2>1, ReportFields DEF Code
  <2>4. ConnectionLoss
    BY <1>1 DEF LoopOK
  <2> HIDE DEF req
  <2>5. TypeOK'
    BY <1>1, <1>4, <2>1, <2>3 DEF TypeOK
  <2>6. QueuesOK'
    BY <1>1, <1>4, <2>1 DEF QueuesOK
  <2>7. LoopOK'
    BY <1>1, <2>1, <2>3, <2>4 DEF LoopOK, Code
  <2>8. ASSUME NEW t \in Tx PROVE PerTx(t)'
    <3> USE DEF PerTx, Queued, Reporting
    <3>1. OneToken(t)'
      BY <1>1, <1>4, <2>1, <2>2, <2>3, <2>4 DEF OneToken
    <3>2. Locked(t)'
      BY <1>1, <1>4, <2>1, <2>2, <2>3, <2>4 DEF OneToken, Locked
    <3>3. StateOK(t)'
      BY <1>1, <1>4, <2>1, <2>2, <2>3, <2>4 DEF StateOK, OneToken, ExpectedState, IsClosed, Closed
    <3>4. Tracked(t)'
      BY <1>1, <1>4, <2>1, <2>2, <2>3, <2>4 DEF Tracked, OneToken, StateOK
    <3>5. Resolved(t)'
      BY <1>1, <1>4, <2>1, <2>2, <2>3, <2>4 DEF Resolved, IsClosed
    <3> QED BY <3>1, <3>2, <3>3, <3>4, <3>5
  <2> QED BY <2>5, <2>6, <2>7, <2>8
<1> QED BY <1>2, <1>3, <1>4, CancelHead

LEMMA CloseListsIInv ==
    ASSUME IInv, CloseLists PROVE IInv'
<1> USE DEF IInv
<1>1. /\ loop.pc = "closing" /\ c_state = "CLOSED" /\ UNCHANGED <<c_state, async>>
      /\ m_commands' = <<>> /\ m_requests' = <<>> /\ m_accepted' = <<>>
      /\ UNCHANGED <<m_state, satisfied, m_mutex_promise, future, died>>
      /\ UNCHANGED <<upc, pings, closer, threw, discarded>>
  BY DEF CloseLists, txvars, others, LoopOK
<1>2. /\ loop'.pc \in {"clearing", "ending"} /\ loop'.tx = Null /\ loop'.ret = ""
      /\ loop' \in LoopRec
  BY <1>1, AtFields DEF CloseLists, LoopOK, LoopPc
<1>3. TypeOK'
  <2>1. /\ m_commands' \in Seq(CommandRec) /\ m_requests' \in Seq(CommandRec)
        /\ m_accepted' \in Seq(CommandRec)
    BY <1>1, EmptySeq DEF TypeOK
  <2> QED BY <1>1, <1>2, <2>1 DEF TypeOK
<1>4. QueuesOK'
  BY <1>1, QueueEmpty DEF QueuesOK
<1>5. LoopOK'
  BY <1>1, <1>2 DEF LoopOK
<1>6. ASSUME NEW t \in Tx PROVE PerTx(t)'
  <2> USE DEF PerTx, Queued, Reporting
  <2>1. OneToken(t)'
    BY <1>1, <1>2, NamesEmpty DEF OneToken
  <2>2. Locked(t)'
    BY <1>1, <1>2, NamesEmpty DEF OneToken, Locked
  <2>3. StateOK(t)'
    BY <1>1, <1>2, NamesEmpty DEF StateOK, OneToken, ExpectedState, IsClosed, Closed
  <2>4. Tracked(t)'
    BY <1>1, <1>2, NamesEmpty DEF Tracked, OneToken, StateOK
  <2>5. Resolved(t)'
    BY <1>1, <1>2, NamesEmpty DEF Resolved, IsClosed
  <2> QED BY <2>1, <2>2, <2>3, <2>4, <2>5
<1> QED BY <1>3, <1>4, <1>5, <1>6

LEMMA AbortClearsIInv ==
    ASSUME IInv, AbortClears PROVE IInv'
<1> USE DEF IInv
<1>1. /\ loop.pc = "clearing" /\ c_state = "CLOSED" /\ m_commands' = <<>>
      /\ UNCHANGED <<c_state, async, m_requests, m_accepted>>
      /\ UNCHANGED <<m_state, satisfied, m_mutex_promise, future, died>>
      /\ UNCHANGED <<upc, pings, closer, threw, discarded>>
  BY DEF AbortClears, txvars, others, LoopOK
<1>2. loop'.pc = "commands" /\ loop'.tx = Null /\ loop'.ret = "" /\ loop' \in LoopRec
  BY <1>1, AtFields DEF AbortClears, LoopPc
<1>3. TypeOK'
  <2>1. /\ m_commands' \in Seq(CommandRec) /\ m_requests' \in Seq(CommandRec)
        /\ m_accepted' \in Seq(CommandRec)
    BY <1>1, EmptySeq DEF TypeOK
  <2> QED BY <1>1, <1>2, <2>1 DEF TypeOK
<1>4. QueuesOK'
  BY <1>1, QueueEmpty DEF QueuesOK
<1>5. LoopOK'
  BY <1>1, <1>2 DEF LoopOK
<1>6. ASSUME NEW t \in Tx PROVE PerTx(t)'
  <2> USE DEF PerTx, Queued, Reporting
  <2>1. OneToken(t)'
    BY <1>1, <1>2, NamesEmpty DEF OneToken
  <2>2. Locked(t)'
    BY <1>1, <1>2, NamesEmpty DEF OneToken, Locked
  <2>3. StateOK(t)'
    BY <1>1, <1>2, NamesEmpty DEF StateOK, OneToken, ExpectedState, IsClosed, Closed
  <2>4. Tracked(t)'
    BY <1>1, <1>2, NamesEmpty DEF Tracked, OneToken, StateOK
  <2>5. Resolved(t)'
    BY <1>1, <1>2, NamesEmpty DEF Resolved, IsClosed
  <2> QED BY <2>1, <2>2, <2>3, <2>4, <2>5
<1> QED BY <1>3, <1>4, <1>5, <1>6

LEMMA RunEndsIInv ==
    ASSUME IInv, RunEnds PROVE IInv'
<1> USE DEF IInv
<1>1. /\ loop.pc = "ending" /\ c_state = "CLOSED" /\ m_commands' = <<>>
      /\ UNCHANGED <<c_state, async, m_requests, m_accepted>>
      /\ UNCHANGED <<m_state, satisfied, m_mutex_promise, future, died>>
      /\ UNCHANGED <<upc, pings, closer, threw, discarded>>
  BY DEF RunEnds, txvars, others, LoopOK
<1>2. loop'.pc = "done" /\ loop'.tx = Null /\ loop'.ret = "" /\ loop' \in LoopRec
  BY <1>1, AtFields DEF RunEnds, LoopPc
<1>3. TypeOK'
  <2>1. /\ m_commands' \in Seq(CommandRec) /\ m_requests' \in Seq(CommandRec)
        /\ m_accepted' \in Seq(CommandRec)
    BY <1>1, EmptySeq DEF TypeOK
  <2> QED BY <1>1, <1>2, <2>1 DEF TypeOK
<1>4. QueuesOK'
  BY <1>1, QueueEmpty DEF QueuesOK
<1>5. LoopOK'
  BY <1>1, <1>2 DEF LoopOK
<1>6. ASSUME NEW t \in Tx PROVE PerTx(t)'
  <2> USE DEF PerTx, Queued, Reporting
  <2>1. OneToken(t)'
    BY <1>1, <1>2, NamesEmpty DEF OneToken
  <2>2. Locked(t)'
    BY <1>1, <1>2, NamesEmpty DEF OneToken, Locked
  <2>3. StateOK(t)'
    BY <1>1, <1>2, NamesEmpty DEF StateOK, OneToken, ExpectedState, IsClosed, Closed
  <2>4. Tracked(t)'
    BY <1>1, <1>2, NamesEmpty DEF Tracked, OneToken, StateOK
  <2>5. Resolved(t)'
    BY <1>1, <1>2, NamesEmpty DEF Resolved, IsClosed
  <2> QED BY <2>1, <2>2, <2>3, <2>4, <2>5
<1> QED BY <1>3, <1>4, <1>5, <1>6

-----------------------------------------------------------------------------
LEMMA NextIInv == IInv /\ [Next]_vars => IInv'
<1> SUFFICES ASSUME IInv, [Next]_vars PROVE IInv'
  OBVIOUS
<1>1. CASE UserStep
  BY <1>1, SubmitBeginIInv, SubmitPushIInv, SubmitQueueIInv, DiscardCheckIInv, DiscardWriteIInv,
     DiscardPromiseIInv, PingCloseIInv DEF UserStep
<1>2. CASE LoopStep
  BY <1>2, WakeUpIInv, PopCommandIInv, CommandsDoneIInv, ReportCheckIInv, ReportGuardIInv,
     ReportWriteIInv, CancelNextIInv, CloseListsIInv, AbortClearsIInv,
     RunEndsIInv DEF LoopStep
<1>3. CASE ServerStep
  BY <1>3, ResponseIInv, CommitArrivesIInv DEF ServerStep
<1>4. CASE ConnectionClosed \/ Reconnected
  BY <1>4, ConnectionClosedIInv, ReconnectedIInv
<1>5. CASE UNCHANGED vars
  <2> USE <1>5 DEF vars, clientvars, txvars, history, IInv
  <2>1. TypeOK'
    BY DEF TypeOK
  <2>2. QueuesOK'
    BY DEF QueuesOK
  <2>3. LoopOK'
    BY DEF LoopOK
  <2>4. ASSUME NEW t \in Tx PROVE PerTx(t)'
    <3> USE DEF PerTx, Queued, Reporting
    <3>1. OneToken(t)'
      BY DEF OneToken
    <3>2. Locked(t)'
      BY DEF OneToken, Locked
    <3>3. StateOK(t)'
      BY DEF StateOK, OneToken, ExpectedState, IsClosed, Closed
    <3>4. Tracked(t)'
      BY DEF Tracked, OneToken, StateOK
    <3>5. Resolved(t)'
      BY DEF Resolved, IsClosed
    <3> QED BY <3>1, <3>2, <3>3, <3>4, <3>5
  <2> QED BY <2>1, <2>2, <2>3, <2>4
<1> QED BY <1>1, <1>2, <1>3, <1>4, <1>5 DEF Next

LEMMA Invariance == Spec => []IInv
BY InitIInv, NextIInv, PTL DEF Spec

(* The types of the queues, of the event loop and of the transactions.     *)
THEOREM LifecycleTypeOK == Spec => []TypeOK
<1>1. IInv => TypeOK
  BY DEF IInv
<1> QED BY <1>1, Invariance, PTL

(* Between submit() and the answer no transaction falls through the cracks *)
(* of the queues, however user threads, event loop and lost connections    *)
(* interleave: for any number of transactions and any queue limit.         *)
THEOREM TransactionsTracked == Spec => []SubmittedTracked
<1>1. IInv => SubmittedTracked
  <2> SUFFICES ASSUME IInv, NEW t \in Tx, c_state # "CLOSED", ~Inside(t), ~threw[t]
               PROVE  /\ m_state[t] = "SUBMITTED" => Names(m_commands, t) \/ Names(m_requests, t)
                      /\ m_state[t] = "ACCEPTED" /\ ~ConnectionLoss => Names(m_accepted, t)
    BY DEF SubmittedTracked
  <2> QED BY DEF IInv, PerTx, Tracked, Inside, Queued, Reporting
<1> QED BY <1>1, Invariance, PTL

(* discard(), set_submit_result() and confirm_commit(), with the two-step  *)
(* set_state() and m_mutex_promise: a transaction in a final state has     *)
(* told its user.                                                          *)
THEOREM ClosedTransactionsResolved == Spec => []ClosedResolved
<1>1. IInv => ClosedResolved
  BY DEF IInv, PerTx, Resolved, ClosedResolved, Inside
<1> QED BY <1>1, Invariance, PTL
=============================================================================
