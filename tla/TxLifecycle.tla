----------------------------- MODULE TxLifecycle -----------------------------
(***************************************************************************)
(* From submit() to the answer: the state and the promise of a transaction *)
(* (src/src/transaction_impl.cpp), the command queue between user threads  *)
(* and the event loop, and the lists of requests that wait for an answer   *)
(* (src/src/client_impl.cpp).                                              *)
(*                                                                         *)
(* One user thread per transaction, a thread that pings and one that       *)
(* closes the client run against the event loop.  What NplexTransactions   *)
(* takes as one step is split here where the code holds no lock that would *)
(* make it one: m_state is atomic, but set_state() reads it and writes it  *)
(* in two steps, and discard() calls set_state() without m_mutex_promise.  *)
(* The data of the transactions is left out.                               *)
(***************************************************************************)
EXTENDS Integers, Sequences, FiniteSets

CONSTANTS
    Tx,             \* transactions, each with its own user thread
    Discarding,     \* the transactions whose user may call discard()
    max_active_txs, \* client_params_t::max_active_txs, 0 for unlimited
    Modulus,        \* 2^w: the counter wraps at the width w of its type (32 bits)
    MaxPing,        \* bound: number of pings
    Closing,        \* may the user close the client?
    ConnectionLoss, \* may the connection be lost?
    Null

ASSUME LifecycleAssumption ==
    /\ Discarding \subseteq Tx
    /\ Modulus \in Nat \ {0} /\ max_active_txs \in 0 .. Modulus - 1
    /\ MaxPing \in Nat
    /\ Closing \in BOOLEAN /\ ConnectionLoss \in BOOLEAN
    /\ Null \notin Tx

VARIABLES
    c_state,        \* client: "CONNECTED", "OFFLINE" or "CLOSED"
    m_commands,     \* queue of commands
    async,          \* has uv_async_send() been called since the last wake-up?
    m_requests,     \* requests sent and not answered
    m_accepted,     \* transactions accepted and not committed
    loop,           \* where the event loop is
    m_state,        \* state of each transaction
    satisfied,      \* has the current promise of the transaction been set?
    m_mutex_promise,\* who holds it: "none", "user" or "loop"
    upc,            \* where the user thread of the transaction is
    future,         \* what the future of the last submit() holds
    pings,          \* number of pings made
    closer,         \* the user asked to close the client
    threw,          \* history: submit() of the transaction threw an exception
    discarded,      \* history: discard() of the transaction has returned
    died            \* history: an exception left the event loop

clientvars == <<c_state, m_commands, async, m_requests, m_accepted, loop>>
txvars == <<m_state, satisfied, m_mutex_promise, future>>
history == <<threw, discarded, died>>
vars == <<clientvars, txvars, upc, pings, closer, history>>

Closed == {"REJECTED", "COMMITTED", "DISCARDED", "ABORTED"}
IsClosed(t) == m_state[t] \in Closed

At(pc) == [pc |-> pc, tx |-> Null, code |-> "", open |-> FALSE, ret |-> ""]

Init ==
    /\ c_state = "CONNECTED" /\ m_commands = <<>> /\ async = FALSE
    /\ m_requests = <<>> /\ m_accepted = <<>> /\ loop = At("idle")
    /\ m_state = [t \in Tx |-> "OPEN"] /\ satisfied = [t \in Tx |-> FALSE]
    /\ m_mutex_promise = [t \in Tx |-> "none"]
    /\ upc = [t \in Tx |-> "free"] /\ future = [t \in Tx |-> "none"]
    /\ pings = 0 /\ closer = FALSE
    /\ threw = [t \in Tx |-> FALSE]
    /\ discarded = [t \in Tx |-> FALSE] /\ died = FALSE

-----------------------------------------------------------------------------
(* push_command(): the queue's limit, in the arithmetic of its type.       *)
(* client_impl() and convert_params() turn 0 into the largest value.       *)
MaxActive == IF max_active_txs = 0 THEN Modulus - 1 ELSE max_active_txs
QueueLimit == (MaxActive + 3) % Modulus

Full == Len(m_commands) >= QueueLimit

(* Mutants: a new command replaces the ones that wait; the wake-up is sent *)
(* for the second command instead of the first.                            *)
Push_replaces(cmd) ==
    /\ m_commands' = <<cmd>>
    /\ async' = TRUE
    /\ UNCHANGED <<c_state, m_requests, m_accepted, loop>>
Push_wakesLate(cmd) ==
    /\ m_commands' = Append(m_commands, cmd)
    /\ async' = (async \/ Len(m_commands) = 1)
    /\ UNCHANGED <<c_state, m_requests, m_accepted, loop>>

Push(cmd) ==
    /\ m_commands' = Append(m_commands, cmd)
    /\ async' = (async \/ Len(m_commands) = 0)
    /\ UNCHANGED <<c_state, m_requests, m_accepted, loop>>

Command(kind, t) == [kind |-> kind, tx |-> t]

(* submit(): under m_mutex_promise, which is held until it returns.  A     *)
(* transaction that is not sent ends here too; see NplexTransactions.      *)
SubmitBegin(t) ==
    /\ upc[t] = "free" /\ m_state[t] = "OPEN" /\ m_mutex_promise[t] = "none"
    /\ m_mutex_promise' = [m_mutex_promise EXCEPT ![t] = "user"]
    /\ m_state' = [m_state EXCEPT ![t] = "SUBMITTED"]
    /\ upc' = [upc EXCEPT ![t] = "push"]
    /\ UNCHANGED <<clientvars, satisfied, future, pings, closer, threw, discarded, died>>

(* A promise that discard() already set makes a future that is not pending.*)
NewFuture(t) == IF satisfied[t] THEN "EXCEPTION" ELSE "pending"

SubmitReturn(t, result, throws) ==
    /\ m_mutex_promise' = [m_mutex_promise EXCEPT ![t] = "none"]
    /\ upc' = [upc EXCEPT ![t] = "free"]
    /\ future' = [future EXCEPT ![t] = result]
    /\ threw' = [threw EXCEPT ![t] = throws]
    /\ UNCHANGED <<m_state, satisfied, pings, closer, discarded, died>>

(* push_command() reads the client's state before it takes the lock: on a  *)
(* closed client it returns, and submit() with it.                         *)
SubmitPush(t) ==
    /\ upc[t] = "push"
    /\ \/ /\ c_state = "CLOSED"
          /\ SubmitReturn(t, NewFuture(t), FALSE)
       \/ /\ c_state # "CLOSED"
          /\ upc' = [upc EXCEPT ![t] = "queue"]
          /\ UNCHANGED <<txvars, pings, closer, history>>
    /\ UNCHANGED clientvars

SubmitQueue(t) ==
    /\ upc[t] = "queue"
    /\ \/ Full /\ SubmitReturn(t, "none", TRUE) /\ UNCHANGED clientvars
       \/ ~Full /\ SubmitReturn(t, NewFuture(t), FALSE) /\ Push(Command("submit", t))

(* ping() and close(), from threads of the user.                           *)
Ping ==
    /\ pings < MaxPing /\ c_state # "CLOSED"
    /\ pings' = pings + 1
    /\ IF Full THEN UNCHANGED clientvars ELSE Push(Command("ping", Null))
    /\ UNCHANGED <<txvars, upc, closer, history>>

Close ==
    /\ Closing /\ ~closer /\ c_state # "CLOSED"
    /\ closer' = TRUE
    /\ IF Full THEN UNCHANGED clientvars ELSE Push(Command("close", Null))
    /\ UNCHANGED <<txvars, upc, pings, history>>

(* discard(): set_state() checks, then writes, then the promise is locked. *)
DiscardCheck(t) ==
    /\ t \in Discarding /\ upc[t] = "free" /\ ~discarded[t]
    /\ upc' = [upc EXCEPT ![t] = IF IsClosed(t) THEN "unpromise" ELSE "discard"]
    /\ UNCHANGED <<clientvars, txvars, pings, closer, history>>

DiscardWrite(t) ==
    /\ upc[t] = "discard"
    /\ m_state' = [m_state EXCEPT ![t] = "DISCARDED"]
    /\ upc' = [upc EXCEPT ![t] = "unpromise"]
    /\ UNCHANGED <<clientvars, satisfied, m_mutex_promise, future, pings, closer, history>>

DiscardPromise_silent(t) ==     \* mutant: the promise is not set
    /\ upc[t] = "unpromise" /\ m_mutex_promise[t] = "none"
    /\ discarded' = [discarded EXCEPT ![t] = TRUE]
    /\ upc' = [upc EXCEPT ![t] = "free"]
    /\ UNCHANGED <<clientvars, m_state, satisfied, future, m_mutex_promise, pings, closer,
                   threw, died>>

DiscardPromise(t) ==
    /\ upc[t] = "unpromise" /\ m_mutex_promise[t] = "none"
    /\ future' = IF satisfied[t] \/ future[t] # "pending" THEN future
                 ELSE [future EXCEPT ![t] = "EXCEPTION"]
    /\ satisfied' = [satisfied EXCEPT ![t] = TRUE]
    /\ discarded' = [discarded EXCEPT ![t] = TRUE]
    /\ upc' = [upc EXCEPT ![t] = "free"]
    /\ UNCHANGED <<clientvars, m_state, m_mutex_promise, pings, closer, threw, died>>

UserStep ==
    \/ \E t \in Tx : SubmitBegin(t) \/ SubmitPush(t) \/ SubmitQueue(t)
                     \/ DiscardCheck(t) \/ DiscardWrite(t) \/ DiscardPromise(t)
    \/ Ping \/ Close

-----------------------------------------------------------------------------
others == <<upc, pings, closer, threw, discarded>>

(* cb_process_async_commands(): the loop wakes up.                         *)
WakeUp ==
    /\ loop.pc = "idle" /\ async
    /\ async' = FALSE
    /\ loop' = At("commands")
    /\ UNCHANGED <<c_state, m_commands, m_requests, m_accepted, txvars, died, others>>

(* Call set_submit_result() or confirm_commit() and go on at ret.          *)
Report(t, code, ret) ==
    loop' = [pc |-> "check", tx |-> t, code |-> code, open |-> FALSE, ret |-> ret]

(* process_commands(): one turn, and the process_..._cmd() it calls.  The  *)
(* turns go on after a close command, for what was queued in the meantime. *)
PopCommand ==
    /\ loop.pc = "commands" /\ m_commands # <<>>
    /\ m_commands' = Tail(m_commands)
    /\ LET cmd == Head(m_commands) IN
        \/ /\ cmd.kind = "close" /\ c_state # "CLOSED"
           /\ c_state' = "CLOSED"
           /\ loop' = [At("closing") EXCEPT !.ret = "commands"]
           /\ UNCHANGED m_requests
        \/ /\ cmd.kind # "close" /\ c_state = "CONNECTED"
           /\ m_requests' = Append(m_requests, cmd)
           /\ UNCHANGED <<c_state, loop>>
        \/ /\ cmd.kind = "submit" /\ c_state # "CONNECTED"
           /\ Report(cmd.tx, "EXCEPTION", "commands")
           /\ UNCHANGED <<c_state, m_requests>>
        \/ /\ (cmd.kind = "ping" /\ c_state = "OFFLINE") \/ (cmd.kind # "submit" /\ c_state = "CLOSED")
           /\ UNCHANGED <<c_state, m_requests, loop>>
    /\ UNCHANGED <<async, m_accepted, txvars, died, others>>

CommandsDone ==
    /\ loop.pc = "commands" /\ m_commands = <<>>
    /\ loop' = At(IF c_state = "CLOSED" THEN "ending" ELSE "idle")
    /\ UNCHANGED <<c_state, m_commands, async, m_requests, m_accepted, txvars, died, others>>

(* process_ping_resp(), process_submit_resp(): the server answers the      *)
(* oldest request.  An accepted transaction waits for its commit.          *)
SubmitCode == {"ACCEPTED", "TRY_LATER", "REJECTED", "NO_MODIFICATIONS"}
Response ==
    /\ loop.pc = "idle" /\ c_state = "CONNECTED" /\ m_requests # <<>>
    /\ m_requests' = Tail(m_requests)
    /\ LET req == Head(m_requests) IN
        \/ req.kind = "ping" /\ UNCHANGED <<loop, m_accepted>>
        \/ /\ req.kind = "submit"
           /\ \E code \in SubmitCode :
                /\ Report(req.tx, code, "idle")
                /\ m_accepted' = IF code = "ACCEPTED" THEN Append(m_accepted, req) ELSE m_accepted
    /\ UNCHANGED <<c_state, m_commands, async, txvars, died, others>>

(* The end of process_update() for the commit of the oldest accepted one.  *)
CommitArrives ==
    /\ loop.pc = "idle" /\ c_state = "CONNECTED" /\ m_accepted # <<>>
    /\ m_accepted' = Tail(m_accepted)
    /\ Report(Head(m_accepted).tx, "COMMITTED", "idle")
    /\ UNCHANGED <<c_state, m_commands, async, m_requests, txvars, died, others>>

(* on_connection_closed() and cancel_requests(): request by request.       *)
ConnectionClosed ==
    /\ ConnectionLoss
    /\ loop.pc = "idle" /\ c_state = "CONNECTED"
    /\ c_state' = "OFFLINE"
    /\ loop' = At("cancel")
    /\ UNCHANGED <<m_commands, async, m_requests, m_accepted, txvars, died, others>>

CancelNext ==
    /\ loop.pc = "cancel"
    /\ LET q == m_requests \o m_accepted IN
        \/ q = <<>> /\ loop' = At("idle")
        \/ q # <<>> /\ Head(q).kind = "submit" /\ Report(Head(q).tx, "EXCEPTION", "cancel")
        \/ q # <<>> /\ Head(q).kind = "ping" /\ UNCHANGED loop
    /\ m_requests' = IF m_requests = <<>> THEN <<>> ELSE Tail(m_requests)
    /\ m_accepted' = IF m_requests # <<>> \/ m_accepted = <<>> THEN m_accepted
                     ELSE Tail(m_accepted)
    /\ UNCHANGED <<c_state, m_commands, async, txvars, died, others>>

Reconnected ==
    /\ loop.pc = "idle" /\ c_state = "OFFLINE"
    /\ c_state' = "CONNECTED"
    /\ UNCHANGED <<m_commands, async, m_requests, m_accepted, loop, txvars, died, others>>

(* set_submit_result() and confirm_commit(): under m_mutex_promise, the    *)
(* state must be the expected one ...                                      *)
ExpectedState == IF loop.code = "COMMITTED" THEN "ACCEPTED" ELSE "SUBMITTED"
ReportCheck ==
    /\ loop.pc = "check" /\ m_mutex_promise[loop.tx] = "none"
    /\ IF m_state[loop.tx] = ExpectedState
       THEN /\ m_mutex_promise' = [m_mutex_promise EXCEPT ![loop.tx] = "loop"]
            /\ loop' = [loop EXCEPT !.pc = "guard"]
       ELSE UNCHANGED m_mutex_promise /\ loop' = At(loop.ret)
    /\ UNCHANGED <<c_state, m_commands, async, m_requests, m_accepted, m_state, satisfied,
                   future, died, others>>

(* ... then set_state() checks that it is not closed ...                   *)
ReportGuard ==
    /\ loop.pc = "guard"
    /\ loop' = [loop EXCEPT !.pc = "write", !.open = ~IsClosed(loop.tx)]
    /\ UNCHANGED <<c_state, m_commands, async, m_requests, m_accepted, txvars, died, others>>

(* ... and writes it, and the promise is set.  Setting a promise twice is  *)
(* an exception that leaves the event loop: run() closes the client.       *)
NewState_raw(code) ==       \* mutant: NO_MODIFICATIONS is taken for a state
    CASE code = "EXCEPTION" -> "ABORTED"
      [] code = "TRY_LATER" -> "OPEN"
      [] OTHER -> code
NewState(code) ==
    CASE code = "EXCEPTION" -> "ABORTED"
      [] code = "TRY_LATER" -> "OPEN"
      [] code = "NO_MODIFICATIONS" -> "DISCARDED"
      [] OTHER -> code
ReportWrite ==
    /\ loop.pc = "write"
    /\ LET t == loop.tx
           throws == loop.code # "ACCEPTED" /\ satisfied[t]
       IN /\ m_state' = IF loop.open THEN [m_state EXCEPT ![t] = NewState(loop.code)]
                        ELSE m_state
          /\ future' = IF loop.code = "ACCEPTED" \/ throws \/ future[t] # "pending"
                       THEN future ELSE [future EXCEPT ![t] = loop.code]
          /\ satisfied' = [satisfied EXCEPT ![t] =
                IF throws \/ loop.code = "ACCEPTED" THEN @ ELSE loop.code # "TRY_LATER"]
          /\ m_mutex_promise' = [m_mutex_promise EXCEPT ![t] = "none"]
          /\ died' = (died \/ throws)
          /\ c_state' = IF throws THEN "CLOSED" ELSE c_state
          /\ loop' = IF throws THEN [At("closing") EXCEPT !.ret = "ending"] ELSE At(loop.ret)
    /\ UNCHANGED <<m_commands, async, m_requests, m_accepted, others>>

(* set_state(CLOSED), called by abort() or, after an exception, by run():  *)
(* every list is emptied without reporting anything to the transactions in *)
(* them.                                                                   *)
CloseLists ==
    /\ loop.pc = "closing"
    /\ m_commands' = <<>> /\ m_requests' = <<>> /\ m_accepted' = <<>>
    /\ loop' = At(IF loop.ret = "commands" THEN "clearing" ELSE "ending")
    /\ UNCHANGED <<c_state, async, txvars, died, others>>

(* abort() empties the commands once more, under the lock of its own, and  *)
(* process_commands() goes on.                                             *)
AbortClears ==
    /\ loop.pc = "clearing"
    /\ m_commands' = <<>>
    /\ loop' = At("commands")
    /\ UNCHANGED <<c_state, async, m_requests, m_accepted, txvars, died, others>>

(* The end of run(), for what was queued since.                            *)
RunEnds ==
    /\ loop.pc = "ending"
    /\ m_commands' = <<>>
    /\ loop' = At("done")
    /\ UNCHANGED <<c_state, async, m_requests, m_accepted, txvars, died, others>>

LoopStep ==
    \/ WakeUp \/ PopCommand \/ CommandsDone
    \/ ReportCheck \/ ReportGuard \/ ReportWrite
    \/ CancelNext \/ CloseLists \/ AbortClears \/ RunEnds

ServerStep == Response \/ CommitArrives

Next == UserStep \/ LoopStep \/ ServerStep \/ ConnectionClosed \/ Reconnected

Spec == Init /\ [][Next]_vars

(* The event loop runs, and libuv serves every ready handle in each of its *)
(* turns, the wake-up included, whatever the connections do; the server    *)
(* answers, and a user thread inside a call of the library finishes it.    *)
FairSpec ==
    /\ Spec
    /\ WF_vars(LoopStep) /\ SF_vars(WakeUp) /\ WF_vars(ServerStep) /\ WF_vars(Reconnected)
    /\ \A t \in Tx : WF_vars(SubmitPush(t) \/ SubmitQueue(t) \/ DiscardWrite(t)
                             \/ DiscardPromise(t))

-----------------------------------------------------------------------------
CommandRec == [kind : {"submit", "ping", "close"}, tx : Tx \cup {Null}]

(* Type invariant.                                                         *)
TypeOK ==
    /\ c_state \in {"CONNECTED", "OFFLINE", "CLOSED"} /\ async \in BOOLEAN
    /\ m_commands \in Seq(CommandRec) /\ m_requests \in Seq(CommandRec)
    /\ m_accepted \in Seq(CommandRec)
    /\ loop.pc \in {"idle", "commands", "cancel", "check", "guard", "write", "closing",
                   "clearing", "ending", "done"}
    /\ loop.pc \in {"check", "guard", "write"} => loop.tx \in Tx
    /\ m_state \in [Tx -> {"OPEN", "SUBMITTED", "ACCEPTED"} \cup Closed]
    /\ satisfied \in [Tx -> BOOLEAN]
    /\ m_mutex_promise \in [Tx -> {"none", "user", "loop"}]
    /\ upc \in [Tx -> {"free", "push", "queue", "discard", "unpromise"}]
    /\ future \in [Tx -> {"none", "pending", "EXCEPTION", "COMMITTED"} \cup SubmitCode]
    /\ pings \in 0 .. MaxPing /\ closer \in BOOLEAN
    /\ threw \in [Tx -> BOOLEAN] /\ discarded \in [Tx -> BOOLEAN] /\ died \in BOOLEAN

Names(q, t) == \E i \in DOMAIN q : q[i].tx = t
Inside(t) == upc[t] # "free" \/ loop.tx = t

(* A transaction never falls through the cracks of the queues: while the   *)
(* client is not closed, a SUBMITTED one has its command or its request in *)
(* a queue, an ACCEPTED one waits for its commit, or somebody is at work   *)
(* on it; otherwise submit() had thrown or the connection was lost.        *)
SubmittedTracked ==
    \A t \in Tx : c_state # "CLOSED" /\ ~Inside(t) /\ ~threw[t] =>
        /\ m_state[t] = "SUBMITTED" => Names(m_commands, t) \/ Names(m_requests, t)
        /\ m_state[t] = "ACCEPTED" /\ ~ConnectionLoss => Names(m_accepted, t)

(* A transaction in a final state has told its user: the future of its     *)
(* last submit() is not left pending by discard(), set_submit_result() or  *)
(* confirm_commit(), however they interleave.                              *)
ClosedResolved ==
    \A t \in Tx : IsClosed(t) /\ ~Inside(t) => future[t] # "pending"

(* uv_async_send() is called only when the queue was empty; no command is  *)
(* left behind by that: the loop takes each one, unless the client closes. *)
CommandsDrain == m_commands # <<>> ~> (m_commands = <<>> \/ c_state = "CLOSED")

(* client.hpp:291: using the client from several threads does not break    *)
(* it; no exception of a transaction leaves the event loop.                *)
LoopSurvives == ~died
=============================================================================
