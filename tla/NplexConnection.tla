--------------------------- MODULE NplexConnection ---------------------------
(***************************************************************************)
(* One connection to a server: connection_impl (src/src/connection.cpp)    *)
(* and the framing of messages (src/src/messaging.cpp).                    *)
(*                                                                         *)
(* The bytes of the peer arrive in pieces of any size.  A byte is named    *)
(* after the frame it comes from and its place in it, and the length field *)
(* takes several bytes, so that pieces may end inside it.  The callbacks   *)
(* of libuv are steps of the event loop; while on_msg_received() runs, and *)
(* between callbacks, the client calls send() and disconnect().            *)
(***************************************************************************)
EXTENDS Integers, Sequences

CONSTANTS
    Field,          \* bytes of the length, metadata and checksum fields
    Frame,          \* frames of the peer: [len, size, crc, verified]
    OutLen,         \* lengths of the messages the client sends
    InputBuffer,    \* size of m_input_buffer
    MaxUnackMsgs, MaxUnackBytes,    \* connection_params_t, 0 is unlimited
    Unlimited,      \* UINT32_MAX
    MaxServed,      \* bound: frames of the peer in one session
    MaxSent,        \* bound: calls of send() in one session
    MaxConnects     \* bound: calls of connect()

ASSUME ConnectionAssumption ==
    /\ Field \in Nat \ {0} /\ InputBuffer \in Nat \ {0}
    /\ \A f \in Frame : /\ f.len \in Nat /\ f.size \in Nat /\ f.size >= Field
                        /\ f.crc \in BOOLEAN /\ f.verified \in BOOLEAN
    /\ OutLen \subseteq Nat \ 0 .. 3 * Field
    /\ MaxUnackMsgs \in Nat /\ MaxUnackBytes \in Nat /\ Unlimited \in Nat
    /\ MaxServed \in Nat /\ MaxSent \in Nat /\ MaxConnects \in Nat

VARIABLES
    m_state,        \* connection_impl::m_state
    m_input_msg,    \* the bytes received and not yet consumed
    m_error,        \* the disconnection cause
    unack_msgs, unack_bytes,    \* m_stats
    pc,             \* "idle", "reading" (the loop of cb_tcp_read), "handling"
    closing,        \* uv_close() called, cb_tcp_close() still to come
    connect_req,    \* a uv_connect_t waits for its callback
    writes,         \* uv_write_t requests: [len, status]
    \* --- the peer
    served,         \* the frames it sent in this session
    wire,           \* the bytes on their way
    eof,            \* it closed its end
    \* --- history, read by the properties and the bounds
    received,       \* frames handed to on_msg_received() in this session
    nsent, nconnects

self == <<m_state, m_input_msg, m_error, unack_msgs, unack_bytes>>
uv == <<pc, closing, connect_req, writes>>
peer == <<served, wire, eof>>
history == <<received, nsent, nconnects>>
vars == <<self, uv, peer, history>>

-----------------------------------------------------------------------------
(* The constructor's reading of the parameters.                            *)
Limit(n) == IF n = 0 THEN Unlimited ELSE n

Init ==
    /\ m_state = "CLOSED" /\ m_input_msg = <<>> /\ m_error = "none"
    /\ unack_msgs = 0 /\ unack_bytes = 0
    /\ pc = "idle" /\ closing = FALSE /\ connect_req = FALSE /\ writes = <<>>
    /\ served = <<>> /\ wire = <<>> /\ eof = FALSE
    /\ received = <<>> /\ nsent = 0 /\ nconnects = 0

(* output_msg_t: the bytes of the i-th frame.  A frame whose length field  *)
(* does not tell its size is the peer's mistake.                           *)
Bytes(i, f) == [j \in 1 .. f.size |-> [frame |-> i, at |-> j]]

(* ntohl_ptr(): the length field at the head of the buffer; anything may   *)
(* be read there if the buffer does not begin with a frame.                *)
LengthField(buf) ==
    LET i == buf[1].frame IN
    IF \A j \in 1 .. Field : buf[j] = [frame |-> i, at |-> j]
    THEN served[i].len ELSE 0

(* Mutant: the checksum is not compared.                                   *)
parse_network_msg_noCrc(buf, len) ==
    /\ len > 3 * Field
    /\ LET i == buf[1].frame IN
        SubSeq(buf, 1, len) = Bytes(i, served[i]) /\ served[i].verified

(* parse_network_msg(): long enough, and the checksum and the flatbuffers  *)
(* verifier agree with the bytes.                                          *)
parse_network_msg(buf, len) ==
    /\ len > 3 * Field
    /\ LET i == buf[1].frame IN
        /\ SubSeq(buf, 1, len) = Bytes(i, served[i])
        /\ served[i].crc /\ served[i].verified

(* Mutant: only an established connection is closed.                       *)
disconnect_connected(rc) ==
    /\ m_error' = IF m_error = "none" THEN rc ELSE m_error
    /\ closing' = (closing \/ m_state = "CONNECTED")

(* disconnect(rc): the first cause is kept, the handle is closed once.     *)
disconnect(rc) ==
    IF m_state = "CLOSED" THEN UNCHANGED <<m_error, closing>>
    ELSE /\ m_error' = IF m_error = "none" THEN rc ELSE m_error
         /\ closing' = TRUE

-----------------------------------------------------------------------------
(* connect(), and its failure after the state has been set: an address     *)
(* that does not resolve leaves a handle that only disconnect() ends.      *)
Connect ==
    /\ pc = "idle" /\ m_state = "CLOSED" /\ nconnects < MaxConnects
    /\ m_state' = "CONNECTING"
    /\ m_input_msg' = <<>> /\ m_error' = "none"
    /\ unack_msgs' = 0 /\ unack_bytes' = 0
    /\ connect_req' \in BOOLEAN
    /\ served' = <<>> /\ wire' = <<>> /\ eof' = FALSE
    /\ received' = <<>> /\ nsent' = 0 /\ nconnects' = nconnects + 1
    /\ UNCHANGED <<pc, closing, writes>>

(* disconnect(), by the client.                                            *)
Disconnect ==
    /\ pc # "reading" /\ m_state # "CLOSED"
    /\ disconnect("local")
    /\ UNCHANGED <<m_state, m_input_msg, unack_msgs, unack_bytes, pc, connect_req, writes,
                   peer, history>>

(* send(): the limits, then uv_write(), which may fail and does fail on a  *)
(* handle that is being closed.                                            *)
Exceeded_late(len) ==                   \* mutant: > for >=
    unack_msgs > Limit(MaxUnackMsgs) \/ unack_bytes + len > Limit(MaxUnackBytes)
Exceeded(len) ==
    unack_msgs >= Limit(MaxUnackMsgs) \/ unack_bytes + len >= Limit(MaxUnackBytes)

SendCounted_early(len) ==               \* mutant: counted before uv_write() failed
    /\ unack_msgs' = unack_msgs + 1 /\ unack_bytes' = unack_bytes + len
    /\ \/ /\ ~closing
          /\ writes' = Append(writes, [len |-> len, status |-> "queued"])
          /\ UNCHANGED <<m_error, closing>>
       \/ disconnect("write") /\ UNCHANGED writes
SendCounted(len) ==
    \/ /\ ~closing
       /\ writes' = Append(writes, [len |-> len, status |-> "queued"])
       /\ unack_msgs' = unack_msgs + 1 /\ unack_bytes' = unack_bytes + len
       /\ UNCHANGED <<m_error, closing>>
    \/ disconnect("write") /\ UNCHANGED <<writes, unack_msgs, unack_bytes>>

Send(len) ==
    /\ pc # "reading" /\ m_state = "CONNECTED" /\ nsent < MaxSent
    /\ nsent' = nsent + 1
    /\ IF Exceeded(len)
       THEN disconnect("queue") /\ UNCHANGED <<writes, unack_msgs, unack_bytes>>
       ELSE SendCounted(len)
    /\ UNCHANGED <<m_state, m_input_msg, pc, connect_req, peer, received, nconnects>>

-----------------------------------------------------------------------------
(* cb_tcp_connect()                                                        *)
ConnectCallback ==
    /\ pc = "idle" /\ connect_req
    /\ connect_req' = FALSE
    /\ \/ /\ ~closing
          /\ m_state' = "CONNECTED"
          /\ UNCHANGED <<m_error, closing>>
       \/ disconnect("connect") /\ UNCHANGED m_state
    /\ UNCHANGED <<m_input_msg, unack_msgs, unack_bytes, pc, writes, peer, history>>

(* cb_tcp_read(), up to its loop: bytes, the end of the stream or an error *)
CanRead == pc = "idle" /\ m_state = "CONNECTED" /\ ~closing

ReadBytes(n) ==
    /\ CanRead /\ n <= Len(wire)
    /\ m_input_msg' = m_input_msg \o SubSeq(wire, 1, n)
    /\ wire' = SubSeq(wire, n + 1, Len(wire))
    /\ pc' = "reading"
    /\ UNCHANGED <<m_state, m_error, unack_msgs, unack_bytes, closing, connect_req, writes,
                   served, eof, history>>

ReadEnd ==
    /\ CanRead
    /\ \/ eof /\ wire = <<>> /\ disconnect("peer")
       \/ disconnect("read")
    /\ UNCHANGED <<m_state, m_input_msg, unack_msgs, unack_bytes, pc, connect_req, writes,
                   peer, history>>

(* The buffer holds a whole message, going by its length field.           *)
Complete ==
    Len(m_input_msg) >= Field /\ Len(m_input_msg) >= LengthField(m_input_msg)

(* One turn of the loop: wait for more, give up, or hand a message over.   *)
ReadMore ==
    /\ pc = "reading" /\ ~Complete
    /\ pc' = "idle"
    /\ UNCHANGED <<self, closing, connect_req, writes, peer, history>>

ReadError ==
    /\ pc = "reading" /\ Complete
    /\ ~parse_network_msg(m_input_msg, LengthField(m_input_msg))
    /\ disconnect("message")
    /\ pc' = "idle"
    /\ UNCHANGED <<m_state, m_input_msg, unack_msgs, unack_bytes, connect_req, writes, peer,
                   history>>

ReadMsg ==
    /\ pc = "reading" /\ Complete
    /\ parse_network_msg(m_input_msg, LengthField(m_input_msg))
    /\ received' = Append(received, m_input_msg[1].frame)
    /\ pc' = "handling"
    /\ UNCHANGED <<self, closing, connect_req, writes, peer, nsent, nconnects>>

(* on_msg_received() returns; the message is erased from the buffer.       *)
HandlerReturns_keepsChecksum ==         \* mutant: only the content is erased
    /\ pc = "handling"
    /\ m_input_msg' = SubSeq(m_input_msg, LengthField(m_input_msg) - Field + 1, Len(m_input_msg))
    /\ pc' = "reading"
    /\ UNCHANGED <<m_state, m_error, unack_msgs, unack_bytes, closing, connect_req, writes,
                   peer, history>>
HandlerReturns_once ==                  \* mutant: the loop ends after one message
    /\ pc = "handling"
    /\ m_input_msg' = SubSeq(m_input_msg, LengthField(m_input_msg) + 1, Len(m_input_msg))
    /\ pc' = "idle"
    /\ UNCHANGED <<m_state, m_error, unack_msgs, unack_bytes, closing, connect_req, writes,
                   peer, history>>
HandlerReturns ==
    /\ pc = "handling"
    /\ m_input_msg' = SubSeq(m_input_msg, LengthField(m_input_msg) + 1, Len(m_input_msg))
    /\ pc' = "reading"
    /\ UNCHANGED <<m_state, m_error, unack_msgs, unack_bytes, closing, connect_req, writes,
                   peer, history>>

-----------------------------------------------------------------------------
(* libuv (external): a write request succeeds or fails, in their order.    *)
KernelWrite ==
    /\ ~closing
    /\ \E i \in DOMAIN writes :
        /\ writes[i].status = "queued"
        /\ \A j \in 1 .. i - 1 : writes[j].status # "queued"
        /\ \E s \in {"done", "failed"} : writes' = [writes EXCEPT ![i].status = s]
    /\ UNCHANGED <<self, pc, closing, connect_req, peer, history>>

(* cb_tcp_write(): requests still queued when the handle is closed are     *)
(* called back with UV_ECANCELED before cb_tcp_close().                    *)
WriteCallback ==
    /\ pc = "idle" /\ writes # <<>> /\ ~connect_req
    /\ closing \/ Head(writes).status # "queued"
    /\ unack_msgs' = unack_msgs - 1
    /\ unack_bytes' = unack_bytes - Head(writes).len
    /\ IF Head(writes).status = "done" THEN UNCHANGED <<m_error, closing>>
       ELSE disconnect("write")
    /\ writes' = Tail(writes)
    /\ UNCHANGED <<m_state, m_input_msg, pc, connect_req, peer, history>>

(* cb_tcp_close()                                                          *)
CloseCallback ==
    /\ pc = "idle" /\ closing /\ ~connect_req /\ writes = <<>>
    /\ m_state' = "CLOSED"
    /\ closing' = FALSE
    /\ UNCHANGED <<m_input_msg, m_error, unack_msgs, unack_bytes, pc, connect_req, writes,
                   peer, history>>

(* The peer (external).                                                    *)
PeerSend ==
    /\ m_state = "CONNECTED" /\ ~eof /\ Len(served) < MaxServed
    /\ \E f \in Frame :
        /\ served' = Append(served, f)
        /\ wire' = wire \o Bytes(Len(served) + 1, f)
    /\ UNCHANGED <<self, uv, eof, history>>

PeerCloses ==
    /\ m_state = "CONNECTED" /\ ~eof
    /\ eof' = TRUE
    /\ UNCHANGED <<self, uv, served, wire, history>>

-----------------------------------------------------------------------------
ClientCall == Connect \/ Disconnect \/ \E len \in OutLen : Send(len)
ReadStep == ReadMore \/ ReadError \/ ReadMsg
Callback ==
    \/ ConnectCallback \/ ReadStep \/ HandlerReturns
    \/ WriteCallback \/ CloseCallback
    \/ \E n \in 1 .. InputBuffer : ReadBytes(n)

Next == ClientCall \/ Callback \/ ReadEnd \/ KernelWrite \/ PeerSend \/ PeerCloses

Spec == Init /\ [][Next]_vars

(* The event loop runs the callbacks that are due; the kernel writes.      *)
FairSpec == Spec /\ WF_vars(Callback) /\ WF_vars(KernelWrite)

-----------------------------------------------------------------------------
WellFormed(f) == f.len = f.size /\ f.len > 3 * Field /\ f.crc /\ f.verified

(* What the client sees of the connection and of the messages received.    *)
Link == CASE m_state = "CLOSED" -> "closed"
          [] m_state = "CONNECTING" -> "connecting"
          [] OTHER -> "connected"
Got == IF received = [i \in 1 .. Len(received) |-> i] THEN Len(received) ELSE -1

Fifo == INSTANCE MsgFifo WITH link <- Link, sent <- served, got <- Got

(* Whatever the pieces in which the bytes arrive, and whatever an earlier  *)
(* session left in the buffer, cb_tcp_read() hands over the peer's         *)
(* messages whole and in order, none twice, none after a malformed one;    *)
(* every connect() ends in one on_connection_closed().                     *)
ImplementsFifo == Fifo!FifoSpec

(* m_stats: what cb_tcp_write() asserts.  The counters are those of the    *)
(* write requests that wait for their callback, over failed writes, lost   *)
(* connections and the reset in connect(), and stay within the limits.     *)
SumLen(q) ==
    LET sum[i \in 0 .. Len(q)] == IF i = 0 THEN 0 ELSE sum[i - 1] + q[i].len
    IN sum[Len(q)]
UnackExact ==
    /\ unack_msgs = Len(writes)
    /\ unack_bytes = SumLen(writes)
    /\ m_state = "CLOSED" => writes = <<>>

UnackBounded ==
    /\ MaxUnackMsgs > 0 => unack_msgs <= MaxUnackMsgs
    /\ MaxUnackBytes > 0 => unack_bytes < MaxUnackBytes

(* When cb_tcp_read() returns, no whole message waits in the buffer of a   *)
(* connection that is still read: nobody would look at it until more       *)
(* bytes come.                                                             *)
NothingWaits ==
    CanRead /\ m_input_msg # <<>> =>
        LET f == served[m_input_msg[1].frame]
        IN /\ m_input_msg[1].at = 1
           /\ Len(m_input_msg) < Field \/ Len(m_input_msg) < f.len

(* Every message of the peer is handed over, unless a malformed one comes  *)
(* before it or the connection ends for another reason: a good message is  *)
(* never refused, lost or left behind.                                     *)
AllArrive ==
    \A n \in 1 .. MaxServed :
        Len(served) >= n /\ (\A i \in 1 .. n : WellFormed(served[i]))
            ~> Len(received) >= n \/ m_error \notin {"none", "message"}

(* Whatever the cause of a disconnection and whatever requests are         *)
(* pending, on_connection_closed() comes.                                  *)
DisconnectEnds == m_error # "none" ~> m_state = "CLOSED"
=============================================================================
