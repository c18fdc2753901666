------------------------ MODULE NplexConnectionProofs ------------------------
(***************************************************************************)
(* Proofs about NplexConnection, for frames of any size, pieces of any     *)
(* size and any limits: the counters of the messages that wait to be       *)
(* written, the input buffer, and the refinement of MsgFifo.               *)
(***************************************************************************)
EXTENDS NplexConnection, SequenceTheorems, LoopTheorems

-----------------------------------------------------------------------------
Write == [len : OutLen, status : {"queued", "done", "failed"}]

LEMMA WriteLen ==
    ASSUME NEW q \in Seq(Write)
    PROVE  Len(q) \in Nat /\ \A i \in 1 .. Len(q) : q[i] \in Write /\ q[i].len \in Nat
<1>1. OutLen \subseteq Nat
  BY ConnectionAssumption, Zenon
<1>2. \A i \in 1 .. Len(q) : q[i] \in Write
  BY ElementOfSeq
<1>3. \A w \in Write : w.len \in OutLen
  BY DEF Write
<1> QED BY <1>1, <1>2, <1>3, LenProperties

(* The partial sums of the lengths of q.                                   *)
PartialSums(q, n, s) ==
    /\ s \in [0 .. n -> Nat] /\ s[0] = 0
    /\ \A i \in 1 .. n : s[i] = s[i - 1] + q[i].len

(* Every sequence of writes has partial sums.                              *)
LEMMA SumsExist ==
    ASSUME NEW q \in Seq(Write), NEW n \in 0 .. Len(q)
    PROVE  \E s : PartialSums(q, n, s)
<1> DEFINE T == {m \in 0 .. Len(q) : ~\E s : PartialSums(q, m, s)}
<1> SUFFICES ASSUME T # {} PROVE FALSE
  OBVIOUS
<1>a. T \in SUBSET Nat
  BY WriteLen
<1>1. PICK m \in T : \A k \in T : m <= k
  BY <1>a, Least, Zenon
<1>2. m # 0
  <2>1. PartialSums(q, 0, [i \in 0 .. 0 |-> 0])
    BY DEF PartialSums
  <2> QED BY <2>1
<1>3. m - 1 \in 0 .. Len(q) /\ m - 1 \notin T
  BY <1>1, <1>2
<1>4. PICK s : PartialSums(q, m - 1, s)
  BY <1>3
<1>5. m \in 1 .. Len(q) /\ q[m].len \in Nat
  BY <1>2, WriteLen
<1> DEFINE r == [i \in 0 .. m |-> IF i = m THEN s[m - 1] + q[m].len ELSE s[i]]
<1>6. r \in [0 .. m -> Nat] /\ r[0] = 0
  BY <1>4, <1>5 DEF PartialSums
<1>7. \A i \in 1 .. m : r[i] = r[i - 1] + q[i].len
  BY <1>4, <1>5 DEF PartialSums
<1> QED BY <1>6, <1>7 DEF PartialSums

(* SumLen() is the last partial sum.                                       *)
LEMMA SumLenIs ==
    ASSUME NEW q \in Seq(Write), NEW s, PartialSums(q, Len(q), s)
    PROVE  SumLen(q) = s[Len(q)]
<1> DEFINE F(f) == [i \in 0 .. Len(q) |-> IF i = 0 THEN 0 ELSE f[i - 1] + q[i].len]
           sum == CHOOSE f : f = F(f)
<1>0. Len(q) \in Nat /\ \A i \in 1 .. Len(q) : q[i].len \in Nat
  BY WriteLen
<1>1. s = F(s)
  BY <1>0 DEF PartialSums
<1>2. sum = F(sum)
  BY <1>1
<1>3. SumLen(q) = sum[Len(q)]
  BY DEF SumLen
<1> HIDE DEF sum
<1>4. \A i \in 0 .. Len(q) : sum[i] = s[i]
  <2> DEFINE T == {i \in 0 .. Len(q) : sum[i] # s[i]}
  <2> SUFFICES ASSUME T # {} PROVE FALSE
    OBVIOUS
  <2>a. T \in SUBSET Nat
    BY WriteLen
  <2>1. PICK m \in T : \A k \in T : m <= k
    BY <2>a, Least, Zenon
  <2>2. m # 0
    BY <1>2, <1>1
  <2>3. m - 1 \in 0 .. Len(q) /\ sum[m - 1] = s[m - 1]
    BY <2>1, <2>2
  <2> QED BY <2>2, <2>3, <1>1, <1>2, ZenonT(30)
<1> QED BY <1>0, <1>3, <1>4

LEMMA SumLenEmpty == SumLen(<<>>) = 0
<1>1. <<>> \in Seq(Write) /\ Len(<<>>) = 0
  OBVIOUS
<1>2. PartialSums(<<>>, 0, [i \in 0 .. 0 |-> 0])
  BY DEF PartialSums
<1> QED BY <1>1, <1>2, SumLenIs

LEMMA SumLenAppend ==
    ASSUME NEW q \in Seq(Write), NEW w \in Write
    PROVE  SumLen(Append(q, w)) = SumLen(q) + w.len /\ SumLen(q) \in Nat
<1> DEFINE n == Len(q)
<1>0. n \in Nat /\ w.len \in Nat
  BY ConnectionAssumption, WriteLen DEF Write
<1>1. PICK s : PartialSums(q, n, s)
  BY <1>0, SumsExist
<1>2. SumLen(q) = s[n] /\ s[n] \in Nat
  BY <1>0, <1>1, SumLenIs DEF PartialSums
<1>3. Append(q, w) \in Seq(Write) /\ Len(Append(q, w)) = n + 1
  OBVIOUS
<1> DEFINE r == [i \in 0 .. n + 1 |-> IF i = n + 1 THEN s[n] + w.len ELSE s[i]]
<1>4. PartialSums(Append(q, w), n + 1, r)
  <2>1. r \in [0 .. n + 1 -> Nat] /\ r[0] = 0
    BY <1>0, <1>1, <1>2 DEF PartialSums
  <2>2. ASSUME NEW i \in 1 .. n + 1 PROVE r[i] = r[i - 1] + Append(q, w)[i].len
    BY <1>0, <1>1 DEF PartialSums
  <2> QED BY <2>1, <2>2 DEF PartialSums
<1>5. SumLen(Append(q, w)) = r[n + 1]
  BY <1>3, <1>4, SumLenIs
<1> QED BY <1>0, <1>2, <1>5

LEMMA SumLenTail ==
    ASSUME NEW q \in Seq(Write), q # <<>>
    PROVE  SumLen(Tail(q)) = SumLen(q) - Head(q).len
<1> DEFINE n == Len(q)
<1>0. n \in Nat \ {0} /\ Head(q) = q[1] /\ \A i \in 1 .. n : q[i].len \in Nat
  BY WriteLen
<1>1. Tail(q) \in Seq(Write) /\ Len(Tail(q)) = n - 1 /\ n - 1 \in 0 .. n - 1
  BY <1>0
<1>2. PICK s : PartialSums(Tail(q), n - 1, s)
  BY <1>1, SumsExist
<1> DEFINE r == [i \in 0 .. n |-> IF i = 0 THEN 0 ELSE s[i - 1] + q[1].len]
<1>3. PartialSums(q, n, r)
  <2>1. r \in [0 .. n -> Nat] /\ r[0] = 0
    BY <1>0, <1>2 DEF PartialSums
  <2>2. ASSUME NEW i \in 1 .. n PROVE r[i] = r[i - 1] + q[i].len
    <3>1. CASE i = 1
      BY <1>0, <1>2, <3>1 DEF PartialSums
    <3>2. CASE i # 1
      <4>1. i - 1 \in 1 .. n - 1 /\ Tail(q)[i - 1] = q[i] /\ q[i].len \in Nat
        BY <1>0, <3>2
      <4>2. s[i - 1] = s[i - 1 - 1] + q[i].len /\ s[i - 1 - 1] \in Nat
        <5>1. \A j \in 1 .. n - 1 : s[j] = s[j - 1] + Tail(q)[j].len
          BY <1>2 DEF PartialSums
        <5>2. \A j \in 0 .. n - 1 : s[j] \in Nat
          BY <1>2 DEF PartialSums
        <5>3. i - 1 - 1 \in 0 .. n - 1
          BY <1>0, <4>1
        <5> HIDE <1>2
        <5>4. s[i - 1] = s[i - 1 - 1] + Tail(q)[i - 1].len
          BY <4>1, <5>1, Zenon
        <5> QED BY <4>1, <5>2, <5>3, <5>4, Zenon
      <4>3. r[i] = s[i - 1] + q[1].len /\ r[i - 1] = s[i - 1 - 1] + q[1].len
        BY <4>1, <1>0
      <4> QED BY <1>0, <4>1, <4>2, <4>3, SMTT(30)
    <3> QED BY <3>1, <3>2
  <2> QED BY <2>1, <2>2 DEF PartialSums
<1>4. SumLen(q) = r[n] /\ r[n] = s[n - 1] + q[1].len
  BY <1>0, <1>3, SumLenIs
<1>5. SumLen(Tail(q)) = s[n - 1] /\ s[n - 1] \in Nat
  BY <1>0, <1>1, <1>2, SumLenIs DEF PartialSums
<1> QED BY <1>0, <1>4, <1>5

(* A write request that changes its status keeps its length.               *)
LEMMA SumLenStatus ==
    ASSUME NEW q \in Seq(Write), NEW r \in Seq(Write), Len(r) = Len(q),
           \A i \in 1 .. Len(q) : r[i].len = q[i].len
    PROVE  SumLen(r) = SumLen(q)
<1>1. PICK s : PartialSums(q, Len(q), s)
  BY SumsExist
<1>2. PartialSums(r, Len(r), s)
  BY <1>1 DEF PartialSums
<1> QED BY <1>1, <1>2, SumLenIs

-----------------------------------------------------------------------------
(* The inductive invariant.                                                *)
Byte == [frame : Nat, at : Nat]

TypeOK ==
    /\ m_state \in {"CLOSED", "CONNECTING", "CONNECTED"}
    /\ m_input_msg \in Seq(Byte) /\ wire \in Seq(Byte)
    /\ pc \in {"idle", "reading", "handling"}
    /\ closing \in BOOLEAN /\ connect_req \in BOOLEAN
    /\ writes \in Seq(Write)
    /\ served \in Seq(Frame) /\ received \in Seq(Nat)

(* Which callbacks can still come in which state.                          *)
Control ==
    /\ pc # "idle" => m_state = "CONNECTED"
    /\ connect_req => m_state = "CONNECTING"
    /\ closing => m_state # "CLOSED"
    /\ m_state = "CONNECTING" => m_input_msg = <<>>

(* The bytes of the peer that have not been consumed, in m_input_msg or on *)
(* their way, are those of its frames from the first one on that has not   *)
(* been consumed: each byte is followed by the next one of its frame or by *)
(* the first one of the next frame.                                        *)
First == IF pc = "handling" THEN Len(received) ELSE Len(received) + 1

Follows(frames, b, c) ==
    IF b.at = frames[b.frame].size THEN c = [frame |-> b.frame + 1, at |-> 1]
    ELSE c = [frame |-> b.frame, at |-> b.at + 1]

Stream(bytes, frames, first) ==
    /\ first \in 1 .. Len(frames) + 1
    /\ \A i \in 1 .. Len(bytes) : bytes[i].frame \in 1 .. Len(frames)
    /\ \A i \in 1 .. Len(bytes) - 1 : Follows(frames, bytes[i], bytes[i + 1])
    /\ IF bytes = <<>> THEN first = Len(frames) + 1
       ELSE /\ bytes[1] = [frame |-> first, at |-> 1]
            /\ bytes[Len(bytes)] = [frame |-> Len(frames), at |-> frames[Len(frames)].size]

(* The frames handed over are the first ones, each a message.              *)
Delivered ==
    /\ Len(received) <= Len(served)
    /\ \A i \in 1 .. Len(received) : received[i] = i /\ WellFormed(served[i])

(* While on_msg_received() runs, its message heads the buffer.             *)
Handling ==
    pc = "handling" =>
        /\ received # <<>>
        /\ served[Len(received)].len <= Len(m_input_msg)
        /\ SubSeq(m_input_msg, 1, served[Len(received)].len) =
            Bytes(Len(received), served[Len(received)])

(* Between two calls of cb_tcp_read() the buffer holds no whole message.   *)
Waiting ==
    CanRead /\ m_input_msg # <<>> =>
        Len(m_input_msg) < Field \/ Len(m_input_msg) < served[m_input_msg[1].frame].len

IInv ==
    /\ TypeOK /\ Control /\ UnackExact /\ UnackBounded
    /\ Stream(m_input_msg \o wire, served, First)
    /\ Delivered /\ Handling /\ Waiting

-----------------------------------------------------------------------------
(* The actions a step can be, in a form that the proofs below split on.    *)
LEMMA Steps ==
    ASSUME [Next]_vars
    PROVE  \/ Connect \/ Disconnect \/ (\E len \in OutLen : Send(len))
           \/ ConnectCallback \/ ReadMore \/ ReadError \/ ReadMsg \/ HandlerReturns
           \/ WriteCallback \/ CloseCallback \/ (\E n \in 1 .. InputBuffer : ReadBytes(n))
           \/ ReadEnd \/ KernelWrite \/ PeerSend \/ PeerCloses \/ UNCHANGED vars
  BY DEF Next, ClientCall, Callback, ReadStep

(* The steps that leave the write requests and their counters alone.       *)
LEMMA WritesKept ==
    ASSUME \/ Disconnect \/ ConnectCallback \/ ReadMore \/ ReadError \/ ReadMsg
           \/ HandlerReturns \/ (\E n \in 1 .. InputBuffer : ReadBytes(n)) \/ ReadEnd
           \/ PeerSend \/ PeerCloses \/ UNCHANGED vars
    PROVE  UNCHANGED <<writes, unack_msgs, unack_bytes>>
  BY DEF Disconnect, ConnectCallback, ReadMore, ReadError, ReadMsg, HandlerReturns, ReadBytes,
         ReadEnd, PeerSend, PeerCloses, vars, self, uv, peer, history

LEMMA InitInv == Init => IInv
<1> SUFFICES ASSUME Init PROVE IInv
  OBVIOUS
<1>1. TypeOK /\ Control /\ Delivered /\ Handling /\ Waiting
  <2>1. TypeOK
    BY EmptySeq DEF Init, TypeOK
  <2> QED BY <2>1 DEF Init, Control, Delivered, Handling, Waiting, CanRead
<1>2. UnackExact /\ UnackBounded
  BY SumLenEmpty, ConnectionAssumption DEF Init, UnackExact, UnackBounded
<1>3. m_input_msg \o wire = <<>> /\ First = 1
  BY DEF Init, First
<1>4. Stream(m_input_msg \o wire, served, First)
  BY <1>3 DEF Init, Stream
<1> QED BY <1>1, <1>2, <1>4 DEF IInv

LEMMA ControlStep ==
    ASSUME IInv, [Next]_vars
    PROVE  Control'
<1> USE DEF IInv, TypeOK, Control
<1>1. CASE Connect
  BY <1>1 DEF Connect
<1>2. CASE Disconnect
  BY <1>2 DEF Disconnect, disconnect, peer, history
<1>3. ASSUME NEW len \in OutLen, Send(len) PROVE Control'
  BY <1>3 DEF Send, SendCounted, disconnect, peer
<1>4. CASE ConnectCallback
  BY <1>4 DEF ConnectCallback, disconnect, peer, history
<1>5. CASE ReadMore \/ ReadError \/ ReadMsg \/ HandlerReturns
  BY <1>5 DEF ReadMore, ReadError, ReadMsg, HandlerReturns, disconnect, self, peer, history
<1>6. CASE WriteCallback \/ CloseCallback
  BY <1>6 DEF WriteCallback, CloseCallback, disconnect, peer, history
<1>7. ASSUME NEW n \in 1 .. InputBuffer, ReadBytes(n) PROVE Control'
  BY <1>7 DEF ReadBytes, CanRead, history
<1>8. CASE ReadEnd
  BY <1>8 DEF ReadEnd, CanRead, disconnect, peer, history
<1>9. CASE KernelWrite \/ PeerSend \/ PeerCloses \/ UNCHANGED vars
  BY <1>9 DEF KernelWrite, PeerSend, PeerCloses, vars, self, uv, peer, history
<1> QED BY Steps, <1>1, <1>2, <1>3, <1>4, <1>5, <1>6, <1>7, <1>8, <1>9

LEMMA WritesStep ==
    ASSUME IInv, [Next]_vars
    PROVE  writes' \in Seq(Write) /\ UnackExact' /\ UnackBounded'
<1> DEFINE Goal == writes' \in Seq(Write) /\ UnackExact' /\ UnackBounded'
<1>0. writes \in Seq(Write) /\ UnackExact /\ UnackBounded
  BY DEF IInv, TypeOK
<1>a. Len(writes) \in Nat /\ SumLen(writes) \in Nat
  <2>1. PICK s : PartialSums(writes, Len(writes), s)
    BY <1>0, SumsExist, WriteLen
  <2> QED BY <1>0, <2>1, SumLenIs, WriteLen DEF PartialSums
<1>b. UNCHANGED <<writes, unack_msgs, unack_bytes>> /\ (m_state' = "CLOSED" => writes = <<>>)
        => Goal
  BY <1>0 DEF UnackExact, UnackBounded
<1>1. CASE Connect
  <2>1. writes' = <<>> /\ unack_msgs' = 0 /\ unack_bytes' = 0
    BY <1>0, <1>1 DEF Connect, UnackExact
  <2>2. writes' \in Seq(Write) /\ Len(writes') = 0
    BY <2>1
  <2> QED BY <2>1, <2>2, SumLenEmpty, ConnectionAssumption DEF UnackExact, UnackBounded
<1>2. ASSUME NEW len \in OutLen, Send(len) PROVE Goal
  <2>0. m_state' = m_state /\ m_state = "CONNECTED"
    BY <1>2 DEF Send
  <2>1. CASE UNCHANGED <<writes, unack_msgs, unack_bytes>>
    BY <1>b, <2>0, <2>1
  <2>2. CASE /\ ~Exceeded(len) /\ writes' = Append(writes, [len |-> len, status |-> "queued"])
             /\ unack_msgs' = unack_msgs + 1 /\ unack_bytes' = unack_bytes + len
    <3> DEFINE w == [len |-> len, status |-> "queued"]
    <3>1. w \in Write /\ w.len = len /\ len \in Nat
      BY ConnectionAssumption DEF Write
    <3> HIDE DEF w
    <3>2. writes' = Append(writes, w)
      BY <2>2 DEF w
    <3>3. SumLen(writes') = SumLen(writes) + len
      BY <1>0, <3>1, <3>2, SumLenAppend
    <3>4. writes' \in Seq(Write) /\ Len(writes') = Len(writes) + 1
      BY <1>0, <3>1, <3>2
    <3>5. UnackExact'
      BY <1>0, <2>0, <2>2, <3>3, <3>4 DEF UnackExact
    <3>6. UnackBounded'
      BY <1>0, <1>a, <2>2, <3>1, ConnectionAssumption
      DEF UnackExact, UnackBounded, Exceeded, Limit
    <3> QED BY <3>4, <3>5, <3>6
  <2> QED BY <1>2, <2>1, <2>2 DEF Send, SendCounted
<1>3. CASE WriteCallback
  <2>1. /\ writes # <<>> /\ writes' = Tail(writes) /\ m_state' = m_state
        /\ unack_msgs' = unack_msgs - 1 /\ unack_bytes' = unack_bytes - Head(writes).len
    BY <1>3 DEF WriteCallback
  <2>2. writes' \in Seq(Write) /\ Len(writes') = Len(writes) - 1
    BY <1>0, <2>1
  <2>3. SumLen(writes') = SumLen(writes) - Head(writes).len
    BY <1>0, <2>1, SumLenTail
  <2>4. Head(writes).len \in Nat
    <3>1. Head(writes) = writes[1] /\ 1 \in 1 .. Len(writes)
      BY <1>0, <2>1
    <3> QED BY <1>0, <3>1, WriteLen
  <2>5. UnackExact'
    BY <1>0, <2>1, <2>2, <2>3 DEF UnackExact
  <2>6. UnackBounded'
    BY <1>0, <1>a, <2>1, <2>4, ConnectionAssumption DEF UnackExact, UnackBounded
  <2> QED BY <2>2, <2>5, <2>6
<1>4. CASE CloseCallback
  BY <1>b, <1>4 DEF CloseCallback
<1>5. CASE KernelWrite
  <2>1. PICK i \in DOMAIN writes, t \in {"done", "failed"} :
            writes' = [writes EXCEPT ![i].status = t]
    BY <1>5 DEF KernelWrite
  <2>2. UNCHANGED <<m_state, unack_msgs, unack_bytes>>
    BY <1>5 DEF KernelWrite, self
  <2>3. i \in 1 .. Len(writes) /\ writes[i] \in Write
    BY <1>0
  <2> DEFINE w == [writes[i] EXCEPT !.status = t]
  <2>4. w \in Write /\ w.len = writes[i].len
    BY <2>3 DEF Write
  <2> HIDE DEF w
  <2>5. writes' = [writes EXCEPT ![i] = w]
    BY <2>1 DEF w
  <2>6. writes' \in Seq(Write) /\ Len(writes') = Len(writes) /\ writes # <<>> /\ writes' # <<>>
    BY <1>0, <2>3, <2>4, <2>5
  <2>7. \A j \in 1 .. Len(writes) : writes'[j].len = writes[j].len
    BY <1>0, <2>3, <2>4, <2>5
  <2>8. SumLen(writes') = SumLen(writes)
    BY <1>0, <2>6, <2>7, SumLenStatus
  <2> QED BY <1>0, <2>2, <2>6, <2>8 DEF UnackExact, UnackBounded
<1>6. CASE \/ Disconnect \/ ConnectCallback \/ ReadMore \/ ReadError \/ ReadMsg
           \/ HandlerReturns \/ (\E n \in 1 .. InputBuffer : ReadBytes(n)) \/ ReadEnd
           \/ PeerSend \/ PeerCloses \/ UNCHANGED vars
  <2>1. UNCHANGED <<writes, unack_msgs, unack_bytes>>
    BY <1>6, WritesKept
  <2>2. m_state' = m_state \/ m_state' = "CONNECTED"
    BY <1>6 DEF Disconnect, ConnectCallback, ReadMore, ReadError, ReadMsg, HandlerReturns,
                ReadBytes, ReadEnd, PeerSend, PeerCloses, vars, self
  <2> QED BY <1>0, <1>b, <2>1, <2>2 DEF UnackExact
<1> QED BY Steps, <1>1, <1>2, <1>3, <1>4, <1>5, <1>6

-----------------------------------------------------------------------------
(* What happens to the stream of bytes.                                    *)

LEMMA FrameSize ==
    ASSUME NEW frames \in Seq(Frame), NEW i \in 1 .. Len(frames)
    PROVE  frames[i].len \in Nat /\ frames[i].size \in Nat /\ frames[i].size >= Field
           /\ frames[i].size > 0
<1>1. frames[i] \in Frame
  BY ElementOfSeq
<1> QED BY <1>1, ConnectionAssumption

LEMMA BytesConcat ==
    ASSUME NEW q \in Seq(Byte), NEW a \in Seq(Byte), NEW b \in Seq(Byte)
    PROVE  (q \o a) \o b = q \o (a \o b)
  BY ConcatAssociative

(* cb_tcp_read() moves bytes from the wire to the buffer.                  *)
LEMMA BytesMove ==
    ASSUME NEW q \in Seq(Byte), NEW w \in Seq(Byte), NEW n \in 1 .. Len(w)
    PROVE  /\ q \o SubSeq(w, 1, n) \in Seq(Byte) /\ SubSeq(w, n + 1, Len(w)) \in Seq(Byte)
           /\ (q \o SubSeq(w, 1, n)) \o SubSeq(w, n + 1, Len(w)) = q \o w
<1> DEFINE a == SubSeq(w, 1, n)  b == SubSeq(w, n + 1, Len(w))
<1>1. \A i \in 1 .. Len(w) : w[i] \in Byte
  BY ElementOfSeq
<1>2. /\ a \in Seq(Byte) /\ Len(a) = n /\ \A i \in 1 .. n : a[i] = w[i]
  <2>1. \A i \in 1 .. n : w[i] \in Byte
    BY <1>1
  <2> QED BY <2>1, SubSeqProperties
<1>3. b \in Seq(Byte) /\ Len(b) = Len(w) - n /\ \A i \in 1 .. Len(w) - n : b[i] = w[n + i]
  <2>1. \A i \in n + 1 .. Len(w) : w[i] \in Byte
    BY <1>1
  <2>2. n + 1 \in Int /\ Len(w) \in Int
    OBVIOUS
  <2>3. /\ b \in Seq(Byte) /\ Len(b) = IF n + 1 <= Len(w) THEN Len(w) - (n + 1) + 1 ELSE 0
        /\ \A i \in 1 .. Len(w) - (n + 1) + 1 : b[i] = w[n + 1 + i - 1]
    BY <2>1, <2>2, SubSeqProperties
  <2> QED BY <2>3
<1> HIDE DEF a, b
<1>4. a \o b = w
  <2>1. a \o b \in Seq(Byte) /\ Len(a \o b) = Len(w)
    BY <1>2, <1>3
  <2>2. ASSUME NEW i \in 1 .. Len(w) PROVE (a \o b)[i] = w[i]
    <3>0. i \in Int /\ n \in Int
      BY LenProperties
    <3>1. (a \o b)[i] = IF i <= n THEN a[i] ELSE b[i - n]
      BY <1>2, <1>3, ConcatProperties
    <3>2. CASE i <= n
      BY <1>2, <3>1, <3>2
    <3>3. CASE i > n
      <4>1. i - n \in 1 .. Len(w) - n /\ n + (i - n) = i
        BY <3>3
      <4> QED BY <1>3, <3>1, <3>3, <4>1
    <3>4. i <= n \/ i > n
      BY <3>0
    <3> QED BY <3>2, <3>3, <3>4, Zenon
  <2> QED BY <2>1, <2>2, SeqEqual
<1>5. (q \o a) \o b = q \o w
  <2>1. (q \o a) \o b = q \o (a \o b)
    <3>1. a \in Seq(Byte) /\ b \in Seq(Byte)
      BY <1>2, <1>3
    <3> QED BY <3>1, BytesConcat
  <2> QED BY <1>4, <2>1, Zenon
<1>6. q \o a \in Seq(Byte)
  BY <1>2, ConcatProperties
<1> QED BY <1>3, <1>5, <1>6, Zenon DEF a, b

(* A frame is consumed: r is s without its first n bytes, the last of them *)
(* being the last byte of the frame.                                       *)
EndsAt(s, n, frames, i) == n = frames[i].size /\ s[n] = [frame |-> i, at |-> n]

Without(s, n, r) == Len(s) = n + Len(r) /\ \A i \in 1 .. Len(r) : r[i] = s[n + i]

(* The message is erased from the buffer: the bytes after it are left.     *)
LEMMA BytesErased ==
    ASSUME NEW q \in Seq(Byte), NEW w \in Seq(Byte), NEW n \in 1 .. Len(q)
    PROVE  LET r == SubSeq(q, n + 1, Len(q)) IN
           r \in Seq(Byte) /\ r \o w \in Seq(Byte) /\ Without(q \o w, n, r \o w)
<1> DEFINE r == SubSeq(q, n + 1, Len(q))
<1>1. \A i \in n + 1 .. Len(q) : q[i] \in Byte
  BY ElementOfSeq
<1>2. n + 1 \in Int /\ Len(q) \in Int
  OBVIOUS
<1>3. /\ r \in Seq(Byte) /\ Len(r) = IF n + 1 <= Len(q) THEN Len(q) - (n + 1) + 1 ELSE 0
      /\ \A i \in 1 .. Len(q) - (n + 1) + 1 : r[i] = q[n + 1 + i - 1]
  BY <1>1, <1>2, SubSeqProperties
<1>4. Len(r) = Len(q) - n /\ \A i \in 1 .. Len(q) - n : r[i] = q[n + i]
  BY <1>3
<1> HIDE DEF r
<1>5. r \o w \in Seq(Byte) /\ Len(q \o w) = n + Len(r \o w)
  <2>1. r \o w \in Seq(Byte) /\ Len(r \o w) = Len(r) + Len(w)
    BY <1>3, ConcatProperties
  <2>2. Len(q \o w) = Len(q) + Len(w)
    BY ConcatProperties
  <2> QED BY <1>4, <2>1, <2>2, LenProperties
<1>6. ASSUME NEW i \in 1 .. Len(r \o w) PROVE (r \o w)[i] = (q \o w)[n + i]
  <2>0. Len(r) \in Nat /\ Len(w) \in Nat /\ Len(q) \in Nat /\ i \in 1 .. Len(r) + Len(w)
    BY <1>3, LenProperties, ConcatProperties
  <2>1. (r \o w)[i] = IF i <= Len(r) THEN r[i] ELSE w[i - Len(r)]
    BY <1>3, <2>0, ConcatProperties
  <2>2. n + i \in 1 .. Len(q) + Len(w)
    BY <1>4, <2>0
  <2>3. (q \o w)[n + i] = IF n + i <= Len(q) THEN q[n + i] ELSE w[n + i - Len(q)]
    BY <2>2, ConcatProperties
  <2>4. CASE i <= Len(r)
    <3>1. n + i <= Len(q) /\ i \in 1 .. Len(q) - n
      BY <1>4, <2>0, <2>4
    <3> QED BY <1>4, <2>1, <2>3, <2>4, <3>1, Zenon
  <2>5. CASE ~(i <= Len(r))
    <3>1. ~(n + i <= Len(q)) /\ n + i - Len(q) = i - Len(r)
      BY <1>4, <2>0, <2>5
    <3> QED BY <2>1, <2>3, <2>5, <3>1, Zenon
  <2> QED BY <2>4, <2>5
<1>7. Without(q \o w, n, r \o w)
  BY <1>5, <1>6 DEF Without
<1> QED BY <1>3, <1>5, <1>7 DEF r

(* The peer sends a frame.                                                 *)
LEMMA StreamGrows ==
    ASSUME NEW s \in Seq(Byte), NEW frames \in Seq(Frame), NEW first, NEW f \in Frame,
           Stream(s, frames, first)
    PROVE  Stream(s \o Bytes(Len(frames) + 1, f), Append(frames, f), first)
<1> DEFINE k == Len(frames)  b == Bytes(k + 1, f)  t == s \o b  g == Append(frames, f)
<1>0. k \in Nat /\ Len(s) \in Nat /\ f.size \in Nat /\ f.size > 0
  BY ConnectionAssumption, LenProperties
<1>1. /\ b \in Seq(Byte) /\ Len(b) = f.size
      /\ \A i \in 1 .. f.size : b[i] = [frame |-> k + 1, at |-> i]
  <2>1. b \in [1 .. f.size -> Byte]
    BY <1>0 DEF Bytes, Byte
  <2>2. b \in Seq(Byte) /\ Len(b) = f.size
    BY <1>0, <2>1
  <2> QED BY <2>2 DEF Bytes
<1> HIDE DEF b
<1>2. /\ t \in Seq(Byte) /\ Len(t) = Len(s) + f.size
      /\ \A i \in 1 .. Len(s) : t[i] = s[i]
      /\ \A i \in 1 .. f.size : t[Len(s) + i] = [frame |-> k + 1, at |-> i]
  <2>1. /\ t \in Seq(Byte) /\ Len(t) = Len(s) + f.size
        /\ \A i \in 1 .. Len(s) + f.size : t[i] = IF i <= Len(s) THEN s[i] ELSE b[i - Len(s)]
    BY <1>1, ConcatProperties
  <2> HIDE DEF t
  <2>2. ASSUME NEW i \in 1 .. f.size PROVE t[Len(s) + i] = [frame |-> k + 1, at |-> i]
    <3>1. /\ Len(s) + i \in 1 .. Len(s) + f.size /\ ~(Len(s) + i <= Len(s))
          /\ Len(s) + i - Len(s) = i
      BY <1>0
    <3> DEFINE j == Len(s) + i
    <3>2. j \in 1 .. Len(s) + f.size /\ ~(j <= Len(s)) /\ j - Len(s) = i
      BY <3>1
    <3> HIDE DEF j
    <3>3. t[j] = b[j - Len(s)]
      BY <2>1, <3>2, Zenon
    <3> QED BY <1>1, <3>2, <3>3 DEF j
  <2>3. \A i \in 1 .. Len(s) : t[i] = s[i]
    BY <1>0, <2>1, SMTT(30)
  <2> QED BY <2>1, <2>2, <2>3
<1>3. Len(g) = k + 1 /\ g[k + 1] = f /\ \A i \in 1 .. k : g[i] = frames[i]
  BY <1>0
<1> HIDE DEF t, g
<1>4. first \in 1 .. Len(g) + 1
  BY <1>0, <1>3 DEF Stream
<1>5. \A i \in 1 .. Len(s) : s[i] \in Byte
  BY ElementOfSeq
<1>6. ASSUME NEW i \in 1 .. Len(t)
      PROVE  \/ i \in 1 .. Len(s) /\ t[i] = s[i]
             \/ \E j \in 1 .. f.size : i = Len(s) + j /\ t[i] = [frame |-> k + 1, at |-> j]
  <2>1. CASE i <= Len(s)
    BY <1>0, <1>2, <2>1
  <2>2. CASE i > Len(s)
    <3>1. i - Len(s) \in 1 .. f.size /\ i = Len(s) + (i - Len(s))
      BY <1>0, <1>2, <2>2
    <3> QED BY <1>2, <3>1
  <2> QED BY <1>0, <1>2, <2>1, <2>2
<1>7. \A i \in 1 .. Len(t) : t[i].frame \in 1 .. Len(g)
  <2>1. \A i \in 1 .. Len(s) : s[i].frame \in 1 .. k
    BY DEF Stream
  <2>2. k + 1 \in 1 .. Len(g) /\ \A i \in 1 .. k : i \in 1 .. Len(g)
    BY <1>0, <1>3
  <2> SUFFICES ASSUME NEW i \in 1 .. Len(t) PROVE t[i].frame \in 1 .. Len(g)
    OBVIOUS
  <2>3. CASE i \in 1 .. Len(s) /\ t[i] = s[i]
    BY <2>1, <2>2, <2>3, Zenon
  <2>4. ASSUME NEW j \in 1 .. f.size, t[i] = [frame |-> k + 1, at |-> j]
        PROVE  t[i].frame \in 1 .. Len(g)
    BY <2>2, <2>4
  <2> QED BY <1>6, <2>3, <2>4, Zenon
<1>8. ASSUME NEW i \in 1 .. Len(t) - 1 PROVE Follows(g, t[i], t[i + 1])
  <2>1. CASE i < Len(s)
    <3>1. i \in 1 .. Len(s) - 1 /\ i + 1 \in 1 .. Len(s) /\ i \in 1 .. Len(s)
      BY <1>0, <2>1
    <3>2. Follows(frames, s[i], s[i + 1]) /\ s[i].frame \in 1 .. k
      BY <3>1 DEF Stream
    <3>3. t[i] = s[i] /\ t[i + 1] = s[i + 1]
      BY <1>2, <3>1
    <3> QED BY <1>3, <3>2, <3>3 DEF Follows
  <2>2. CASE i = Len(s)
    <3>1. s # <<>> /\ i \in 1 .. Len(s) /\ t[i] = s[i] /\ t[i + 1] = [frame |-> k + 1, at |-> 1]
      BY <1>0, <1>2, <2>2
    <3>2. s[i] = [frame |-> k, at |-> frames[k].size] /\ k \in 1 .. k
      BY <1>0, <2>2, <3>1 DEF Stream
    <3> QED BY <1>0, <1>3, <3>1, <3>2 DEF Follows
  <2>3. CASE i > Len(s)
    <3> DEFINE j == i - Len(s)
    <3>1. j \in 1 .. f.size /\ j + 1 \in 1 .. f.size /\ i = Len(s) + j /\ i + 1 = Len(s) + (j + 1)
      BY <1>0, <1>2, <2>3
    <3> HIDE DEF j
    <3>2. t[i] = [frame |-> k + 1, at |-> j] /\ t[i + 1] = [frame |-> k + 1, at |-> j + 1]
      BY <1>2, <3>1
    <3> QED BY <1>0, <1>3, <3>1, <3>2 DEF Follows
  <2> QED BY <1>0, <1>2, <2>1, <2>2, <2>3
<1>9. t # <<>> /\ t[Len(t)] = [frame |-> Len(g), at |-> g[Len(g)].size]
  BY <1>0, <1>2, <1>3
<1>10. t[1] = [frame |-> first, at |-> 1]
  <2>1. CASE s = <<>>
    <3>1. Len(s) = 0 /\ first = k + 1
      BY <2>1 DEF Stream
    <3> QED BY <1>0, <1>2, <3>1
  <2>2. CASE s # <<>>
    <3>1. 1 \in 1 .. Len(s) /\ s[1] = [frame |-> first, at |-> 1]
      BY <1>0, <2>2 DEF Stream
    <3> QED BY <1>2, <3>1
  <2> QED BY <2>1, <2>2
<1>11. Stream(t, g, first)
  BY <1>4, <1>7, <1>8, <1>9, <1>10 DEF Stream
<1> QED BY <1>11 DEF t, g, b

(* A frame is consumed.                                                    *)
LEMMA StreamDrops ==
    ASSUME NEW s \in Seq(Byte), NEW r \in Seq(Byte), NEW frames \in Seq(Frame),
           NEW first, Stream(s, frames, first), NEW n \in Nat, n > 0,
           first \in 1 .. Len(frames), EndsAt(s, n, frames, first), Without(s, n, r)
    PROVE  Stream(r, frames, first + 1)
<1> DEFINE L == Len(s)  R == Len(r)  K == Len(frames)
<1>0. L \in Nat /\ R \in Nat /\ K \in Nat
  BY LenProperties
<1>1. (r = <<>> <=> R = 0) /\ (s = <<>> <=> L = 0)
  BY EmptySeq
<1>2. first \in 1 .. K
  OBVIOUS
<1>3. L = n + R /\ \A i \in 1 .. R : r[i] = s[n + i]
  BY DEF Without
<1>4. /\ \A i \in 1 .. L : s[i].frame \in 1 .. K
      /\ \A i \in 1 .. L - 1 : Follows(frames, s[i], s[i + 1])
      /\ s # <<>> => s[L] = [frame |-> K, at |-> frames[K].size]
  BY DEF Stream
<1> HIDE DEF L, R, K
<1>5. \A i \in 1 .. R : n + i \in 1 .. L
  BY <1>0, <1>3
<1>6. \A i \in 1 .. R : r[i].frame \in 1 .. K
  BY <1>3, <1>4, <1>5
<1>7. ASSUME NEW i \in 1 .. R - 1 PROVE Follows(frames, r[i], r[i + 1])
  <2>1. /\ n + i \in 1 .. L - 1 /\ n + (i + 1) = (n + i) + 1
        /\ i \in 1 .. R /\ i + 1 \in 1 .. R
    BY <1>0, <1>3
  <2>2. r[i] = s[n + i] /\ r[i + 1] = s[(n + i) + 1]
    BY <1>3, <2>1, SMTT(30)
  <2> QED BY <1>4, <2>1, <2>2
<1>8. first + 1 \in 1 .. K + 1
  BY <1>0, <1>2
<1>9. CASE r = <<>>
  <2>1. n = L /\ s # <<>>
    BY <1>0, <1>1, <1>3, <1>9
  <2>2. first = K
    BY <1>4, <2>1 DEF EndsAt
  <2> QED BY <1>6, <1>7, <1>8, <1>9, <2>2 DEF Stream, R, K
<1>10. CASE r # <<>>
  <2>1. n \in 1 .. L - 1 /\ s # <<>> /\ R \in 1 .. R /\ 1 \in 1 .. R /\ n + R = L
    BY <1>0, <1>1, <1>3, <1>10
  <2>2. Follows(frames, s[n], s[n + 1])
    BY <1>4, <2>1
  <2>3. s[n + 1] = [frame |-> first + 1, at |-> 1]
    BY <2>2 DEF Follows, EndsAt
  <2>4. r[1] = s[n + 1] /\ r[R] = s[L]
    BY <1>3, <2>1
  <2> QED BY <1>4, <1>6, <1>7, <1>8, <1>10, <2>1, <2>3, <2>4 DEF Stream, R, K
<1> QED BY <1>9, <1>10

(* The buffer begins with the first frame that is not consumed.            *)
LEMMA BufferHead ==
    ASSUME IInv, m_input_msg # <<>>
    PROVE  m_input_msg[1] = [frame |-> First, at |-> 1] /\ First \in 1 .. Len(served)
<1>1. m_input_msg \in Seq(Byte) /\ wire \in Seq(Byte) /\ served \in Seq(Frame)
  BY DEF IInv, TypeOK
<1>2. 1 \in 1 .. Len(m_input_msg) /\ Len(m_input_msg) \in Nat
  BY <1>1
<1>3. /\ Len(m_input_msg \o wire) = Len(m_input_msg) + Len(wire)
      /\ (m_input_msg \o wire)[1] = m_input_msg[1] /\ m_input_msg \o wire # <<>>
  BY <1>1, <1>2
<1>4. Stream(m_input_msg \o wire, served, First)
  BY DEF IInv
<1>5. m_input_msg[1] = [frame |-> First, at |-> 1]
  BY <1>3, <1>4 DEF Stream
<1>6. 1 \in 1 .. Len(m_input_msg \o wire)
  BY <1>1, <1>2, <1>3
<1>7. (m_input_msg \o wire)[1].frame \in 1 .. Len(served)
  BY <1>4, <1>6 DEF Stream
<1> QED BY <1>3, <1>5, <1>7

(* parse_network_msg() accepts the buffer only if the next frame of the    *)
(* peer heads it, whole, and is a message.                                 *)
LEMMA ParseGood ==
    ASSUME IInv, pc = "reading", Complete,
           parse_network_msg(m_input_msg, LengthField(m_input_msg))
    PROVE  LET n == Len(received) + 1 IN
           /\ n \in 1 .. Len(served) /\ m_input_msg[1].frame = n
           /\ WellFormed(served[n]) /\ served[n].len <= Len(m_input_msg)
           /\ SubSeq(m_input_msg, 1, served[n].len) = Bytes(n, served[n])
<1> DEFINE n == Len(received) + 1  l == LengthField(m_input_msg)
<1>0. m_input_msg \in Seq(Byte) /\ served \in Seq(Frame) /\ Len(m_input_msg) \in Nat
  BY DEF IInv, TypeOK
<1>1. m_input_msg # <<>>
  BY <1>0, ConnectionAssumption DEF Complete
<1>2. m_input_msg[1].frame = n /\ n \in 1 .. Len(served)
  BY <1>1, BufferHead DEF First
<1>3. l > 3 * Field /\ l <= Len(m_input_msg)
  BY <1>0 DEF Complete, parse_network_msg
<1>4. l = served[n].len
  BY <1>2, <1>3, ConnectionAssumption DEF LengthField
<1> HIDE DEF n
<1>5. /\ SubSeq(m_input_msg, 1, l) = Bytes(n, served[n])
      /\ served[n].crc /\ served[n].verified
  BY <1>2 DEF parse_network_msg
<1> HIDE DEF l
<1>6. served[n].len \in Nat /\ served[n].size \in Nat
  BY <1>0, <1>2, FrameSize
<1>7. Len(SubSeq(m_input_msg, 1, l)) = l
  BY <1>0, <1>3, <1>4, <1>6
<1>8. Len(Bytes(n, served[n])) = served[n].size
  BY <1>6 DEF Bytes
<1>9. l = served[n].size
  BY <1>5, <1>7, <1>8
<1> QED BY <1>2, <1>3, <1>4, <1>5, <1>9 DEF WellFormed, n

(* The message that on_msg_received() works on, when it is to be erased.   *)
LEMMA HandlingGood ==
    ASSUME IInv, pc = "handling"
    PROVE  LET n == Len(received)  l == LengthField(m_input_msg) IN
           /\ n \in 1 .. Len(served) /\ l \in 1 .. Len(m_input_msg)
           /\ EndsAt(m_input_msg \o wire, l, served, n)
<1> DEFINE n == Len(received)  l == served[n].len
<1>0. /\ m_input_msg \in Seq(Byte) /\ wire \in Seq(Byte) /\ served \in Seq(Frame)
      /\ received \in Seq(Nat) /\ Len(m_input_msg) \in Nat /\ Len(served) \in Nat
  BY DEF IInv, TypeOK
<1>1. n \in 1 .. n /\ n \in 1 .. Len(served)
  BY <1>0 DEF IInv, Handling, Delivered
<1>2. l <= Len(m_input_msg) /\ SubSeq(m_input_msg, 1, l) = Bytes(n, served[n])
  BY DEF IInv, Handling
<1>3. WellFormed(served[n])
  BY <1>1 DEF IInv, Delivered
<1>4. l \in Nat /\ l = served[n].size /\ l > 3 * Field /\ Field \in Nat \ {0}
  BY <1>0, <1>1, <1>3, FrameSize, ConnectionAssumption DEF WellFormed
<1> HIDE DEF n, l
<1>5. \A j \in 1 .. l : m_input_msg[j] = [frame |-> n, at |-> j]
  <2>1. \A j \in 1 .. l : SubSeq(m_input_msg, 1, l)[j] = m_input_msg[j]
    BY <1>0, <1>2, <1>4
  <2>2. \A j \in 1 .. l : Bytes(n, served[n])[j] = [frame |-> n, at |-> j]
    BY <1>4 DEF Bytes
  <2> QED BY <1>2, <2>1, <2>2
<1>6. 1 \in 1 .. l /\ l \in 1 .. l /\ l \in 1 .. Len(m_input_msg)
      /\ \A j \in 1 .. Field : j \in 1 .. l
  BY <1>0, <1>2, <1>4
<1>7. m_input_msg[1].frame = n
  <2>1. m_input_msg[1] = [frame |-> n, at |-> 1]
    BY <1>5, <1>6, Zenon
  <2> QED BY <2>1
<1>8. LengthField(m_input_msg) = l
  BY <1>5, <1>6, <1>7 DEF LengthField, l
<1>9. (m_input_msg \o wire)[l] = m_input_msg[l]
  BY <1>0, <1>6
<1>10. EndsAt(m_input_msg \o wire, l, served, n)
  BY <1>4, <1>5, <1>6, <1>9 DEF EndsAt
<1> QED BY <1>1, <1>6, <1>8, <1>10 DEF n

-----------------------------------------------------------------------------
(* The steps that leave the bytes and the frames alone.                    *)
Aside ==
    \/ Disconnect \/ (\E len \in OutLen : Send(len)) \/ ConnectCallback \/ ReadMore
    \/ ReadError \/ WriteCallback \/ CloseCallback \/ ReadEnd \/ KernelWrite \/ PeerCloses
    \/ UNCHANGED vars

LEMMA AsideKeeps ==
    ASSUME Aside
    PROVE  /\ UNCHANGED <<m_input_msg, wire, served, received>>
           /\ pc' = pc \/ (pc = "reading" /\ pc' = "idle")
  BY DEF Aside, Disconnect, Send, ConnectCallback, ReadMore, ReadError, WriteCallback,
         CloseCallback, ReadEnd, KernelWrite, PeerCloses, vars, self, uv, peer, history

(* The types, the state of the event loop apart.                           *)
BytesOK ==
    /\ m_input_msg \in Seq(Byte) /\ wire \in Seq(Byte)
    /\ served \in Seq(Frame) /\ received \in Seq(Nat)

LEMMA StreamStep ==
    ASSUME IInv, [Next]_vars
    PROVE  BytesOK' /\ Stream(m_input_msg \o wire, served, First)'
<1>0. BytesOK /\ Stream(m_input_msg \o wire, served, First)
  BY DEF IInv, TypeOK, BytesOK
<1>1. CASE Connect
  <2>1. m_input_msg' = <<>> /\ wire' = <<>> /\ served' = <<>> /\ received' = <<>> /\ First' = 1
    BY <1>1 DEF Connect, First
  <2>2. BytesOK'
    BY <2>1, EmptySeq DEF BytesOK
  <2>3. m_input_msg' \o wire' = <<>>
    BY <2>1
  <2> QED BY <2>1, <2>2, <2>3 DEF Stream
<1>2. CASE Aside
  <2>1. UNCHANGED <<m_input_msg, wire, served, received>> /\ First' = First
    BY <1>2, AsideKeeps DEF First
  <2> QED BY <1>0, <2>1 DEF BytesOK
<1>3. CASE ReadMsg
  <2>1. /\ UNCHANGED <<m_input_msg, wire, served>> /\ pc = "reading" /\ pc' = "handling"
        /\ received' = Append(received, m_input_msg[1].frame)
    BY <1>3 DEF ReadMsg, self, peer
  <2>2. m_input_msg[1].frame = Len(received) + 1
    BY <1>3, ParseGood DEF ReadMsg
  <2>3. received' \in Seq(Nat) /\ Len(received') = Len(received) + 1
    BY <1>0, <2>1, <2>2 DEF BytesOK
  <2>4. First' = First
    BY <2>1, <2>3 DEF First
  <2> QED BY <1>0, <2>1, <2>3, <2>4 DEF BytesOK
<1>4. CASE HandlerReturns
  <2> DEFINE l == LengthField(m_input_msg)  n == Len(received)
             r == SubSeq(m_input_msg, l + 1, Len(m_input_msg))
  <2>1. /\ m_input_msg' = r /\ pc = "handling" /\ pc' = "reading"
        /\ UNCHANGED <<wire, served, received>>
    BY <1>4 DEF HandlerReturns, peer, history
  <2>2. n \in 1 .. Len(served) /\ l \in 1 .. Len(m_input_msg)
        /\ EndsAt(m_input_msg \o wire, l, served, n)
    BY <2>1, HandlingGood
  <2>3. First = n /\ First' = n + 1
    BY <2>1 DEF First
  <2> HIDE DEF l, n
  <2>4. m_input_msg \in Seq(Byte) /\ wire \in Seq(Byte) /\ served \in Seq(Frame)
        /\ m_input_msg \o wire \in Seq(Byte) /\ l \in Nat /\ l > 0
    BY <1>0, <2>2 DEF BytesOK
  <2>5. r \in Seq(Byte) /\ r \o wire \in Seq(Byte) /\ Without(m_input_msg \o wire, l, r \o wire)
    BY <2>2, <2>4, BytesErased
  <2> HIDE DEF r
  <2>6. Stream(m_input_msg \o wire, served, n)
    BY <1>0, <2>3
  <2>7. Stream(r \o wire, served, n + 1)
    BY <2>2, <2>4, <2>5, <2>6, StreamDrops
  <2> QED BY <1>0, <2>1, <2>3, <2>5, <2>7 DEF BytesOK
<1>5. ASSUME NEW n \in 1 .. InputBuffer, ReadBytes(n)
      PROVE  BytesOK' /\ Stream(m_input_msg \o wire, served, First)'
  <2>1. /\ m_input_msg' = m_input_msg \o SubSeq(wire, 1, n)
        /\ wire' = SubSeq(wire, n + 1, Len(wire))
        /\ UNCHANGED <<served, received>> /\ First' = First
    BY <1>5 DEF ReadBytes, CanRead, history, First
  <2>2. m_input_msg \in Seq(Byte) /\ wire \in Seq(Byte) /\ n \in 1 .. Len(wire)
    BY <1>0, <1>5, ConnectionAssumption DEF BytesOK, ReadBytes
  <2>3. m_input_msg' \in Seq(Byte) /\ wire' \in Seq(Byte)
        /\ m_input_msg' \o wire' = m_input_msg \o wire
    BY <2>1, <2>2, BytesMove
  <2> QED BY <1>0, <2>1, <2>3 DEF BytesOK
<1>6. CASE PeerSend
  <2>1. PICK f \in Frame : /\ served' = Append(served, f)
                           /\ wire' = wire \o Bytes(Len(served) + 1, f)
    BY <1>6 DEF PeerSend
  <2>2. UNCHANGED <<m_input_msg, received>> /\ First' = First
    BY <1>6 DEF PeerSend, self, uv, history, First
  <2> DEFINE b == Bytes(Len(served) + 1, f)
  <2>3. b \in Seq(Byte)
    <3>1. f.size \in Nat /\ Len(served) + 1 \in Nat
      BY <1>0, ConnectionAssumption DEF BytesOK
    <3>2. b \in [1 .. f.size -> Byte]
      BY <3>1 DEF Bytes, Byte
    <3> QED BY <3>1, <3>2
  <2>4. /\ m_input_msg \in Seq(Byte) /\ wire \in Seq(Byte) /\ served \in Seq(Frame)
        /\ m_input_msg \o wire \in Seq(Byte)
    BY <1>0 DEF BytesOK
  <2>5. Stream((m_input_msg \o wire) \o b, served', First)
    BY <1>0, <2>1, <2>4, StreamGrows
  <2> HIDE DEF b
  <2>6. (m_input_msg \o wire) \o b = m_input_msg \o (wire \o b)
    BY <2>3, <2>4, BytesConcat, SMTT(30)
  <2>7. wire' = wire \o b
    BY <2>1 DEF b
  <2>8. wire' \in Seq(Byte) /\ served' \in Seq(Frame)
    <3>1. wire \o b \in Seq(Byte)
      BY <2>3, <2>4, ConcatProperties
    <3>2. Append(served, f) \in Seq(Frame)
      BY <2>4
    <3> QED BY <2>1, <2>7, <3>1, <3>2, Zenon
  <2>9. Stream(m_input_msg' \o wire', served', First')
    <3>1. m_input_msg' \o wire' = (m_input_msg \o wire) \o b
      BY <2>2, <2>6, <2>7
    <3> QED BY <2>2, <2>5, <3>1
  <2> QED BY <1>0, <2>2, <2>8, <2>9 DEF BytesOK
<1> QED BY Steps, <1>1, <1>2, <1>3, <1>4, <1>5, <1>6 DEF Aside

LEMMA DeliveredStep ==
    ASSUME IInv, [Next]_vars
    PROVE  Delivered' /\ Handling'
<1>0. /\ BytesOK /\ Delivered /\ Handling
      /\ Len(received) \in Nat /\ Len(served) \in Nat /\ Len(m_input_msg) \in Nat
  BY DEF IInv, TypeOK, BytesOK
<1>1. CASE Connect
  BY <1>1 DEF Connect, Delivered, Handling
<1>2. CASE Aside
  BY <1>0, <1>2, AsideKeeps DEF Delivered, Handling
<1>3. CASE ReadMsg
  <2> DEFINE n == Len(received) + 1
  <2>1. /\ UNCHANGED <<m_input_msg, wire, served>> /\ pc = "reading" /\ pc' = "handling"
        /\ received' = Append(received, m_input_msg[1].frame)
    BY <1>3 DEF ReadMsg, self, peer
  <2>2. /\ n \in 1 .. Len(served) /\ m_input_msg[1].frame = n
        /\ WellFormed(served[n]) /\ served[n].len <= Len(m_input_msg)
        /\ SubSeq(m_input_msg, 1, served[n].len) = Bytes(n, served[n])
    BY <1>3, ParseGood DEF ReadMsg
  <2>3. /\ Len(received') = n /\ received' # <<>> /\ received'[n] = n
        /\ \A i \in 1 .. n - 1 : received'[i] = received[i]
    BY <1>0, <2>1, <2>2 DEF BytesOK
  <2>4. Handling'
    BY <2>1, <2>2, <2>3 DEF Handling
  <2>5. ASSUME NEW i \in 1 .. n PROVE received'[i] = i /\ WellFormed(served[i])
    <3>1. CASE i = n
      BY <2>2, <2>3, <3>1
    <3>2. CASE i # n
      <4>1. i \in 1 .. n - 1 /\ i \in 1 .. Len(received)
        BY <1>0, <3>2
      <4> QED BY <1>0, <2>3, <4>1 DEF Delivered
    <3> QED BY <3>1, <3>2
  <2>6. Len(received') <= Len(served')
    BY <1>0, <2>1, <2>2, <2>3
  <2>7. \A i \in 1 .. Len(received') : received'[i] = i /\ WellFormed(served'[i])
    BY <2>1, <2>3, <2>5
  <2> QED BY <2>4, <2>6, <2>7 DEF Delivered, WellFormed
<1>4. CASE HandlerReturns
  BY <1>0, <1>4 DEF HandlerReturns, peer, history, Delivered, Handling
<1>5. ASSUME NEW n \in 1 .. InputBuffer, ReadBytes(n) PROVE Delivered' /\ Handling'
  BY <1>0, <1>5 DEF ReadBytes, history, Delivered, Handling
<1>6. CASE PeerSend
  <2>1. PICK f \in Frame : served' = Append(served, f)
    BY <1>6 DEF PeerSend
  <2>2. UNCHANGED <<m_input_msg, received, pc>>
    BY <1>6 DEF PeerSend, self, uv, history
  <2>3. Len(served') = Len(served) + 1 /\ \A i \in 1 .. Len(served) : served'[i] = served[i]
    BY <1>0, <2>1 DEF BytesOK
  <2>4. \A i \in 1 .. Len(received) : i \in 1 .. Len(served)
    BY <1>0 DEF Delivered
  <2>5. Delivered'
    BY <1>0, <2>2, <2>3, <2>4 DEF Delivered, WellFormed
  <2>6. Handling'
    <3>1. received # <<>> => Len(received) \in 1 .. Len(received)
      BY <1>0 DEF BytesOK
    <3> QED BY <1>0, <2>2, <2>3, <2>4, <3>1 DEF Handling
  <2> QED BY <2>5, <2>6
<1> QED BY Steps, <1>1, <1>2, <1>3, <1>4, <1>5, <1>6 DEF Aside

LEMMA WaitingStep ==
    ASSUME IInv, [Next]_vars
    PROVE  Waiting'
<1>0. TypeOK /\ Control /\ Waiting
  BY DEF IInv
<1>a. UNCHANGED <<m_input_msg, served>> /\ (CanRead' => CanRead) => Waiting'
  BY <1>0 DEF Waiting
<1>1. CASE Connect
  BY <1>1 DEF Connect, Waiting, CanRead
<1>2. CASE Disconnect \/ ReadEnd
  BY <1>0, <1>2 DEF Disconnect, ReadEnd, disconnect, Waiting, CanRead
<1>3. ASSUME NEW len \in OutLen, Send(len) PROVE Waiting'
  BY <1>0, <1>a, <1>3 DEF Send, SendCounted, disconnect, CanRead, peer, TypeOK
<1>4. CASE ConnectCallback
  BY <1>0, <1>4 DEF ConnectCallback, Control, Waiting
<1>5. CASE ReadMore
  <2>1. UNCHANGED <<m_input_msg, served>> /\ ~Complete
    BY <1>5 DEF ReadMore, self, peer
  <2>2. SUFFICES ASSUME m_input_msg # <<>>, ~(Len(m_input_msg) < Field)
                 PROVE  Len(m_input_msg) < served[m_input_msg[1].frame].len
    BY <2>1 DEF Waiting
  <2>3. Len(m_input_msg) \in Nat /\ Field \in Nat
    BY <1>0, ConnectionAssumption DEF TypeOK
  <2>4. ~(Len(m_input_msg) >= LengthField(m_input_msg))
    BY <2>1, <2>2, <2>3 DEF Complete
  <2>5. LengthField(m_input_msg) = served[m_input_msg[1].frame].len
    BY <2>3, <2>4 DEF LengthField
  <2>6. served[m_input_msg[1].frame].len \in Nat
    <3>1. m_input_msg[1].frame \in 1 .. Len(served)
      BY <2>2, BufferHead
    <3> QED BY <1>0, <3>1, FrameSize DEF TypeOK
  <2> QED BY <2>3, <2>4, <2>5, <2>6
<1>6. CASE ReadError
  BY <1>0, <1>6 DEF ReadError, disconnect, Control, Waiting, CanRead
<1>7. CASE ReadMsg \/ HandlerReturns \/ (\E n \in 1 .. InputBuffer : ReadBytes(n))
  BY <1>7 DEF ReadMsg, HandlerReturns, ReadBytes, Waiting, CanRead
<1>8. CASE WriteCallback
  BY <1>0, <1>a, <1>8 DEF WriteCallback, disconnect, CanRead, peer, TypeOK
<1>9. CASE CloseCallback
  BY <1>9 DEF CloseCallback, Waiting, CanRead
<1>10. CASE KernelWrite \/ PeerCloses \/ UNCHANGED vars
  BY <1>a, <1>10 DEF KernelWrite, PeerCloses, vars, self, uv, peer, CanRead
<1>11. CASE PeerSend
  <2>1. PICK f \in Frame : served' = Append(served, f)
    BY <1>11 DEF PeerSend
  <2>2. UNCHANGED m_input_msg /\ CanRead' = CanRead
    BY <1>11 DEF PeerSend, self, uv, CanRead
  <2>3. SUFFICES ASSUME CanRead, m_input_msg # <<>>
                 PROVE  \/ Len(m_input_msg) < Field
                        \/ Len(m_input_msg) < served'[m_input_msg[1].frame].len
    BY <2>2 DEF Waiting
  <2>4. m_input_msg[1].frame \in 1 .. Len(served)
    BY <2>3, BufferHead
  <2>5. served'[m_input_msg[1].frame] = served[m_input_msg[1].frame]
    BY <1>0, <2>1, <2>4 DEF TypeOK
  <2> QED BY <1>0, <2>3, <2>5 DEF Waiting
<1> QED BY Steps, <1>1, <1>2, <1>3, <1>4, <1>5, <1>6, <1>7, <1>8, <1>9, <1>10, <1>11

LEMMA TypeStep ==
    ASSUME IInv, [Next]_vars
    PROVE  TypeOK'
<1>1. BytesOK' /\ writes' \in Seq(Write)
  BY StreamStep, WritesStep
<1>2. /\ m_state' \in {"CLOSED", "CONNECTING", "CONNECTED"}
      /\ pc' \in {"idle", "reading", "handling"}
      /\ closing' \in BOOLEAN /\ connect_req' \in BOOLEAN
  <2>1. m_state' \in {m_state, "CLOSED", "CONNECTING", "CONNECTED"}
        /\ pc' \in {pc, "idle", "reading", "handling"}
    BY Steps DEF Connect, Disconnect, Send, ConnectCallback, ReadMore, ReadError, ReadMsg,
                 HandlerReturns, WriteCallback, CloseCallback, ReadBytes, ReadEnd, KernelWrite,
                 PeerSend, PeerCloses, vars, self, uv
  <2>2. closing' \in {closing, TRUE, FALSE} /\ connect_req' \in {connect_req, TRUE, FALSE}
    BY Steps DEF Connect, Disconnect, Send, SendCounted, ConnectCallback, ReadMore, ReadError,
                 ReadMsg, HandlerReturns, WriteCallback, CloseCallback, ReadBytes, ReadEnd,
                 KernelWrite, PeerSend, PeerCloses, disconnect, vars, self, uv
  <2> QED BY <2>1, <2>2 DEF IInv, TypeOK
<1> QED BY <1>1, <1>2 DEF TypeOK, BytesOK

(* IInv is inductive.                                                      *)
LEMMA NextInv == IInv /\ [Next]_vars => IInv'
<1> SUFFICES ASSUME IInv, [Next]_vars PROVE IInv'
  OBVIOUS
<1> QED BY TypeStep, ControlStep, WritesStep, StreamStep, DeliveredStep, WaitingStep DEF IInv

LEMMA Invariance == Spec => []IInv
  BY InitInv, NextInv, PTL DEF Spec

-----------------------------------------------------------------------------
(* Whatever writes fail and whenever the connection is lost, m_stats       *)
(* counts the write requests whose callback is due, and none is left when  *)
(* the connection is closed: the assertions of cb_tcp_write() hold.        *)
THEOREM UnackCountersExact == Spec => []UnackExact
<1>1. IInv => UnackExact
  BY DEF IInv
<1> QED BY Invariance, <1>1, PTL

(* The limits that send() checks are kept, for every limit and every       *)
(* length of message.                                                      *)
THEOREM UnackWithinLimits == Spec => []UnackBounded
<1>1. IInv => UnackBounded
  BY DEF IInv
<1> QED BY Invariance, <1>1, PTL

(* Whatever the pieces in which the bytes come, cb_tcp_read() returns to   *)
(* the event loop with no whole message in the buffer.                     *)
THEOREM NoMessageWaits == Spec => []NothingWaits
<1>1. IInv => NothingWaits
  <2> SUFFICES ASSUME IInv, CanRead, m_input_msg # <<>>
               PROVE  /\ m_input_msg[1].at = 1
                      /\ \/ Len(m_input_msg) < Field
                         \/ Len(m_input_msg) < served[m_input_msg[1].frame].len
    BY DEF NothingWaits
  <2>1. m_input_msg[1].at = 1
    BY BufferHead
  <2> QED BY <2>1 DEF IInv, Waiting
<1> QED BY Invariance, <1>1, PTL

-----------------------------------------------------------------------------
(* The refinement of MsgFifo.                                              *)
LEMMA GotIs == received \in Seq(Nat) /\ Delivered => Got = Len(received)
<1> SUFFICES ASSUME received \in Seq(Nat), Delivered PROVE Got = Len(received)
  OBVIOUS
<1>1. received = [i \in 1 .. Len(received) |-> i]
  BY DEF Delivered
<1> QED BY <1>1 DEF Got

LEMMA GotNext == (received \in Seq(Nat) /\ Delivered => Got = Len(received))'
  BY GotIs, PTL

(* A step of the connection is a step of MsgFifo, or invisible there.      *)
LEMMA FifoStep ==
    ASSUME IInv, IInv', [Next]_vars
    PROVE  [Fifo!FifoNext]_(Fifo!fifo)
<1>0. TypeOK /\ Control /\ Delivered /\ Got = Len(received) /\ Got' = Len(received')
  BY GotIs, GotNext DEF IInv, TypeOK
<1>1. CASE Connect
  <2>1. Link = "closed" /\ Link' = "connecting" /\ served' = <<>> /\ Got' = 0
    BY <1>0, <1>1 DEF Connect, Link
  <2> QED BY <2>1 DEF Fifo!FifoNext, Fifo!Open
<1>2. CASE ConnectCallback
  <2>1. UNCHANGED <<served, received>>
    BY <1>2 DEF ConnectCallback, peer, history
  <2>2. Link = "connecting" /\ (Link' = "connected" \/ Link' = Link)
    BY <1>0, <1>2 DEF ConnectCallback, Control, Link
  <2> QED BY <1>0, <2>1, <2>2 DEF Fifo!FifoNext, Fifo!Established, Fifo!fifo
<1>3. CASE ReadMsg
  <2> DEFINE n == Len(received)
  <2>1. UNCHANGED <<m_state, served>> /\ Link' = Link
    BY <1>3 DEF ReadMsg, self, peer, Link
  <2>2. Link = "connected"
    BY <1>0, <1>3 DEF ReadMsg, Control, Link
  <2>3. n + 1 \in 1 .. Len(served) /\ WellFormed(served[n + 1]) /\ n \in Nat /\ Len(served) \in Nat
    BY <1>0, <1>3, ParseGood DEF ReadMsg, TypeOK
  <2>4. Got' = Got + 1 /\ Got < Len(served)
    BY <1>0, <1>3, <2>3 DEF ReadMsg, TypeOK
  <2>5. \A i \in 1 .. Got + 1 : WellFormed(served[i])
    BY <1>0, <2>3 DEF Delivered
  <2> QED BY <2>1, <2>2, <2>4, <2>5 DEF Fifo!FifoNext, Fifo!Deliver
<1>4. CASE CloseCallback
  <2>1. UNCHANGED <<served, received>>
    BY <1>4 DEF CloseCallback, peer, history
  <2>2. Link # "closed" /\ Link' = "closed"
    BY <1>0, <1>4 DEF CloseCallback, Control, Link
  <2> QED BY <1>0, <2>1, <2>2 DEF Fifo!FifoNext, Fifo!Closed
<1>5. CASE PeerSend
  <2>1. UNCHANGED <<m_state, received>> /\ m_state = "CONNECTED"
    BY <1>5 DEF PeerSend, self, history
  <2>2. Link = "connected" /\ Link' = Link
    BY <2>1 DEF Link
  <2>3. \E f \in Frame : served' = Append(served, f)
    BY <1>5 DEF PeerSend
  <2> QED BY <1>0, <2>1, <2>2, <2>3 DEF Fifo!FifoNext, Fifo!PeerSend
<1>6. CASE \/ Disconnect \/ (\E len \in OutLen : Send(len)) \/ ReadMore \/ ReadError
           \/ HandlerReturns \/ WriteCallback \/ (\E n \in 1 .. InputBuffer : ReadBytes(n))
           \/ ReadEnd \/ KernelWrite \/ PeerCloses \/ UNCHANGED vars
  <2>1. UNCHANGED <<m_state, served, received>>
    BY <1>6 DEF Disconnect, Send, ReadMore, ReadError, HandlerReturns, WriteCallback, ReadBytes,
                ReadEnd, KernelWrite, PeerCloses, vars, self, peer, history
  <2>2. Link' = Link
    BY <2>1 DEF Link
  <2> QED BY <1>0, <2>1, <2>2 DEF Fifo!fifo
<1> QED BY Steps, <1>1, <1>2, <1>3, <1>4, <1>5, <1>6

(* The connection hands over the messages of the peer whole, in order,     *)
(* none twice and none after a malformed one, and every connect() ends in  *)
(* one on_connection_closed(): it implements MsgFifo.                      *)
THEOREM ConnectionImplementsFifo == Spec => ImplementsFifo
<1>1. Init => Fifo!FifoInit
  <2> SUFFICES ASSUME Init PROVE Fifo!FifoInit
    OBVIOUS
  <2>1. Link = "closed" /\ served = <<>>
    BY DEF Init, Link
  <2>2. Got = 0
    BY InitInv, GotIs DEF Init, IInv, TypeOK
  <2> QED BY <2>1, <2>2 DEF Fifo!FifoInit
<1>2. IInv /\ IInv' /\ [Next]_vars => [Fifo!FifoNext]_(Fifo!fifo)
  BY FifoStep
<1> QED BY <1>1, <1>2, Invariance, PTL DEF Spec, ImplementsFifo, Fifo!FifoSpec
=============================================================================
