-------------------------- MODULE NplexClientProofs --------------------------
(***************************************************************************)
(* Proofs about NplexClient, for any number of servers, revisions, losses  *)
(* and reconnections: one server at a time, and a replica that neither     *)
(* misses an update nor receives one twice.                                *)
(***************************************************************************)
EXTENDS NplexClient, SequenceTheorems, LoopTheorems

-----------------------------------------------------------------------------
(* The messages in flight.                                                 *)
RequestRec == [type : {"login", "snapshot", "updates"}, cid : Nat, rev : Nat]
MsgRec == [type : {"login", "snapshot", "updates", "push", "eof"}, cid : Nat,
           ok : BOOLEAN, rev : Nat, crev : Nat]
StreamRec == [rev : Nat, cid : Nat]

NetworkOK ==
    /\ outbox \in [Connection -> Seq(RequestRec)]
    /\ inbox \in [Connection -> Seq(MsgRec)]
    /\ stream \in [Connection -> StreamRec \cup {Null}]

(* Nobody knows of a revision that does not exist yet.                     *)
Known ==
    /\ m_rev <= crev /\ told <= crev
    /\ \A c \in Connection :
        /\ \A i \in 1 .. Len(outbox[c]) : outbox[c][i].rev <= crev
        /\ \A i \in 1 .. Len(inbox[c]) : inbox[c][i].rev <= crev /\ inbox[c][i].crev <= crev
        /\ stream[c] # Null => stream[c].rev <= crev

(* A connection carries one request or its answer at a time; the updates   *)
(* that a server pushes come after its answer, and its end comes last.     *)
(* out, in and str are the outbox, the inbox and the stream of one.        *)
Turns(out, in, str) ==
    /\ Len(out) <= 1
    /\ \A i \in 1 .. Len(in) :
        /\ in[i].type \in {"login", "snapshot", "updates"} => i = 1
        /\ in[i].type = "eof" => i = Len(in) /\ str = Null
        /\ in[i].type # "eof" => out = <<>>
        /\ in[i].type \in {"login", "snapshot"} => str = Null
        /\ in[i].type = "push" => in[1].type \in {"updates", "push"}
    /\ str # Null => out = <<>>

TurnsOK ==
    \A c \in Connection :
        /\ Turns(outbox[c], inbox[c], stream[c])
        /\ con[c] = "CONNECTING" => outbox[c] = <<>> /\ inbox[c] = <<>> /\ stream[c] = Null

(* The session with the server m_con: what is on its way between it and    *)
(* the client belongs to the last request, and fits the client's state.    *)
OfRequest(out, in, str, cid) ==
    /\ \A i \in 1 .. Len(out) : out[i].cid = cid
    /\ \A i \in 1 .. Len(in) : in[i].type # "eof" => in[i].cid = cid
    /\ str # Null => str.cid = cid

Loading(out, in, str) ==
    /\ str = Null
    /\ \A i \in 1 .. Len(out) : out[i].type = "snapshot"
    /\ \A i \in 1 .. Len(in) : in[i].type \in {"snapshot", "eof"}

Following(out, in, known) ==
    /\ \A i \in 1 .. Len(out) : out[i].type = "updates"
    /\ \A i \in 1 .. Len(in) : in[i].type \in {"updates", "push", "eof"}
    /\ \A i \in 1 .. Len(in) : in[i].type = "push" =>
        /\ known <= in[i].crev
        /\ in[1].type = "updates" => in[1].crev <= in[i].crev

Session ==
    m_con # Null =>
        /\ m_state \in {"LOADING_SNAPSHOT", "SYNCING", "SYNCED"}
        /\ OfRequest(outbox[m_con], inbox[m_con], stream[m_con], m_data_cid)
        /\ m_state = "LOADING_SNAPSHOT" =>
            ~m_initialized /\ Loading(outbox[m_con], inbox[m_con], stream[m_con])
        /\ m_state # "LOADING_SNAPSHOT" => Following(outbox[m_con], inbox[m_con], told)

(* With an initial revision (m_rev0 > 0): the updates on their way are the *)
(* ones that come after rev, the revision of the store, without a gap.     *)
Base(in, rev) == IF in # <<>> /\ in[1].type = "updates" THEN rev - 1 ELSE rev

NoGap(out, in, str, rev) ==
    /\ \A i \in 1 .. Len(out) : out[i].rev = rev
    /\ \A i \in 1 .. Len(in) : in[i].type = "push" => in[i].rev = Base(in, rev) + i
    /\ str # Null => str.rev = Base(in, rev) + Len(in)

(* The revisions that a server announces or sends.                         *)
Served(in) ==
    \A i \in 1 .. Len(in) : in[i].ok =>
        /\ in[i].type = "login" => in[i].rev = OldestRev
        /\ in[i].type = "snapshot" => in[i].rev > 0

Gapless ==
    /\ died # "update"
    /\ m_initialized => m_rev > 0
    /\ m_con # Null /\ m_state # "LOADING_SNAPSHOT" =>
        m_initialized /\ NoGap(outbox[m_con], inbox[m_con], stream[m_con], m_rev)
    /\ \A c \in Connection : Served(inbox[c])

(* A snapshot is asked for, and there is none of an empty cluster.         *)
Populates == m_rev0 > 0 /\ OldestRev > 0

IInv ==
    /\ TypeOK /\ NetworkOK /\ Known /\ TurnsOK
    /\ Session /\ OneServer /\ SyncedCaughtUp
    /\ Populates => Gapless

-----------------------------------------------------------------------------
(* disconnect(), over a set of connections.                                *)
LEMMA RangeOf ==
    ASSUME NEW S, NEW q \in Seq(S)
    PROVE  Range(q) = {q[i] : i \in 1 .. Len(q)} /\ Range(q) \subseteq S
  BY DEF Range

LEMMA RangePrefix ==
    ASSUME NEW S, NEW q \in Seq(S), NEW x \in S
    PROVE  <<x>> \o q \in Seq(S) /\ Range(<<x>> \o q) = {x} \cup Range(q)
<1> DEFINE h == <<x>>
<1>1. h \in Seq(S) /\ Range(h) = {x}
  BY DEF Range
<1> HIDE DEF h
<1>2. Range(h \o q) = Range(h) \cup Range(q) /\ h \o q \in Seq(S)
  BY <1>1, RangeConcatenation, ConcatProperties
<1> QED BY <1>1, <1>2 DEF h

LEMMA ShutIs ==
    ASSUME closing \in Seq(Connection), NEW cs \in SUBSET Connection
    PROVE  Shut(cs) \in Seq(Connection) /\ Range(Shut(cs)) = Range(closing) \cup ToShut(cs)
<1> DEFINE n == Len(m_connections)
           S == Seq(Connection)
           F(f) == [i \in 0 .. n |->
                IF i = 0 THEN closing
                ELSE IF m_connections[i] \in ToShut(cs) THEN <<m_connections[i]>> \o f[i - 1]
                ELSE f[i - 1]]
           shut == CHOOSE f : f = F(f)
           body == [i \in 1 .. n |-> [q \in S |->
                IF m_connections[i] \in ToShut(cs) THEN <<m_connections[i]>> \o q ELSE q]]
<1>0. n \in Nat /\ \A i \in 1 .. n : m_connections[i] \in Connection
  BY ClientAssumption DEF Connection
<1>1. body \in [1 .. n -> [S -> S]]
  <2>1. ASSUME NEW i \in 1 .. n, NEW q \in S PROVE <<m_connections[i]>> \o q \in S
    BY <1>0, RangePrefix
  <2> QED BY <2>1
<1>2. PICK f \in [0 .. n -> S] : IsLoop(f, n, closing, body)
  BY <1>0, <1>1, LoopExists
<1>3. f = F(f)
  <2>1. ASSUME NEW i \in 0 .. n PROVE f[i] = F(f)[i]
    <3>1. CASE i = 0
      BY <1>2, <3>1 DEF IsLoop
    <3>2. CASE i # 0
      <4>1. i \in 1 .. n /\ f[i - 1] \in S
        BY <1>0, <3>2
      <4>2. f[i] = body[i][f[i - 1]]
        BY <1>2, <4>1, Zenon DEF IsLoop
      <4> QED BY <3>2, <4>1, <4>2
    <3> QED BY <3>1, <3>2
  <2> QED BY <2>1
<1>4. shut = F(shut)
  BY <1>3, Zenon
<1>5. Shut(cs) = shut[n]
  BY DEF Shut
<1> HIDE DEF shut, body
<1>6. shut[0] = closing
  BY <1>0, <1>4
<1>7. \A i \in 1 .. n : shut[i] = IF m_connections[i] \in ToShut(cs)
                                  THEN <<m_connections[i]>> \o shut[i - 1] ELSE shut[i - 1]
  <2> SUFFICES ASSUME NEW i \in 1 .. n
               PROVE  shut[i] = IF m_connections[i] \in ToShut(cs)
                                THEN <<m_connections[i]>> \o shut[i - 1] ELSE shut[i - 1]
    OBVIOUS
  <2>1. shut[i] = F(shut)[i]
    BY <1>4, Zenon
  <2>2. i \in 0 .. n /\ i # 0
    BY <1>0
  <2>3. F(shut)[i] = IF m_connections[i] \in ToShut(cs)
                     THEN <<m_connections[i]>> \o shut[i - 1] ELSE shut[i - 1]
    BY <2>2
  <2> HIDE DEF F
  <2> QED BY <2>1, <2>3, Zenon
<1> HIDE DEF F
<1> DEFINE Upto(i) == {m_connections[j] : j \in 1 .. i}
           P == {i \in 0 .. n :
                    shut[i] \in S /\ Range(shut[i]) = Range(closing) \cup (Upto(i) \cap ToShut(cs))}
<1>8. 0 \in P
  BY <1>0, <1>6
<1>9. ASSUME NEW i \in 1 .. n, i - 1 \in P PROVE i \in P
  <2>1. Upto(i) = Upto(i - 1) \cup {m_connections[i]}
    BY <1>0
  <2>2. shut[i - 1] \in S
        /\ Range(shut[i - 1]) = Range(closing) \cup (Upto(i - 1) \cap ToShut(cs))
    BY <1>9
  <2> HIDE DEF Upto
  <2>3. CASE m_connections[i] \in ToShut(cs)
    <3>1. shut[i] = <<m_connections[i]>> \o shut[i - 1]
      BY <1>7, <2>3
    <3>2. shut[i] \in S /\ Range(shut[i]) = {m_connections[i]} \cup Range(shut[i - 1])
      BY <1>0, <2>2, <3>1, RangePrefix
    <3> QED BY <2>1, <2>2, <2>3, <3>2
  <2>4. CASE m_connections[i] \notin ToShut(cs)
    <3>1. shut[i] = shut[i - 1]
      BY <1>7, <2>4
    <3> QED BY <2>1, <2>2, <2>4, <3>1
  <2> QED BY <2>3, <2>4
<1> HIDE DEF P
<1>10. P \in SUBSET (0 .. n) /\ \A i \in 1 .. n : i - 1 \in P => i \in P
  BY <1>9 DEF P
<1>11. n \in P
  <2>1. P = 0 .. n
    BY <1>0, <1>8, <1>10, UpTo, Zenon
  <2> QED BY <1>0, <2>1
<1>12. Upto(n) = Connection /\ ToShut(cs) \subseteq Connection
  BY ClientAssumption DEF Connection, ToShut
<1> QED BY <1>5, <1>11, <1>12 DEF P

-----------------------------------------------------------------------------
(* What a message received, sent, answered or pushed does to the queues of *)
(* a connection.                                                           *)
LEMMA TailIs ==
    ASSUME NEW in \in Seq(MsgRec), in # <<>>
    PROVE  /\ Head(in) = in[1] /\ in[1] \in MsgRec /\ 1 \in 1 .. Len(in)
           /\ Tail(in) \in Seq(MsgRec) /\ Len(in) \in Nat /\ Len(Tail(in)) = Len(in) - 1
           /\ \A i \in 1 .. Len(Tail(in)) : Tail(in)[i] = in[i + 1] /\ i + 1 \in 2 .. Len(in)
<1>1. Len(in) \in Nat /\ Len(in) > 0 /\ Head(in) = in[1]
  OBVIOUS
<1>2. in[1] \in MsgRec /\ 1 \in 1 .. Len(in)
  BY <1>1, ElementOfSeq
<1>3. Tail(in) \in Seq(MsgRec) /\ Len(Tail(in)) = Len(in) - 1
  OBVIOUS
<1>4. ASSUME NEW i \in 1 .. Len(Tail(in)) PROVE Tail(in)[i] = in[i + 1] /\ i + 1 \in 2 .. Len(in)
  BY <1>1
<1> QED BY <1>1, <1>2, <1>3, <1>4

LEMMA InEntry ==
    ASSUME NEW in \in Seq(MsgRec), NEW i \in 1 .. Len(in)
    PROVE  /\ in[i] \in MsgRec /\ in[i].cid \in Nat /\ in[i].rev \in Nat /\ in[i].crev \in Nat
           /\ in[i].type \in {"login", "snapshot", "updates", "push", "eof"}
<1>1. in[i] \in MsgRec
  BY ElementOfSeq
<1> QED BY <1>1 DEF MsgRec

LEMMA OutEntry ==
    ASSUME NEW out \in Seq(RequestRec), NEW i \in 1 .. Len(out)
    PROVE  /\ out[i] \in RequestRec /\ out[i].cid \in Nat /\ out[i].rev \in Nat
           /\ out[i].type \in {"login", "snapshot", "updates"}
<1>1. out[i] \in RequestRec
  BY ElementOfSeq
<1> QED BY <1>1 DEF RequestRec

(* Every entry of Tail(in) is an entry of in, one place further.           *)
LEMMA TailEntry ==
    ASSUME NEW in \in Seq(MsgRec), in # <<>>, NEW i \in 1 .. Len(Tail(in))
    PROVE  /\ i + 1 \in 1 .. Len(in) /\ Tail(in)[i] = in[i + 1] /\ i + 1 # 1 /\ i \in Nat
           /\ i + 1 = Len(in) => i = Len(Tail(in))
  BY TailIs

LEMMA TurnsTail ==
    ASSUME NEW out \in Seq(RequestRec), NEW in \in Seq(MsgRec), NEW str, in # <<>>,
           Turns(out, in, str)
    PROVE  Turns(out, Tail(in), str)
<1> DEFINE t == Tail(in)
<1>1. ASSUME NEW i \in 1 .. Len(t)
      PROVE  /\ t[i].type \in {"login", "snapshot", "updates"} => i = 1
             /\ t[i].type = "eof" => i = Len(t) /\ str = Null
             /\ t[i].type # "eof" => out = <<>>
             /\ t[i].type \in {"login", "snapshot"} => str = Null
  BY TailEntry DEF Turns
<1>2. ASSUME NEW i \in 1 .. Len(t), t[i].type = "push" PROVE t[1].type \in {"updates", "push"}
  <2>1. 1 \in 1 .. Len(t)
    BY TailIs
  <2>2. t[1] = in[2] /\ 2 \in 1 .. Len(in) /\ t[1] \in MsgRec
    BY <2>1, TailEntry, TailIs, ElementOfSeq
  <2>3. CASE i = 1
    BY <1>2, <2>3
  <2>4. CASE i # 1
    <3>1. t[1].type # "eof"
      <4>1. 2 # Len(in)
        <5>1. Len(in) \in Nat /\ Len(t) = Len(in) - 1
          BY TailIs
        <5> HIDE DEF t
        <5> QED BY <2>4, <5>1
      <4> QED BY <2>2, <4>1 DEF Turns
    <3>2. t[1].type \notin {"login", "snapshot", "updates"}
      BY <2>2 DEF Turns
    <3> QED BY <2>2, <3>1, <3>2 DEF MsgRec
  <2> QED BY <2>3, <2>4
<1> QED BY <1>1, <1>2 DEF Turns

(* Behind the answer to a login or to a request for a snapshot there is    *)
(* nothing but the end.                                                    *)
LEMMA TurnsAlone ==
    ASSUME NEW out \in Seq(RequestRec), NEW in \in Seq(MsgRec), NEW str, in # <<>>,
           Turns(out, in, str), in[1].type \in {"login", "snapshot"}
    PROVE  /\ out = <<>> /\ str = Null
           /\ \A i \in 1 .. Len(Tail(in)) : Tail(in)[i].type = "eof"
<1>1. out = <<>> /\ str = Null
  BY TailIs DEF Turns
<1>2. ASSUME NEW i \in 1 .. Len(Tail(in)) PROVE Tail(in)[i].type = "eof"
  <2>1. Tail(in)[i] = in[i + 1] /\ i + 1 \in 1 .. Len(in) /\ i + 1 # 1 /\ in[i + 1] \in MsgRec
    BY TailEntry, ElementOfSeq
  <2>2. in[i + 1].type \notin {"login", "snapshot", "updates", "push"}
    BY <2>1 DEF Turns
  <2> QED BY <2>1, <2>2 DEF MsgRec
<1> QED BY <1>1, <1>2

LEMMA TurnsSend ==
    ASSUME NEW in \in Seq(MsgRec), NEW req \in RequestRec,
           \A i \in 1 .. Len(in) : in[i].type = "eof", Turns(<<>>, in, Null)
    PROVE  Turns(<<req>>, in, Null)
<1>1. Len(<<req>>) = 1
  OBVIOUS
<1> QED BY <1>1 DEF Turns

(* The server takes a request and answers it.                              *)
LEMMA TurnsAnswer ==
    ASSUME NEW out \in Seq(RequestRec), NEW in \in Seq(MsgRec), NEW str, NEW str2,
           NEW msg \in MsgRec,
           Turns(out, in, str), out # <<>>, \A i \in 1 .. Len(in) : in[i].type # "eof",
           msg.type \in {"login", "snapshot", "updates"}, str2 # Null => msg.type = "updates"
    PROVE  in = <<>> /\ Tail(out) = <<>> /\ str = Null /\ Turns(Tail(out), <<msg>>, str2)
<1>1. in = <<>>
  <2> SUFFICES ASSUME in # <<>> PROVE FALSE
    OBVIOUS
  <2> QED BY TailIs DEF Turns
<1>2. Tail(out) = <<>> /\ str = Null
  <2>1. Len(out) \in Nat /\ Len(out) # 0 /\ Len(out) <= 1
    BY EmptySeq, LenProperties DEF Turns
  <2>2. Tail(out) \in Seq(RequestRec) /\ Len(Tail(out)) = 0
    BY <2>1
  <2>3. Tail(out) = <<>>
    BY <2>2, EmptySeq
  <2>4. str = Null
    BY DEF Turns
  <2> QED BY <2>3, <2>4
<1>3. Len(<<msg>>) = 1 /\ <<msg>>[1] = msg /\ Len(<<>>) = 0
  OBVIOUS
<1>4. Turns(<<>>, <<msg>>, str2)
  BY <1>3 DEF Turns
<1> QED BY <1>1, <1>2, <1>4

LEMMA AppendIs ==
    ASSUME NEW in \in Seq(MsgRec), NEW msg \in MsgRec
    PROVE  /\ Append(in, msg) \in Seq(MsgRec) /\ Len(in) \in Nat
           /\ Len(Append(in, msg)) = Len(in) + 1 /\ Append(in, msg) # <<>>
           /\ Append(in, msg)[Len(in) + 1] = msg
           /\ \A i \in 1 .. Len(in) : Append(in, msg)[i] = in[i]
           /\ \A i \in 1 .. Len(Append(in, msg)) : i = Len(in) + 1 \/ i \in 1 .. Len(in)
<1> DEFINE a == Append(in, msg)
<1>1. a \in Seq(MsgRec) /\ Len(in) \in Nat /\ Len(a) = Len(in) + 1
  OBVIOUS
<1>2. a[Len(in) + 1] = msg /\ \A i \in 1 .. Len(in) : a[i] = in[i]
  BY <1>1
<1> HIDE DEF a
<1>3. a # <<>> /\ \A i \in 1 .. Len(a) : i = Len(in) + 1 \/ i \in 1 .. Len(in)
  BY <1>1
<1> QED BY <1>1, <1>2, <1>3 DEF a

LEMMA TurnsPush ==
    ASSUME NEW out \in Seq(RequestRec), NEW in \in Seq(MsgRec), NEW str, NEW str2,
           NEW msg \in MsgRec, msg.type = "push",
           Turns(out, in, str), str # Null, str2 # Null,
           \A i \in 1 .. Len(in) : in[i].type # "eof"
    PROVE  Turns(out, Append(in, msg), str2)
<1> DEFINE a == Append(in, msg)
<1>0. out = <<>> /\ Len(out) <= 1
  BY DEF Turns
<1>1. a[1].type \in {"updates", "push"}
  <2>1. CASE in = <<>>
    <3>1. Len(in) = 0
      BY <2>1
    <3> QED BY <3>1, AppendIs
  <2>2. CASE in # <<>>
    <3>1. 1 \in 1 .. Len(in) /\ in[1] \in MsgRec
      BY <2>2, TailIs
    <3>2. in[1].type \notin {"login", "snapshot", "eof"}
      BY <3>1 DEF Turns
    <3>3. a[1] = in[1]
      BY <3>1, AppendIs
    <3> QED BY <3>1, <3>2, <3>3 DEF MsgRec
  <2> QED BY <2>1, <2>2
<1>2. ASSUME NEW i \in 1 .. Len(a)
      PROVE  /\ a[i].type \in {"login", "snapshot", "updates"} => i = 1
             /\ a[i].type # "eof"
             /\ a[i].type \notin {"login", "snapshot"}
  <2>1. CASE i = Len(in) + 1
    BY <2>1, AppendIs
  <2>2. CASE i \in 1 .. Len(in)
    <3>1. a[i] = in[i]
      BY <2>2, AppendIs
    <3> QED BY <2>2, <3>1 DEF Turns
  <2> QED BY <2>1, <2>2, AppendIs
<1> QED BY <1>0, <1>1, <1>2 DEF Turns

(* The server closes: what it sent is cut somewhere and its end follows.   *)
Cut(in, n, msg) == SubSeq(in, 1, n) \o <<msg>>

LEMMA CutIs ==
    ASSUME NEW in \in Seq(MsgRec), NEW n \in 0 .. Len(in), NEW msg \in MsgRec
    PROVE  /\ Cut(in, n, msg) \in Seq(MsgRec) /\ n \in Nat /\ Len(Cut(in, n, msg)) = n + 1
           /\ Cut(in, n, msg)[n + 1] = msg
           /\ \A i \in 1 .. n : Cut(in, n, msg)[i] = in[i] /\ i \in 1 .. Len(in)
           /\ \A i \in 1 .. n + 1 : i = n + 1 \/ i \in 1 .. n
<1> DEFINE p == SubSeq(in, 1, n)  q == Append(p, msg)
<1>0. n \in Nat /\ Len(in) \in Nat
  BY LenProperties
<1>1. p \in Seq(MsgRec) /\ Len(p) = n /\ \A i \in 1 .. n : p[i] = in[i] /\ i \in 1 .. Len(in)
  <2>1. \A i \in 1 .. n : in[i] \in MsgRec /\ i \in 1 .. Len(in)
    BY <1>0, ElementOfSeq
  <2>2. /\ p \in Seq(MsgRec) /\ Len(p) = IF 1 <= n THEN n - 1 + 1 ELSE 0
        /\ \A i \in 1 .. n - 1 + 1 : p[i] = in[1 + i - 1]
    BY <1>0, <2>1, SubSeqProperties
  <2> QED BY <1>0, <2>1, <2>2
<1> HIDE DEF p
<1>2. Cut(in, n, msg) = q
  BY <1>1, AppendIsConcat DEF Cut, p
<1>3. /\ q \in Seq(MsgRec) /\ Len(q) = n + 1 /\ q[n + 1] = msg
      /\ \A i \in 1 .. n : q[i] = p[i]
  BY <1>1, AppendIs
<1> HIDE DEF q
<1>4. \A i \in 1 .. n + 1 : i = n + 1 \/ i \in 1 .. n
  BY <1>0
<1> QED BY <1>0, <1>1, <1>2, <1>3, <1>4

LEMMA TurnsCut ==
    ASSUME NEW out \in Seq(RequestRec), NEW in \in Seq(MsgRec), NEW str,
           NEW n \in 0 .. Len(in), NEW msg \in MsgRec, msg.type = "eof",
           Turns(out, in, str), \A i \in 1 .. Len(in) : in[i].type # "eof"
    PROVE  Turns(<<>>, Cut(in, n, msg), Null)
<1> DEFINE q == Cut(in, n, msg)
<1>1. /\ Len(q) = n + 1 /\ n \in Nat /\ q[n + 1] = msg
      /\ \A i \in 1 .. n : q[i] = in[i] /\ i \in 1 .. Len(in)
      /\ \A i \in 1 .. n + 1 : i = n + 1 \/ i \in 1 .. n
  BY CutIs
<1> HIDE DEF q
<1>2. ASSUME NEW i \in 1 .. n + 1
      PROVE  /\ q[i].type \in {"login", "snapshot", "updates"} => i = 1
             /\ q[i].type = "eof" => i = n + 1
             /\ q[i].type = "push" => q[1].type \in {"updates", "push"}
  <2>1. CASE i = n + 1
    BY <1>1, <2>1
  <2>2. CASE i \in 1 .. n
    <3>1. q[i] = in[i] /\ i \in 1 .. Len(in) /\ 1 \in 1 .. n
      BY <1>1, <2>2
    <3>2. q[1] = in[1]
      BY <1>1, <3>1
    <3> QED BY <3>1, <3>2 DEF Turns
  <2> QED BY <1>1, <2>1, <2>2
<1>3. Len(<<>>) <= 1
  OBVIOUS
<1> QED BY <1>1, <1>2, <1>3 DEF Turns, q

(* A message is consumed.                                                  *)
LEMMA OfRequestTail ==
    ASSUME NEW out, NEW in \in Seq(MsgRec), in # <<>>, NEW str, NEW cid,
           OfRequest(out, in, str, cid)
    PROVE  OfRequest(out, Tail(in), str, cid)
  BY TailEntry DEF OfRequest

LEMMA LoadingTail ==
    ASSUME NEW out, NEW in \in Seq(MsgRec), in # <<>>, NEW str, Loading(out, in, str)
    PROVE  Loading(out, Tail(in), str)
  BY TailEntry DEF Loading

LEMMA TailHead ==
    ASSUME NEW out, NEW in \in Seq(MsgRec), in # <<>>, NEW str, Turns(out, in, str),
           Tail(in) # <<>>
    PROVE  Tail(in)[1].type # "updates"
<1>1. Tail(in) \in Seq(MsgRec) /\ 1 \in 1 .. Len(Tail(in))
  BY TailIs
<1> QED BY <1>1, TailEntry DEF Turns

LEMMA FollowingTail ==
    ASSUME NEW out, NEW in \in Seq(MsgRec), in # <<>>, NEW str, Turns(out, in, str),
           NEW known, Following(out, in, known)
    PROVE  /\ Following(out, Tail(in), known)
           /\ in[1].type = "updates" => Following(out, Tail(in), in[1].crev)
<1> DEFINE t == Tail(in)
<1>1. ASSUME NEW i \in 1 .. Len(t)
      PROVE  t[i].type \in {"updates", "push", "eof"} /\ t[1].type # "updates"
  <2>1. t # <<>>
    <3>1. Len(<<>>) = 0
      OBVIOUS
    <3> HIDE DEF t
    <3> QED BY <3>1
  <2> QED BY <2>1, TailEntry, TailHead DEF Following
<1>2. ASSUME NEW i \in 1 .. Len(t), t[i].type = "push"
      PROVE  known <= t[i].crev /\ (in[1].type = "updates" => in[1].crev <= t[i].crev)
  BY <1>2, TailEntry DEF Following
<1> QED BY <1>1, <1>2 DEF Following

LEMMA NoGapTail ==
    ASSUME NEW out, NEW in \in Seq(MsgRec), in # <<>>, NEW str, Turns(out, in, str),
           NEW known, Following(out, in, known), NEW rev \in Nat, NoGap(out, in, str, rev)
    PROVE  IF in[1].type = "push" THEN in[1].rev = rev + 1 /\ NoGap(out, Tail(in), str, rev + 1)
           ELSE NoGap(out, Tail(in), str, rev)
<1> DEFINE t == Tail(in)  next == IF in[1].type = "push" THEN rev + 1 ELSE rev
<1>0. /\ Len(in) \in Nat /\ Len(t) \in Nat /\ Len(in) = Len(t) + 1 /\ 1 \in 1 .. Len(in)
      /\ (t = <<>> <=> Len(t) = 0) /\ in[1].type \in {"updates", "push", "eof"}
  <2>1. t \in Seq(MsgRec) /\ Len(in) \in Nat /\ Len(t) = Len(in) - 1 /\ 1 \in 1 .. Len(in)
    BY TailIs
  <2>2. in[1].type \in {"updates", "push", "eof"}
    BY <2>1 DEF Following
  <2> HIDE DEF t
  <2>3. Len(t) \in Nat /\ (t = <<>> <=> Len(t) = 0)
    BY <2>1, EmptySeq, LenProperties, SMTT(30)
  <2> QED BY <2>1, <2>2, <2>3
<1>1. in[1].type = "eof" => Len(t) = 0 /\ str = Null
  <2>1. in[1].type = "eof" => 1 = Len(in) /\ str = Null
    BY <1>0 DEF Turns
  <2> HIDE DEF t
  <2> QED BY <1>0, <2>1, SMTT(30)
<1>2. next \in Nat /\ Base(t, next) = next
  BY TailHead, SMTT(30) DEF Base
<1>3. Base(in, rev) \in Int /\ (in[1].type # "eof" => Base(in, rev) + 1 = next)
  BY <1>0 DEF Base
<1>4. in[1].type # "eof" => out = <<>>
  BY <1>0 DEF Turns
<1>5. \A i \in 1 .. Len(out) : out[i].rev = next
  <2>1. CASE in[1].type = "eof"
    BY <2>1 DEF NoGap
  <2>2. CASE in[1].type # "eof"
    BY <1>4, <2>2
  <2> QED BY <2>1, <2>2
<1>6. ASSUME NEW i \in 1 .. Len(t), t[i].type = "push" PROVE t[i].rev = next + i
  <2>1. in[1].type # "eof"
    <3>1. Len(t) # 0
      <4> HIDE DEF t
      <4> QED BY <1>0
    <3> QED BY <1>1, <3>1
  <2>2. i + 1 \in 1 .. Len(in) /\ t[i] = in[i + 1] /\ i \in Nat
    BY TailEntry
  <2>3. t[i].rev = Base(in, rev) + (i + 1)
    BY <1>6, <2>2 DEF NoGap
  <2> HIDE DEF t, next
  <2> DEFINE b == Base(in, rev)
  <2>4. b \in Int /\ b + 1 = next /\ i \in Int
    BY <1>3, <2>1, <2>2
  <2> HIDE DEF b
  <2>5. b + (i + 1) = next + i
    BY <2>4
  <2> QED BY <2>3, <2>5 DEF b
<1>7. ASSUME str # Null PROVE str.rev = next + Len(t)
  <2>1. in[1].type # "eof"
    BY <1>1, <1>7
  <2>2. str.rev = Base(in, rev) + Len(in)
    BY <1>7 DEF NoGap
  <2> HIDE DEF t, next
  <2> QED BY <1>0, <1>2, <1>3, <2>1, <2>2
<1>8. NoGap(out, t, str, next)
  BY <1>2, <1>5, <1>6, <1>7 DEF NoGap
<1>9. in[1].type = "push" => in[1].rev = rev + 1
  BY <1>0 DEF NoGap, Base
<1> QED BY <1>8, <1>9

(* An update is pushed.                                                    *)
LEMMA OfRequestPush ==
    ASSUME NEW out, NEW in \in Seq(MsgRec), NEW str, NEW str2, NEW cid, NEW msg \in MsgRec,
           OfRequest(out, in, str, cid), msg.cid = cid, str2.cid = cid
    PROVE  OfRequest(out, Append(in, msg), str2, cid)
  BY AppendIs DEF OfRequest

LEMMA FollowingPush ==
    ASSUME NEW out, NEW in \in Seq(MsgRec), NEW known, NEW msg \in MsgRec, msg.type = "push",
           Following(out, in, known), known <= msg.crev,
           \A i \in 1 .. Len(in) : in[i].crev <= msg.crev
    PROVE  Following(out, Append(in, msg), known)
<1> DEFINE a == Append(in, msg)
<1>1. /\ Len(a) = Len(in) + 1 /\ a[Len(in) + 1] = msg /\ Len(in) \in Nat
      /\ \A i \in 1 .. Len(in) : a[i] = in[i]
      /\ \A i \in 1 .. Len(a) : i = Len(in) + 1 \/ i \in 1 .. Len(in)
  BY AppendIs
<1> HIDE DEF a
<1>2. ASSUME NEW i \in 1 .. Len(a), a[i].type = "push"
      PROVE  known <= a[i].crev /\ (a[1].type = "updates" => a[1].crev <= a[i].crev)
  <2>1. CASE i = Len(in) + 1
    <3>1. a[1].type = "updates" => 1 \in 1 .. Len(in)
      BY <1>1
    <3> QED BY <1>1, <2>1, <3>1
  <2>2. CASE i \in 1 .. Len(in)
    <3>1. 1 \in 1 .. Len(in)
      BY <2>2
    <3> QED BY <1>1, <1>2, <2>2, <3>1 DEF Following
  <2> QED BY <1>1, <2>1, <2>2
<1>3. \A i \in 1 .. Len(a) : a[i].type \in {"updates", "push", "eof"}
  BY <1>1 DEF Following
<1> QED BY <1>2, <1>3 DEF Following, a

LEMMA NoGapPush ==
    ASSUME NEW out, NEW in \in Seq(MsgRec), NEW str, NEW str2, NEW rev \in Nat,
           NEW msg \in MsgRec, msg.type = "push", NoGap(out, in, str, rev), str # Null,
           msg.rev = str.rev + 1, str2.rev = str.rev + 1
    PROVE  NoGap(out, Append(in, msg), str2, rev)
<1> DEFINE a == Append(in, msg)
<1>1. /\ Len(a) = Len(in) + 1 /\ a[Len(in) + 1] = msg /\ Len(in) \in Nat /\ a # <<>>
      /\ \A i \in 1 .. Len(in) : a[i] = in[i]
      /\ \A i \in 1 .. Len(a) : i = Len(in) + 1 \/ i \in 1 .. Len(in)
  BY AppendIs
<1> HIDE DEF a
<1>2. Base(a, rev) = Base(in, rev) /\ Base(in, rev) \in Int
  <2>1. CASE in = <<>>
    <3>1. Len(in) = 0
      BY <2>1
    <3> QED BY <1>1, <2>1, <3>1 DEF Base
  <2>2. CASE in # <<>>
    BY <1>1, <2>2, TailIs DEF Base
  <2> QED BY <2>1, <2>2
<1>3. str.rev = Base(in, rev) + Len(in)
  BY DEF NoGap
<1>4. msg.rev = Base(a, rev) + (Len(in) + 1) /\ str2.rev = Base(a, rev) + Len(a)
  BY <1>1, <1>2, <1>3
<1>5. ASSUME NEW i \in 1 .. Len(a), a[i].type = "push" PROVE a[i].rev = Base(a, rev) + i
  <2>1. CASE i = Len(in) + 1
    BY <1>1, <1>4, <2>1
  <2>2. CASE i \in 1 .. Len(in)
    BY <1>1, <1>2, <1>5, <2>2 DEF NoGap
  <2> QED BY <1>1, <2>1, <2>2
<1> QED BY <1>4, <1>5 DEF NoGap, a

(* The server closes.                                                      *)
LEMMA SessionCut ==
    ASSUME NEW out, NEW in \in Seq(MsgRec), NEW str, NEW n \in 0 .. Len(in),
           NEW msg \in MsgRec, msg.type = "eof"
    PROVE  /\ \A cid : OfRequest(out, in, str, cid) => OfRequest(<<>>, Cut(in, n, msg), Null, cid)
           /\ Loading(out, in, str) => Loading(<<>>, Cut(in, n, msg), Null)
           /\ \A known : Following(out, in, known) => Following(<<>>, Cut(in, n, msg), known)
           /\ \A rev : NoGap(out, in, str, rev) => NoGap(<<>>, Cut(in, n, msg), Null, rev)
<1> DEFINE q == Cut(in, n, msg)
<1>1. /\ Len(q) = n + 1 /\ n \in Nat /\ q[n + 1] = msg /\ q # <<>>
      /\ \A i \in 1 .. n : q[i] = in[i] /\ i \in 1 .. Len(in)
      /\ \A i \in 1 .. n + 1 : i = n + 1 \/ i \in 1 .. n
  BY CutIs
<1> HIDE DEF q
<1>2. \A i \in 1 .. Len(q) : q[i].type # "eof" =>
            q[i] = in[i] /\ i \in 1 .. Len(in) /\ q[1] = in[1] /\ in # <<>>
  <2> SUFFICES ASSUME NEW i \in 1 .. n + 1, q[i].type # "eof"
               PROVE  q[i] = in[i] /\ i \in 1 .. Len(in) /\ q[1] = in[1] /\ in # <<>>
    BY <1>1
  <2>1. i \in 1 .. n
    BY <1>1
  <2>2. 1 \in 1 .. n
    BY <1>1, <2>1
  <2> QED BY <1>1, <2>1, <2>2
<1>3. Len(<<>>) = 0
  OBVIOUS
<1>4. ASSUME NEW cid, OfRequest(out, in, str, cid) PROVE OfRequest(<<>>, q, Null, cid)
  BY <1>2, <1>3, <1>4 DEF OfRequest
<1>5. ASSUME Loading(out, in, str) PROVE Loading(<<>>, q, Null)
  BY <1>2, <1>3, <1>5 DEF Loading
<1>6. ASSUME NEW known, Following(out, in, known) PROVE Following(<<>>, q, known)
  BY <1>2, <1>3, <1>6 DEF Following
<1>7. ASSUME NEW rev, NoGap(out, in, str, rev) PROVE NoGap(<<>>, q, Null, rev)
  <2>1. ASSUME NEW i \in 1 .. Len(q), q[i].type = "push" PROVE q[i].rev = Base(q, rev) + i
    <3>1. q[i] = in[i] /\ i \in 1 .. Len(in) /\ q[1] = in[1] /\ in # <<>>
      BY <1>2, <2>1
    <3>2. Base(q, rev) = Base(in, rev)
      BY <1>1, <3>1 DEF Base
    <3> QED BY <1>7, <2>1, <3>1, <3>2 DEF NoGap
  <2> QED BY <1>3, <2>1 DEF NoGap
<1> QED BY <1>4, <1>5, <1>6, <1>7 DEF q

-----------------------------------------------------------------------------
(* What the steps do to the network and to the session with m_con, one     *)
(* kind of step at a time.                                                 *)
NetInv ==
    /\ NetworkOK /\ m_rev \in Nat /\ told \in Nat /\ Known /\ TurnsOK
    /\ Session /\ SyncedCaughtUp
    /\ Populates => Gapless

LEMMA Facts ==
    ASSUME IInv
    PROVE  /\ TypeOK /\ NetInv
           /\ crev \in Nat /\ m_correlation \in Nat /\ faults \in Nat /\ OldestRev \in Nat
           /\ OldestRev <= crev /\ m_rev0 \in Nat
           /\ m_con \in Connection \cup {Null} /\ Null \notin Connection
           /\ \A c \in Connection :
                /\ outbox[c] \in Seq(RequestRec) /\ inbox[c] \in Seq(MsgRec)
                /\ stream[c] \in StreamRec \cup {Null}
                /\ Turns(outbox[c], inbox[c], stream[c])
<1>1. TypeOK /\ NetworkOK /\ TurnsOK
  BY DEF IInv
<1>2. crev \in Nat /\ m_rev \in Nat /\ told \in Nat /\ faults \in Nat /\ OldestRev <= crev
  BY <1>1, ClientAssumption DEF TypeOK
<1>3. NetInv
  BY <1>2 DEF IInv, NetInv
<1>4. ASSUME NEW c \in Connection
      PROVE  /\ outbox[c] \in Seq(RequestRec) /\ inbox[c] \in Seq(MsgRec)
             /\ stream[c] \in StreamRec \cup {Null}
             /\ Turns(outbox[c], inbox[c], stream[c])
  BY <1>1 DEF NetworkOK, TurnsOK
<1> QED BY <1>1, <1>2, <1>3, <1>4, ClientAssumption DEF TypeOK

(* The steps that send and receive nothing; at most the session ends.      *)
Quiet ==
    /\ UNCHANGED <<outbox, inbox, stream, crev, told, m_rev, m_initialized>>
    /\ \/ m_con' = Null /\ m_state' = "CLOSED"
       \/ UNCHANGED <<m_con, m_state, m_data_cid>>
    /\ \A c \in Connection : con'[c] = "CONNECTING" => con[c] = "CONNECTING"
    /\ died' \in {died, "connect"}

LEMMA QuietNet ==
    ASSUME IInv, Quiet
    PROVE  NetInv'
<1>0. NetInv
  BY Facts
<1>1. NetworkOK' /\ m_rev' \in Nat /\ told' \in Nat /\ Known'
  BY <1>0 DEF Quiet, NetInv, NetworkOK, Known
<1>2. TurnsOK'
  BY <1>0 DEF Quiet, NetInv, TurnsOK
<1>3. Session' /\ SyncedCaughtUp'
  BY <1>0 DEF Quiet, NetInv, Session, SyncedCaughtUp
<1>4. Populates => Gapless'
  BY <1>0 DEF Quiet, NetInv, Gapless
<1> QED BY <1>1, <1>2, <1>3, <1>4 DEF NetInv, Populates

LEMMA QuietSteps ==
    ASSUME IInv,
           \/ \E c \in Connection : ConnectFail(c)
           \/ TimerConLost \/ TimerReconnect \/ CloseCmd \/ RunClosing \/ RunEnds
           \/ UNCHANGED vars
    PROVE  Quiet
<1>0. TypeOK
  BY Facts
<1>1. ASSUME NEW c \in Connection, ConnectFail(c) PROVE Quiet
  BY <1>1 DEF ConnectFail, Quiet, client, network
<1>2. CASE TimerConLost
  BY <1>2 DEF TimerConLost, Quiet, network
<1>3. CASE TimerReconnect
  BY <1>0, <1>3 DEF TimerReconnect, Quiet, network, TypeOK
<1>4. CASE CloseCmd
  BY <1>4 DEF CloseCmd, Abort, Quiet, network
<1>5. CASE RunClosing
  BY <1>5 DEF RunClosing, Quiet, client, network
<1>6. CASE RunEnds
  <2>1. \A c \in Connection : con'[c] \in {con[c], "CLOSED"}
    BY <1>6 DEF RunEnds
  <2> QED BY <1>6, <2>1 DEF RunEnds, Quiet, network
<1>7. CASE UNCHANGED vars
  BY <1>7 DEF vars, conns, client, network, Quiet
<1> QED BY <1>1, <1>2, <1>3, <1>4, <1>5, <1>6, <1>7

(* on_connection_closed() for m_con, when it connects again.               *)
Reconnect(c) ==
    /\ c = m_con /\ m_con' = Null /\ TryToConnect(NowClosed(c))
    /\ UNCHANGED <<closing, m_initialized, m_correlation, loop, m_rev, crev, told>>

LEMMA CloseCallbackIs ==
    ASSUME IInv, CloseCallback
    PROVE  Quiet \/ Reconnect(Head(running))
<1> DEFINE c == Head(running)
<1>0. TypeOK /\ running # <<>>
  BY Facts DEF CloseCallback
<1>1. c \in Connection
  BY <1>0 DEF TypeOK
<1>2. UNCHANGED <<crev, faults, told>> /\ (ClosedUnused(c) \/ ClosedLast(c) \/ ClosedCurrent(c))
  BY DEF CloseCallback
<1> HIDE DEF c
<1>3. \A d \in Connection : NowClosed(c)[d] = "CONNECTING" => con[d] = "CONNECTING"
  BY <1>0, <1>1 DEF NowClosed, TypeOK
<1>4. CASE ClosedUnused(c)
  BY <1>2, <1>3, <1>4 DEF ClosedUnused, Quiet, client, network
<1>5. CASE ClosedLast(c)
  BY <1>2, <1>3, <1>5 DEF ClosedLast, Abort, Quiet, network
<1>6. CASE ClosedCurrent(c)
  <2>1. CASE con' = NowClosed(c) /\ Abort /\ UNCHANGED network
    BY <1>2, <1>3, <1>6, <2>1 DEF ClosedCurrent, Abort, Quiet, network
  <2>2. CASE /\ m_con' = Null /\ m_data_cid' = 0 /\ m_timer_con_lost' = FALSE
             /\ TryToConnect(NowClosed(c))
             /\ UNCHANGED <<closing, m_initialized, m_correlation, loop>>
    <3>1. c = m_con /\ UNCHANGED m_rev
      BY <1>6, Zenon DEF ClosedCurrent
    <3>2. UNCHANGED <<closing, m_initialized, m_correlation, loop, m_rev, crev, told>>
      BY <1>2, <2>2, <3>1
    <3>3. Reconnect(c)
      BY <2>2, <3>1, <3>2, Zenon DEF Reconnect
    <3> QED BY <3>3 DEF c
  <2> QED BY <1>6, <2>1, <2>2 DEF ClosedCurrent
<1> QED BY <1>2, <1>4, <1>5, <1>6 DEF c

LEMMA ReconnectNet ==
    ASSUME IInv, NEW c \in Connection, Reconnect(c)
    PROVE  NetInv'
<1> DEFINE cs == Connectable(NowClosed(c))
<1>0. NetInv /\ TypeOK
  BY Facts
<1>1. \A d \in Connection :
        IF d \in cs
        THEN con'[d] = "CONNECTING" /\ outbox'[d] = <<>> /\ inbox'[d] = <<>> /\ stream'[d] = Null
        ELSE /\ con'[d] = NowClosed(c)[d] /\ outbox'[d] = outbox[d]
             /\ inbox'[d] = inbox[d] /\ stream'[d] = stream[d]
  BY DEF Reconnect, TryToConnect
<1>2. /\ m_con' = Null /\ m_state' = "CONNECTING" /\ died' \in {died, "connect"}
      /\ UNCHANGED <<m_initialized, m_rev, crev, told>>
  BY DEF Reconnect, TryToConnect
<1>3. DOMAIN outbox' = Connection /\ DOMAIN inbox' = Connection /\ DOMAIN stream' = Connection
      /\ outbox' = [d \in Connection |-> outbox'[d]] /\ inbox' = [d \in Connection |-> inbox'[d]]
      /\ stream' = [d \in Connection |-> stream'[d]]
  BY DEF Reconnect, TryToConnect
<1> HIDE DEF cs
<1>4. \A d \in Connection : NowClosed(c)[d] = "CONNECTING" => con[d] = "CONNECTING"
  BY <1>0 DEF NowClosed, TypeOK
<1>5. NetworkOK'
  <2>1. \A d \in Connection : outbox'[d] \in Seq(RequestRec) /\ inbox'[d] \in Seq(MsgRec)
                              /\ stream'[d] \in StreamRec \cup {Null}
    BY <1>1, Facts, EmptySeq
  <2> QED BY <1>3, <2>1 DEF NetworkOK
<1>6. m_rev' \in Nat /\ told' \in Nat
  BY <1>0, <1>2 DEF NetInv
<1>a. Len(<<>>) = 0
  OBVIOUS
<1>7. Known'
  BY <1>0, <1>1, <1>2, <1>a DEF NetInv, Known
<1>8. TurnsOK'
  <2>1. Turns(<<>>, <<>>, Null)
    BY <1>a DEF Turns
  <2>2. ASSUME NEW d \in Connection
        PROVE  /\ Turns(outbox'[d], inbox'[d], stream'[d])
               /\ con'[d] = "CONNECTING" =>
                    outbox'[d] = <<>> /\ inbox'[d] = <<>> /\ stream'[d] = Null
    BY <1>0, <1>1, <1>4, <2>1 DEF NetInv, TurnsOK
  <2> QED BY <2>2 DEF TurnsOK
<1>9. Session' /\ SyncedCaughtUp'
  BY <1>2 DEF Session, SyncedCaughtUp
<1>10. Populates => Gapless'
  BY <1>0, <1>1, <1>2, <1>a DEF NetInv, Gapless, Served
<1> QED BY <1>5, <1>6, <1>7, <1>8, <1>9, <1>10 DEF NetInv, Populates

LEMMA CommitNet ==
    ASSUME IInv, ServerCommit
    PROVE  NetInv'
<1>0. NetInv /\ crev \in Nat
  BY Facts
<1>1. UNCHANGED <<outbox, inbox, stream, con, client, told>> /\ crev' = crev + 1
  BY DEF ServerCommit, network
<1>2. Known'
  <2>1. m_rev' <= crev' /\ told' <= crev'
    BY <1>0, <1>1 DEF NetInv, Known, client
  <2>2. ASSUME NEW c \in Connection
        PROVE  /\ \A i \in 1 .. Len(outbox[c]) : outbox[c][i].rev <= crev + 1
               /\ \A i \in 1 .. Len(inbox[c]) :
                    inbox[c][i].rev <= crev + 1 /\ inbox[c][i].crev <= crev + 1
               /\ stream[c] # Null => stream[c].rev <= crev + 1
    <3>1. \A i \in 1 .. Len(outbox[c]) : outbox[c][i].rev \in Nat
      BY Facts, OutEntry
    <3>2. \A i \in 1 .. Len(inbox[c]) : inbox[c][i].rev \in Nat /\ inbox[c][i].crev \in Nat
      BY Facts, InEntry
    <3>3. stream[c] # Null => stream[c].rev \in Nat
      BY Facts DEF StreamRec
    <3> QED BY <1>0, <3>1, <3>2, <3>3 DEF NetInv, Known
  <2> QED BY <1>1, <2>1, <2>2 DEF Known
<1>3. NetworkOK' /\ m_rev' \in Nat /\ told' \in Nat /\ TurnsOK' /\ Session' /\ SyncedCaughtUp'
  BY <1>0, <1>1 DEF NetInv, NetworkOK, TurnsOK, Session, SyncedCaughtUp, client
<1>4. Populates => Gapless'
  BY <1>0, <1>1 DEF NetInv, Gapless, client
<1> QED BY <1>2, <1>3, <1>4 DEF NetInv, Populates

-----------------------------------------------------------------------------
(* The steps that change the queues of one connection.                     *)
KnownIn(out, in, str, rev) ==
    /\ \A i \in 1 .. Len(out) : out[i].rev <= rev
    /\ \A i \in 1 .. Len(in) : in[i].rev <= rev /\ in[i].crev <= rev
    /\ str # Null => str.rev <= rev

Line(c, out, in, str) ==
    /\ outbox' = [outbox EXCEPT ![c] = out]
    /\ inbox' = [inbox EXCEPT ![c] = in]
    /\ stream' = [stream EXCEPT ![c] = str]

LEMMA LineIs ==
    ASSUME IInv, NEW c \in Connection, NEW out, NEW in, NEW str, Line(c, out, in, str)
    PROVE  /\ outbox'[c] = out /\ inbox'[c] = in /\ stream'[c] = str
           /\ \A d \in Connection \ {c} :
                outbox'[d] = outbox[d] /\ inbox'[d] = inbox[d] /\ stream'[d] = stream[d]
<1>1. NetworkOK
  BY DEF IInv
<1> QED BY <1>1 DEF Line, NetworkOK

LEMMA LineNet ==
    ASSUME IInv, NEW c \in Connection, NEW out \in Seq(RequestRec), NEW in \in Seq(MsgRec),
           NEW str \in StreamRec \cup {Null}, Line(c, out, in, str),
           \A d \in Connection : con'[d] = "CONNECTING" => con[d] = "CONNECTING" /\ d # c,
           crev' = crev, m_rev' \in Nat, told' \in Nat, m_rev' <= crev, told' <= crev,
           Turns(out, in, str), KnownIn(out, in, str, crev)
    PROVE  NetworkOK' /\ Known' /\ TurnsOK'
<1>0. NetworkOK /\ Known /\ TurnsOK
  BY DEF IInv
<1>1. NetworkOK'
  BY <1>0 DEF Line, NetworkOK
<1>2. /\ outbox'[c] = out /\ inbox'[c] = in /\ stream'[c] = str
      /\ \A d \in Connection \ {c} :
            outbox'[d] = outbox[d] /\ inbox'[d] = inbox[d] /\ stream'[d] = stream[d]
  BY LineIs
<1>3. ASSUME NEW d \in Connection
      PROVE  /\ \A i \in 1 .. Len(outbox'[d]) : outbox'[d][i].rev <= crev
             /\ \A i \in 1 .. Len(inbox'[d]) :
                    inbox'[d][i].rev <= crev /\ inbox'[d][i].crev <= crev
             /\ stream'[d] # Null => stream'[d].rev <= crev
  <2>1. CASE d = c
    BY <1>2, <2>1 DEF KnownIn
  <2>2. CASE d # c
    BY <1>0, <1>2, <2>2 DEF Known
  <2> QED BY <2>1, <2>2
<1>4. Known'
  BY <1>3 DEF Known
<1>5. TurnsOK'
  <2>1. ASSUME NEW d \in Connection
        PROVE  /\ Turns(outbox'[d], inbox'[d], stream'[d])
               /\ con'[d] = "CONNECTING" =>
                    outbox'[d] = <<>> /\ inbox'[d] = <<>> /\ stream'[d] = Null
    <3>1. CASE d = c
      BY <1>2, <3>1
    <3>2. CASE d # c
      BY <1>0, <1>2, <3>2 DEF TurnsOK
    <3> QED BY <3>1, <3>2
  <2> QED BY <2>1 DEF TurnsOK
<1> QED BY <1>1, <1>4, <1>5

(* A step on the connection c that leaves the client as it is.             *)
LEMMA ServerNet ==
    ASSUME IInv, NEW c \in Connection, NEW out \in Seq(RequestRec), NEW in \in Seq(MsgRec),
           NEW str \in StreamRec \cup {Null}, Line(c, out, in, str),
           UNCHANGED <<con, client, crev, told>>, con[c] = "CONNECTED",
           Turns(out, in, str), KnownIn(out, in, str, crev),
           OfRequest(outbox[c], inbox[c], stream[c], m_data_cid)
                => OfRequest(out, in, str, m_data_cid),
           Loading(outbox[c], inbox[c], stream[c]) => Loading(out, in, str),
           Following(outbox[c], inbox[c], told) => Following(out, in, told),
           Populates /\ Served(inbox[c]) => Served(in),
           Populates /\ m_con = c /\ m_rev > 0 /\ Following(outbox[c], inbox[c], told)
                /\ NoGap(outbox[c], inbox[c], stream[c], m_rev) => NoGap(out, in, str, m_rev)
    PROVE  NetInv'
<1>0. NetInv
  BY Facts
<1>1. /\ outbox'[c] = out /\ inbox'[c] = in /\ stream'[c] = str
      /\ \A d \in Connection \ {c} :
            outbox'[d] = outbox[d] /\ inbox'[d] = inbox[d] /\ stream'[d] = stream[d]
  BY LineIs
<1>2. UNCHANGED <<m_con, m_state, m_data_cid, m_initialized, m_rev, died>>
  BY DEF client
<1>3. m_rev' \in Nat /\ told' \in Nat /\ m_rev' <= crev /\ told' <= crev
  BY <1>0, <1>2 DEF NetInv, Known
<1>4. NetworkOK' /\ Known' /\ TurnsOK'
  BY <1>3, LineNet
<1>5. m_con # Null => m_con \in Connection
  BY Facts
<1>6. Session'
  <2>1. CASE m_con = c
    BY <1>0, <1>1, <1>2, <2>1 DEF NetInv, Session
  <2>2. CASE m_con # c
    BY <1>0, <1>1, <1>2, <1>5, <2>2 DEF NetInv, Session
  <2> QED BY <2>1, <2>2
<1>7. SyncedCaughtUp'
  BY <1>0, <1>2 DEF NetInv, SyncedCaughtUp
<1>8. ASSUME Populates PROVE Gapless'
  <2>0. Gapless
    BY <1>0, <1>8 DEF NetInv
  <2>1. \A d \in Connection : Served(inbox'[d])
    BY <1>1, <1>8, <2>0 DEF Gapless
  <2>2. ASSUME m_con # Null, m_state # "LOADING_SNAPSHOT"
        PROVE  m_initialized /\ NoGap(outbox'[m_con], inbox'[m_con], stream'[m_con], m_rev)
    <3>1. m_initialized /\ m_rev > 0 /\ NoGap(outbox[m_con], inbox[m_con], stream[m_con], m_rev)
      BY <2>0, <2>2 DEF Gapless
    <3>2. CASE m_con = c
      <4>1. Following(outbox[c], inbox[c], told)
        BY <1>0, <2>2, <3>2 DEF NetInv, Session
      <4> QED BY <1>1, <1>8, <3>1, <3>2, <4>1
    <3>3. CASE m_con # c
      BY <1>1, <1>5, <2>2, <3>1, <3>3
    <3> QED BY <3>2, <3>3
  <2> QED BY <1>2, <2>0, <2>1, <2>2 DEF Gapless
<1> QED BY <1>3, <1>4, <1>6, <1>7, <1>8 DEF NetInv, Populates

(* A connection that is open carries no end.                               *)
LEMMA OpenIs ==
    ASSUME IInv, NEW c \in Connection, Open(c)
    PROVE  con[c] = "CONNECTED" /\ \A i \in 1 .. Len(inbox[c]) : inbox[c][i].type # "eof"
<1>1. inbox[c] \in Seq(MsgRec)
  BY Facts
<1>2. \A i \in 1 .. Len(inbox[c]) : inbox[c][i] \in Range(inbox[c])
  BY <1>1, RangeOf
<1> QED BY <1>2 DEF Open

LEMMA CloseNet ==
    ASSUME IInv, NEW c \in Connection, ServerClose(c)
    PROVE  NetInv'
<1> DEFINE eof == Msg("eof", 0, FALSE, 0, 0)
<1>1. PICK n \in 0 .. Len(inbox[c]) :
            inbox' = [inbox EXCEPT ![c] = SubSeq(inbox[c], 1, n) \o <<eof>>]
  BY DEF ServerClose
<1>2. /\ outbox' = [outbox EXCEPT ![c] = <<>>] /\ stream' = [stream EXCEPT ![c] = Null]
      /\ UNCHANGED <<con, client, crev, told>> /\ Open(c)
  BY DEF ServerClose
<1>3. con[c] = "CONNECTED" /\ \A i \in 1 .. Len(inbox[c]) : inbox[c][i].type # "eof"
  BY <1>2, OpenIs
<1>4. eof \in MsgRec /\ eof.type = "eof" /\ eof.rev = 0 /\ eof.crev = 0 /\ eof.ok = FALSE
  BY DEF Msg, MsgRec
<1> HIDE DEF eof
<1> DEFINE in == Cut(inbox[c], n, eof)
<1>0. /\ outbox[c] \in Seq(RequestRec) /\ inbox[c] \in Seq(MsgRec)
      /\ Turns(outbox[c], inbox[c], stream[c]) /\ crev \in Nat /\ NetInv
  BY Facts
<1>5. Line(c, <<>>, in, Null)
  BY <1>1, <1>2 DEF Line, Cut
<1>6. /\ in \in Seq(MsgRec) /\ Len(in) = n + 1 /\ in[n + 1] = eof
      /\ \A i \in 1 .. n : in[i] = inbox[c][i] /\ i \in 1 .. Len(inbox[c])
      /\ \A i \in 1 .. n + 1 : i = n + 1 \/ i \in 1 .. n
  <2>1. inbox[c] \in Seq(MsgRec) /\ eof \in MsgRec
    BY <1>0, <1>4
  <2>2. in \in Seq(MsgRec) /\ Len(in) = n + 1 /\ in[n + 1] = eof
    BY <2>1, CutIs
  <2>3. \A i \in 1 .. n : in[i] = inbox[c][i] /\ i \in 1 .. Len(inbox[c])
    BY <2>1, CutIs
  <2>4. \A i \in 1 .. n + 1 : i = n + 1 \/ i \in 1 .. n
    BY <2>1, LenProperties
  <2> QED BY <2>2, <2>3, <2>4
<1>7. Turns(<<>>, in, Null)
  BY <1>0, <1>3, <1>4, TurnsCut
<1>8. /\ OfRequest(outbox[c], inbox[c], stream[c], m_data_cid)
            => OfRequest(<<>>, in, Null, m_data_cid)
      /\ Loading(outbox[c], inbox[c], stream[c]) => Loading(<<>>, in, Null)
      /\ Following(outbox[c], inbox[c], told) => Following(<<>>, in, told)
      /\ NoGap(outbox[c], inbox[c], stream[c], m_rev) => NoGap(<<>>, in, Null, m_rev)
  BY <1>0, <1>4, SessionCut
<1> HIDE DEF in
<1>9. KnownIn(<<>>, in, Null, crev)
  <2>1. Len(<<>>) = 0
    OBVIOUS
  <2>2. \A i \in 1 .. Len(inbox[c]) : inbox[c][i].rev <= crev /\ inbox[c][i].crev <= crev
    BY <1>0 DEF NetInv, Known
  <2>3. ASSUME NEW i \in 1 .. Len(in) PROVE in[i].rev <= crev /\ in[i].crev <= crev
    BY <1>0, <1>4, <1>6, <2>2, SMTT(30)
  <2> QED BY <2>1, <2>3 DEF KnownIn
<1>10. Served(inbox[c]) => Served(in)
  BY <1>4, <1>6 DEF Served
<1>11. <<>> \in Seq(RequestRec) /\ Null \in StreamRec \cup {Null}
  BY EmptySeq
<1> QED BY <1>2, <1>3, <1>5, <1>6, <1>7, <1>8, <1>9, <1>10, <1>11, ServerNet

LEMMA PushNet ==
    ASSUME IInv, NEW c \in Connection, ServerPush(c)
    PROVE  NetInv'
<1> DEFINE str == stream[c]
           str2 == [str EXCEPT !.rev = @ + 1]
           msg == Msg("push", str.cid, TRUE, str.rev + 1, crev)
           in == Append(inbox[c], msg)
<1>0. /\ outbox[c] \in Seq(RequestRec) /\ inbox[c] \in Seq(MsgRec)
      /\ str \in StreamRec \cup {Null}
      /\ Turns(outbox[c], inbox[c], str) /\ crev \in Nat /\ NetInv
  BY Facts
<1>1. /\ Open(c) /\ str # Null /\ str.rev < crev
      /\ UNCHANGED <<con, client, crev, told>>
  BY DEF ServerPush
<1>2. Line(c, outbox[c], in, str2)
  <2>1. outbox' = outbox
    BY DEF ServerPush
  <2>2. outbox \in [Connection -> Seq(RequestRec)] /\ stream \in [Connection -> StreamRec \cup {Null}]
    BY DEF IInv, NetworkOK
  <2>3. outbox' = [outbox EXCEPT ![c] = outbox[c]]
    BY <2>1, <2>2
  <2>4. stream' = [stream EXCEPT ![c] = str2]
    BY <2>2 DEF ServerPush
  <2> QED BY <2>3, <2>4 DEF ServerPush, Line
<1>3. con[c] = "CONNECTED" /\ \A i \in 1 .. Len(inbox[c]) : inbox[c][i].type # "eof"
  BY <1>1, OpenIs
<1>4. str \in StreamRec /\ str.rev \in Nat /\ str.cid \in Nat
  BY <1>0, <1>1 DEF StreamRec
<1>5. str2 \in StreamRec /\ str2.rev = str.rev + 1 /\ str2.cid = str.cid
  BY <1>4 DEF StreamRec
<1>6. msg \in MsgRec /\ msg.type = "push" /\ msg.cid = str.cid /\ msg.rev = str.rev + 1
      /\ msg.crev = crev
  BY <1>0, <1>4 DEF Msg, MsgRec
<1>7. str2 # Null
  BY <1>5, ClientAssumption DEF StreamRec
<1> HIDE DEF msg, str2, str
<1>8. Turns(outbox[c], in, str2)
  BY <1>0, <1>1, <1>3, <1>6, <1>7, TurnsPush
<1>9. in \in Seq(MsgRec)
  BY <1>0, <1>6
<1>10. KnownIn(outbox[c], in, str2, crev)
  <2>1. /\ \A i \in 1 .. Len(outbox[c]) : outbox[c][i].rev <= crev
        /\ \A i \in 1 .. Len(inbox[c]) : inbox[c][i].rev <= crev /\ inbox[c][i].crev <= crev
    BY <1>0 DEF NetInv, Known
  <2>2. msg.rev <= crev /\ msg.crev <= crev /\ str2.rev <= crev
    BY <1>0, <1>1, <1>4, <1>5, <1>6
  <2>3. ASSUME NEW i \in 1 .. Len(in) PROVE in[i].rev <= crev /\ in[i].crev <= crev
    BY <1>0, <1>6, <2>1, <2>2, AppendIs
  <2> QED BY <2>1, <2>2, <2>3 DEF KnownIn
<1>11. OfRequest(outbox[c], inbox[c], str, m_data_cid) => OfRequest(outbox[c], in, str2, m_data_cid)
  <2>1. OfRequest(outbox[c], inbox[c], str, m_data_cid) => str.cid = m_data_cid
    BY <1>1 DEF OfRequest
  <2> QED BY <1>0, <1>5, <1>6, <2>1, OfRequestPush
<1>12. ~Loading(outbox[c], inbox[c], str)
  BY <1>1 DEF Loading
<1>13. Following(outbox[c], inbox[c], told) => Following(outbox[c], in, told)
  <2>1. told <= msg.crev /\ \A i \in 1 .. Len(inbox[c]) : inbox[c][i].crev <= msg.crev
    BY <1>0, <1>6 DEF NetInv, Known
  <2> QED BY <1>0, <1>6, <2>1, FollowingPush
<1>14. NoGap(outbox[c], inbox[c], str, m_rev) => NoGap(outbox[c], in, str2, m_rev)
  <2>1. m_rev \in Nat
    BY <1>0 DEF NetInv
  <2> QED BY <1>0, <1>1, <1>5, <1>6, <2>1, NoGapPush
<1>15. Served(inbox[c]) => Served(in)
  BY <1>0, <1>6, AppendIs DEF Served
<1> HIDE DEF in
<1> QED BY <1>0, <1>1, <1>2, <1>3, <1>5, <1>8, <1>9, <1>10, <1>11, <1>12, <1>13, <1>14, <1>15,
           ServerNet DEF str

(* What a server answers to a request, and the stream it begins.           *)
Answers(req, msg, str) ==
    /\ msg \in MsgRec /\ msg.type = req.type /\ msg.cid = req.cid
    /\ msg.rev <= crev /\ msg.crev = crev
    /\ Populates => Served(<<msg>>)
    /\ \/ str = Null
       \/ /\ msg.type = "updates" /\ str \in StreamRec /\ str.cid = req.cid
          /\ str.rev = IF req.rev = 0 THEN crev ELSE req.rev

LEMMA ServedOne ==
    ASSUME NEW msg \in MsgRec
    PROVE  Served(<<msg>>) <=> (msg.ok => /\ msg.type = "login" => msg.rev = OldestRev
                                          /\ msg.type = "snapshot" => msg.rev > 0)
<1>1. Len(<<msg>>) = 1 /\ <<msg>>[1] = msg
  OBVIOUS
<1> QED BY <1>1 DEF Served

LEMMA AnswerIs ==
    ASSUME IInv, NEW c \in Connection, ServerAnswer(c)
    PROVE  \E msg, str :
            /\ Answers(Head(outbox[c]), msg, str)
            /\ inbox' = [inbox EXCEPT ![c] = Append(inbox[c], msg)]
            /\ stream' = [stream EXCEPT ![c] = str]
<1> DEFINE req == Head(outbox[c])
<1>0. /\ outbox[c] \in Seq(RequestRec) /\ inbox[c] \in Seq(MsgRec) /\ crev \in Nat
      /\ OldestRev \in Nat /\ OldestRev <= crev /\ NetInv
      /\ Turns(outbox[c], inbox[c], stream[c]) /\ outbox[c] # <<>>
  BY Facts DEF ServerAnswer
<1>1. req = outbox[c][1] /\ 1 \in 1 .. Len(outbox[c])
  BY <1>0
<1>2. /\ req \in RequestRec /\ req.cid \in Nat /\ req.rev \in Nat /\ req.rev <= crev
      /\ req.type \in {"login", "snapshot", "updates"}
  BY <1>0, <1>1, OutEntry DEF NetInv, Known
<1>3. stream[c] = Null /\ stream \in [Connection -> StreamRec \cup {Null}]
  BY <1>0 DEF NetInv, NetworkOK, Turns
<1>4. UNCHANGED stream => stream' = [stream EXCEPT ![c] = Null]
  BY <1>3
<1> DEFINE Goal(r) == \E msg, str : /\ Answers(r, msg, str)
                                    /\ inbox' = [inbox EXCEPT ![c] = Append(inbox[c], msg)]
                                    /\ stream' = [stream EXCEPT ![c] = str]
<1> HIDE DEF req
<1>5. ASSUME req.type = "login", ServerLogin(c, req) PROVE Goal(req)
  <2> DEFINE m == Msg("login", req.cid, TRUE, OldestRev, crev)
  <2>1. /\ m \in MsgRec /\ m.type = "login" /\ m.cid = req.cid /\ m.rev = OldestRev
        /\ m.crev = crev
    BY <1>0, <1>2 DEF Msg, MsgRec
  <2>2. inbox' = [inbox EXCEPT ![c] = Append(inbox[c], m)] /\ UNCHANGED stream
    BY <1>5 DEF ServerLogin
  <2> HIDE DEF m
  <2>3. Answers(req, m, Null)
    BY <1>0, <1>5, <2>1, ServedOne DEF Answers
  <2> QED BY <1>4, <2>2, <2>3
<1>6. ASSUME req.type = "snapshot", ServerSnapshot(c, req) PROVE Goal(req)
  <2>1. PICK rev \in IF req.rev = 0 THEN OldestRev .. crev ELSE {req.rev} :
            inbox' = [inbox EXCEPT ![c] =
                        Append(inbox[c], Msg("snapshot", req.cid, TRUE, rev, crev))]
    BY <1>6 DEF ServerSnapshot
  <2>2. rev \in Nat /\ rev <= crev /\ (Populates => rev > 0)
    BY <1>0, <1>2 DEF Populates
  <2> DEFINE m == Msg("snapshot", req.cid, TRUE, rev, crev)
  <2>3. /\ m \in MsgRec /\ m.type = "snapshot" /\ m.cid = req.cid /\ m.rev = rev
        /\ m.crev = crev
    BY <1>0, <1>2, <2>2 DEF Msg, MsgRec
  <2>4. inbox' = [inbox EXCEPT ![c] = Append(inbox[c], m)] /\ UNCHANGED stream
    BY <1>6, <2>1 DEF ServerSnapshot
  <2> HIDE DEF m
  <2>5. Answers(req, m, Null)
    BY <1>6, <2>2, <2>3, ServedOne DEF Answers
  <2> QED BY <1>4, <2>4, <2>5
<1>7. ASSUME req.type = "updates", ServerUpdates(c, req) PROVE Goal(req)
  <2> DEFINE m == Msg("updates", req.cid, TRUE, 0, crev)
             t == [rev |-> IF req.rev = 0 THEN crev ELSE req.rev, cid |-> req.cid]
  <2>1. /\ m \in MsgRec /\ m.type = "updates" /\ m.cid = req.cid /\ m.rev = 0
        /\ m.crev = crev
    BY <1>0, <1>2 DEF Msg, MsgRec
  <2>2. t \in StreamRec /\ t.cid = req.cid /\ t.rev = IF req.rev = 0 THEN crev ELSE req.rev
    BY <1>0, <1>2 DEF StreamRec
  <2>3. inbox' = [inbox EXCEPT ![c] = Append(inbox[c], m)] /\ stream' = [stream EXCEPT ![c] = t]
    BY <1>7 DEF ServerUpdates
  <2> HIDE DEF m, t
  <2>4. Answers(req, m, t)
    BY <1>0, <1>7, <2>1, <2>2, ServedOne DEF Answers
  <2> QED BY <2>3, <2>4
<1>8. ASSUME inbox' = [inbox EXCEPT ![c] =
                            Append(inbox[c], Msg(req.type, req.cid, FALSE, 0, crev))],
             UNCHANGED stream
      PROVE  Goal(req)
  <2> DEFINE m == Msg(req.type, req.cid, FALSE, 0, crev)
  <2>1. /\ m \in MsgRec /\ m.type = req.type /\ m.cid = req.cid /\ m.rev = 0
        /\ m.crev = crev /\ m.ok = FALSE
    BY <1>0, <1>2 DEF Msg, MsgRec
  <2>2. inbox' = [inbox EXCEPT ![c] = Append(inbox[c], m)]
    BY <1>8
  <2> HIDE DEF m
  <2>3. Answers(req, m, Null)
    BY <1>0, <2>1, ServedOne DEF Answers
  <2> QED BY <1>4, <1>8, <2>2, <2>3
<1>9. \/ req.type = "login" /\ ServerLogin(c, req)
      \/ req.type = "snapshot" /\ ServerSnapshot(c, req)
      \/ req.type = "updates" /\ ServerUpdates(c, req)
      \/ /\ inbox' = [inbox EXCEPT ![c] =
                            Append(inbox[c], Msg(req.type, req.cid, FALSE, 0, crev))]
         /\ UNCHANGED stream
  BY DEF ServerAnswer, req
<1>10. Goal(req)
  BY <1>5, <1>6, <1>7, <1>8, <1>9
<1> QED BY <1>10 DEF req

LEMMA AnswerNet ==
    ASSUME IInv, NEW c \in Connection, ServerAnswer(c)
    PROVE  NetInv'
<1> DEFINE req == Head(outbox[c])
<1>0. /\ outbox[c] \in Seq(RequestRec) /\ inbox[c] \in Seq(MsgRec) /\ crev \in Nat /\ NetInv
      /\ Turns(outbox[c], inbox[c], stream[c]) /\ outbox[c] # <<>>
  BY Facts DEF ServerAnswer
<1>1. req = outbox[c][1] /\ 1 \in 1 .. Len(outbox[c])
  BY <1>0
<1>2. /\ req.cid \in Nat /\ req.rev \in Nat /\ req.rev <= crev
      /\ req.type \in {"login", "snapshot", "updates"}
  BY <1>0, <1>1, OutEntry DEF NetInv, Known
<1>3. PICK msg, str : /\ Answers(req, msg, str)
                      /\ inbox' = [inbox EXCEPT ![c] = Append(inbox[c], msg)]
                      /\ stream' = [stream EXCEPT ![c] = str]
  BY AnswerIs
<1> HIDE DEF req
<1>4. /\ con[c] = "CONNECTED" /\ outbox' = [outbox EXCEPT ![c] = Tail(outbox[c])]
      /\ UNCHANGED <<con, client, crev, told>>
      /\ \A i \in 1 .. Len(inbox[c]) : inbox[c][i].type # "eof"
  BY OpenIs DEF ServerAnswer
<1>5. msg \in MsgRec /\ (str # Null => msg.type = "updates") /\ str \in StreamRec \cup {Null}
  BY <1>3 DEF Answers
<1>6. inbox[c] = <<>> /\ Tail(outbox[c]) = <<>> /\ Turns(<<>>, <<msg>>, str)
  <2>1. msg.type \in {"login", "snapshot", "updates"}
    BY <1>2, <1>3 DEF Answers
  <2>2. /\ inbox[c] = <<>> /\ Tail(outbox[c]) = <<>>
        /\ Turns(Tail(outbox[c]), <<msg>>, str)
    BY <1>0, <1>4, <1>5, <2>1, TurnsAnswer
  <2> QED BY <2>2
<1>7. Append(inbox[c], msg) = <<msg>> /\ <<msg>> \in Seq(MsgRec)
  BY <1>5, <1>6
<1>8. Line(c, <<>>, <<msg>>, str)
  BY <1>3, <1>4, <1>6, <1>7 DEF Line
<1>9. Len(<<msg>>) = 1 /\ <<msg>>[1] = msg /\ Len(<<>>) = 0 /\ <<msg>> # <<>>
  OBVIOUS
<1>10. KnownIn(<<>>, <<msg>>, str, crev)
  BY <1>0, <1>2, <1>3, <1>9 DEF KnownIn, Answers
<1>11. OfRequest(outbox[c], inbox[c], stream[c], m_data_cid)
            => OfRequest(<<>>, <<msg>>, str, m_data_cid)
  BY <1>1, <1>3, <1>9 DEF OfRequest, Answers
<1>12. Loading(outbox[c], inbox[c], stream[c]) => Loading(<<>>, <<msg>>, str)
  BY <1>1, <1>3, <1>5, <1>9 DEF Loading, Answers
<1>13. Following(outbox[c], inbox[c], told) => Following(<<>>, <<msg>>, told) /\ msg.type = "updates"
  BY <1>1, <1>3, <1>9 DEF Following, Answers
<1>14. Populates => Served(<<msg>>)
  BY <1>3 DEF Answers
<1>15. ASSUME m_rev > 0, Following(outbox[c], inbox[c], told),
              NoGap(outbox[c], inbox[c], stream[c], m_rev)
       PROVE  NoGap(<<>>, <<msg>>, str, m_rev)
  <2>1. msg.type = "updates" /\ req.rev = m_rev /\ m_rev \in Nat
    BY <1>0, <1>1, <1>13, <1>15 DEF NoGap, NetInv
  <2>2. Base(<<msg>>, m_rev) = m_rev - 1
    BY <1>9, <2>1 DEF Base
  <2>3. str # Null => str.rev = m_rev
    BY <1>3, <1>15, <2>1 DEF Answers
  <2> QED BY <1>9, <2>1, <2>2, <2>3 DEF NoGap
<1>16. <<>> \in Seq(RequestRec)
  BY EmptySeq
<1> QED BY <1>4, <1>5, <1>6, <1>7, <1>8, <1>10, <1>11, <1>12, <1>13, <1>14, <1>15, <1>16, ServerNet

-----------------------------------------------------------------------------
(* The steps of the client on the connection c, which is or becomes m_con, *)
(* or after which there is no m_con.                                       *)
LEMMA ClientNet ==
    ASSUME IInv, NEW c \in Connection, NEW out \in Seq(RequestRec), NEW in \in Seq(MsgRec),
           NEW str \in StreamRec \cup {Null}, Line(c, out, in, str),
           \A d \in Connection : con'[d] = "CONNECTING" => con[d] = "CONNECTING" /\ d # c,
           crev' = crev, m_rev' \in Nat, told' \in Nat, m_rev' <= crev, told' <= crev,
           Turns(out, in, str), KnownIn(out, in, str, crev),
           m_con' \in {c, Null},
           m_con' = c =>
                /\ m_state' \in {"LOADING_SNAPSHOT", "SYNCING", "SYNCED"}
                /\ OfRequest(out, in, str, m_data_cid')
                /\ m_state' = "LOADING_SNAPSHOT" => ~m_initialized' /\ Loading(out, in, str)
                /\ m_state' # "LOADING_SNAPSHOT" => Following(out, in, told'),
           SyncedCaughtUp',
           Populates =>
                /\ died' # "update" /\ Served(in) /\ (m_initialized' => m_rev' > 0)
                /\ m_con' = c /\ m_state' # "LOADING_SNAPSHOT" =>
                        m_initialized' /\ NoGap(out, in, str, m_rev')
    PROVE  NetInv'
<1>0. NetInv /\ Null \notin Connection
  BY Facts
<1>1. /\ outbox'[c] = out /\ inbox'[c] = in /\ stream'[c] = str
      /\ \A d \in Connection \ {c} :
            outbox'[d] = outbox[d] /\ inbox'[d] = inbox[d] /\ stream'[d] = stream[d]
  BY LineIs
<1>2. NetworkOK' /\ Known' /\ TurnsOK'
  BY LineNet
<1>3. m_con' # Null => m_con' = c
  OBVIOUS
<1>4. Session'
  BY <1>1, <1>3 DEF Session
<1>5. ASSUME Populates PROVE Gapless'
  <2>1. \A d \in Connection : Served(inbox[d])
    BY <1>0, <1>5 DEF NetInv, Gapless
  <2>2. \A d \in Connection : Served(inbox'[d])
    BY <1>1, <1>5, <2>1
  <2> QED BY <1>1, <1>3, <1>5, <2>2 DEF Gapless
<1> QED BY <1>2, <1>4, <1>5 DEF NetInv, Populates

(* connection::send(): the request leaves or not.                          *)
LEMMA SendIs ==
    ASSUME IInv, NEW c \in Connection, NEW req, NEW shut \in Seq(Connection), Send(c, req, shut)
    PROVE  /\ \/ outbox' = outbox
              \/ outbox' = [outbox EXCEPT ![c] = Append(outbox[c], req)]
           /\ closing' \in Seq(Connection) /\ Range(shut) \subseteq Range(closing')
           /\ faults' \in 0 .. MaxFault
<1>1. PICK fails \in BOOLEAN :
        /\ fails => faults < MaxFault
        /\ faults' = IF fails THEN faults + 1 ELSE faults
        /\ closing' = IF fails /\ ~IsClosing(c) THEN <<c>> \o shut ELSE shut
        /\ outbox' = IF fails \/ IsClosing(c) THEN outbox
                     ELSE [outbox EXCEPT ![c] = Append(outbox[c], req)]
  BY DEF Send
<1>2. faults \in 0 .. MaxFault /\ MaxFault \in Nat
  BY Facts, ClientAssumption DEF TypeOK
<1>3. <<c>> \o shut \in Seq(Connection) /\ Range(<<c>> \o shut) = {c} \cup Range(shut)
  BY RangePrefix
<1>4. closing' \in {shut, <<c>> \o shut}
  BY <1>1
<1>5. closing' \in Seq(Connection) /\ Range(shut) \subseteq Range(closing')
  BY <1>3, <1>4
<1>6. faults' \in 0 .. MaxFault
  BY <1>1, <1>2
<1>7. outbox' = outbox \/ outbox' = [outbox EXCEPT ![c] = Append(outbox[c], req)]
  BY <1>1
<1> QED BY <1>5, <1>6, <1>7

(* A request is sent on a connection on which nothing is on its way, or    *)
(* only its end: the requests on it are then out.                          *)
Sent(c, req, in, out) ==
    /\ out \in Seq(RequestRec) /\ outbox' = [outbox EXCEPT ![c] = out]
    /\ Turns(out, in, Null) /\ KnownIn(out, in, Null, crev) /\ Served(in)
    /\ OfRequest(out, in, Null, req.cid)
    /\ req.type = "snapshot" => Loading(out, in, Null)
    /\ \A known : req.type = "updates" => Following(out, in, known)
    /\ NoGap(out, in, Null, req.rev)

LEMMA SendNet ==
    ASSUME IInv, NEW c \in Connection, NEW req \in RequestRec, NEW in \in Seq(MsgRec),
           outbox[c] = <<>>, \A i \in 1 .. Len(in) : in[i].type = "eof",
           Turns(<<>>, in, Null), req.rev <= crev, KnownIn(<<>>, in, Null, crev),
           outbox' = outbox \/ outbox' = [outbox EXCEPT ![c] = Append(outbox[c], req)]
    PROVE  \E out : Sent(c, req, in, out)
<1>1. PICK out : out \in {<<>>, <<req>>} /\ outbox' = [outbox EXCEPT ![c] = out]
  <2>1. outbox \in [Connection -> Seq(RequestRec)]
    BY DEF IInv, NetworkOK
  <2>2. Append(outbox[c], req) = <<req>>
    OBVIOUS
  <2>3. outbox = [outbox EXCEPT ![c] = <<>>]
    BY <2>1
  <2> QED BY <2>2, <2>3
<1>2. Len(<<req>>) = 1 /\ <<req>>[1] = req /\ Len(<<>>) = 0
  OBVIOUS
<1>3. out \in Seq(RequestRec) /\ \A i \in 1 .. Len(out) : out[i] = req
  <2>1. CASE out = <<>>
    BY <1>2, <2>1, EmptySeq
  <2>2. CASE out = <<req>>
    <3>1. <<req>> \in Seq(RequestRec)
      OBVIOUS
    <3>2. \A i \in 1 .. 1 : i = 1
      OBVIOUS
    <3>3. \A i \in 1 .. Len(<<req>>) : <<req>>[i] = req
      BY <1>2, <3>2
    <3> QED BY <2>2, <3>1, <3>3, Zenon
  <2> QED BY <1>1, <2>1, <2>2
<1>4. Turns(out, in, Null)
  BY <1>1, TurnsSend
<1>5. KnownIn(out, in, Null, crev)
  BY <1>3 DEF KnownIn
<1>6. /\ OfRequest(out, in, Null, req.cid)
      /\ req.type = "snapshot" => Loading(out, in, Null)
      /\ \A known : req.type = "updates" => Following(out, in, known)
      /\ NoGap(out, in, Null, req.rev)
  BY <1>3 DEF OfRequest, Loading, Following, NoGap
<1>7. Served(in)
  <2> SUFFICES ASSUME NEW i \in 1 .. Len(in) PROVE in[i].type = "eof"
    BY DEF Served
  <2> QED OBVIOUS
<1>8. Sent(c, req, in, out)
  BY <1>1, <1>3, <1>4, <1>5, <1>6, <1>7 DEF Sent
<1> QED BY <1>8

LEMMA ConnectNet ==
    ASSUME IInv, NEW c \in Connection, ConnectOK(c)
    PROVE  NetInv'
<1> DEFINE req == Request("login", m_correlation + 1, 0)
<1>0. /\ TypeOK /\ NetInv /\ crev \in Nat /\ Null \notin Connection
      /\ outbox[c] = <<>> /\ inbox[c] = <<>> /\ stream[c] = Null
      /\ stream \in [Connection -> StreamRec \cup {Null}] /\ inbox \in [Connection -> Seq(MsgRec)]
  BY Facts DEF ConnectOK, NetInv, TurnsOK, NetworkOK
<1>1. /\ \A d \in Connection : con'[d] = "CONNECTING" => con[d] = "CONNECTING" /\ d # c
      /\ UNCHANGED <<inbox, stream, crev, told, m_rev, m_initialized, m_con, m_state, m_data_cid, died>>
  BY <1>0 DEF ConnectOK, TypeOK
<1>2. CASE m_con # Null
  <2>1. UNCHANGED outbox
    BY <1>2 DEF ConnectOK
  <2>2. Quiet
    BY <1>1, <2>1 DEF Quiet
  <2> QED BY <2>2, QuietNet
<1>3. CASE m_con = Null
  <2>0. req \in RequestRec /\ req.rev = 0
    BY <1>0 DEF Request, RequestRec, TypeOK
  <2>1. Send(c, req, closing) /\ closing \in Seq(Connection)
    BY <1>0, <1>3 DEF ConnectOK, TypeOK
  <2> HIDE DEF req
  <2>2. outbox' = outbox \/ outbox' = [outbox EXCEPT ![c] = Append(outbox[c], req)]
    BY <2>1, SendIs
  <2> DEFINE in == inbox[c]
  <2>3. Len(<<>>) = 0 /\ in = <<>> /\ in \in Seq(MsgRec) /\ Null \in StreamRec \cup {Null}
    BY <1>0, EmptySeq
  <2> HIDE DEF in
  <2>5. /\ Turns(<<>>, in, Null) /\ KnownIn(<<>>, in, Null, crev) /\ 0 <= crev
        /\ \A i \in 1 .. Len(in) : in[i].type = "eof"
    BY <1>0, <2>3 DEF Turns, KnownIn
  <2>6. PICK out : Sent(c, req, in, out)
    <3>1. outbox[c] = <<>> /\ req.rev <= crev /\ req \in RequestRec /\ in \in Seq(MsgRec)
      BY <1>0, <2>0, <2>3, <2>5
    <3> QED BY <2>2, <2>5, <3>1, SendNet
  <2>a. /\ Line(c, out, in, Null) /\ out \in Seq(RequestRec) /\ Turns(out, in, Null)
        /\ KnownIn(out, in, Null, crev) /\ Served(in)
    BY <1>0, <1>1, <2>6 DEF Line, Sent, in
  <2>7. m_rev' \in Nat /\ told' \in Nat /\ m_rev' <= crev /\ told' <= crev /\ SyncedCaughtUp'
    BY <1>0, <1>1 DEF NetInv, Known, SyncedCaughtUp
  <2>8. Populates => died' # "update" /\ (m_initialized' => m_rev' > 0)
    BY <1>0, <1>1 DEF NetInv, Gapless
  <2>9. m_con' = Null /\ m_con' # c
    BY <1>0, <1>1, <1>3
  <2> QED BY <1>1, <2>3, <2>7, <2>8, <2>9, <2>a, ClientNet
<1> QED BY <1>2, <1>3

-----------------------------------------------------------------------------
(* cb_tcp_read(): the client takes the first message of the connection c.  *)
Takes(c) ==
    /\ con[c] = "CONNECTED" /\ inbox[c] # <<>>
    /\ inbox' = [inbox EXCEPT ![c] = Tail(inbox[c])]
    /\ UNCHANGED <<con, stream, crev>>

LEMMA TakesIs ==
    ASSUME IInv, NEW c \in Connection, Takes(c)
    PROVE  /\ outbox[c] \in Seq(RequestRec) /\ inbox[c] \in Seq(MsgRec) /\ inbox[c] # <<>>
           /\ stream[c] \in StreamRec \cup {Null} /\ Turns(outbox[c], inbox[c], stream[c])
           /\ Head(inbox[c]) = inbox[c][1] /\ 1 \in 1 .. Len(inbox[c])
           /\ inbox[c][1] \in MsgRec /\ inbox[c][1].rev \in Nat /\ inbox[c][1].crev \in Nat
           /\ inbox[c][1].rev <= crev /\ inbox[c][1].crev <= crev
           /\ Tail(inbox[c]) \in Seq(MsgRec)
           /\ Turns(outbox[c], Tail(inbox[c]), stream[c])
           /\ KnownIn(outbox[c], Tail(inbox[c]), stream[c], crev)
           /\ Served(inbox[c]) => Served(Tail(inbox[c]))
           /\ \A d \in Connection : con'[d] = "CONNECTING" => con[d] = "CONNECTING" /\ d # c
           /\ crev' = crev /\ crev \in Nat
<1> DEFINE in == inbox[c]
<1>0. /\ outbox[c] \in Seq(RequestRec) /\ in \in Seq(MsgRec) /\ in # <<>>
      /\ stream[c] \in StreamRec \cup {Null} /\ Turns(outbox[c], in, stream[c])
      /\ NetInv /\ crev \in Nat
  BY Facts DEF Takes
<1>1. KnownIn(outbox[c], in, stream[c], crev)
  BY <1>0 DEF NetInv, Known, KnownIn
<1>2. /\ \A d \in Connection : con'[d] = "CONNECTING" => con[d] = "CONNECTING" /\ d # c
      /\ crev' = crev
  BY DEF Takes
<1> HIDE DEF in
<1>3. Head(in) = in[1] /\ 1 \in 1 .. Len(in) /\ in[1] \in MsgRec /\ Tail(in) \in Seq(MsgRec)
  BY <1>0, TailIs
<1>4. in[1].rev \in Nat /\ in[1].crev \in Nat /\ in[1].rev <= crev /\ in[1].crev <= crev
  BY <1>0, <1>1, <1>3, InEntry DEF KnownIn
<1>5. Turns(outbox[c], Tail(in), stream[c])
  BY <1>0, TurnsTail
<1>6. KnownIn(outbox[c], Tail(in), stream[c], crev)
  BY <1>0, <1>1, TailEntry DEF KnownIn
<1>7. Served(in) => Served(Tail(in))
  BY <1>0, TailEntry DEF Served
<1> QED BY <1>0, <1>2, <1>3, <1>4, <1>5, <1>6, <1>7 DEF in

(* The line of c when a message is taken.                                  *)
LEMMA TakesLine ==
    ASSUME IInv, NEW c \in Connection, Takes(c), NEW out, outbox' = [outbox EXCEPT ![c] = out]
    PROVE  Line(c, out, Tail(inbox[c]), stream[c])
<1>1. stream \in [Connection -> StreamRec \cup {Null}]
  BY DEF IInv, NetworkOK
<1>2. stream' = [stream EXCEPT ![c] = stream[c]]
  BY <1>1 DEF Takes
<1> QED BY <1>2 DEF Line, Takes

LEMMA SameOutbox ==
    ASSUME IInv, NEW c \in Connection, UNCHANGED outbox
    PROVE  outbox' = [outbox EXCEPT ![c] = outbox[c]]
<1>1. outbox \in [Connection -> Seq(RequestRec)]
  BY DEF IInv, NetworkOK
<1> QED BY <1>1

(* The message is refused, or is the end of the connection.                *)
LEMMA RefuseNet ==
    ASSUME IInv, NEW c \in Connection, Takes(c), UNCHANGED <<client, outbox, told>>,
           m_con = c => inbox[c][1].type # "push"
    PROVE  NetInv'
<1> DEFINE in == inbox[c]
<1>0. /\ outbox[c] \in Seq(RequestRec) /\ in \in Seq(MsgRec) /\ in # <<>>
      /\ stream[c] \in StreamRec \cup {Null} /\ Turns(outbox[c], in, stream[c])
      /\ Tail(in) \in Seq(MsgRec) /\ Turns(outbox[c], Tail(in), stream[c])
      /\ KnownIn(outbox[c], Tail(in), stream[c], crev) /\ (Served(in) => Served(Tail(in)))
  BY TakesIs
<1>1. Line(c, outbox[c], Tail(in), stream[c])
  BY SameOutbox, TakesLine
<1>2. UNCHANGED <<con, client, crev, told>> /\ con[c] = "CONNECTED"
  BY DEF Takes
<1>3. m_con = c => in[1].type # "push"
  OBVIOUS
<1>4. m_rev \in Nat
  BY Facts DEF NetInv
<1> DEFINE out == outbox[c]  str == stream[c]
<1> HIDE DEF in
<1>5. OfRequest(out, in, str, m_data_cid) => OfRequest(out, Tail(in), str, m_data_cid)
  BY <1>0, OfRequestTail
<1>6. Loading(out, in, str) => Loading(out, Tail(in), str)
  BY <1>0, LoadingTail
<1>7. Following(out, in, told) => Following(out, Tail(in), told)
  BY <1>0, FollowingTail
<1>8. m_con = c /\ Following(out, in, told) /\ NoGap(out, in, str, m_rev)
        => NoGap(out, Tail(in), str, m_rev)
  BY <1>0, <1>3, <1>4, NoGapTail
<1> HIDE DEF out, str
<1> QED BY <1>0, <1>1, <1>2, <1>5, <1>6, <1>7, <1>8, ServerNet DEF in, out, str

(* process_login_resp(), accepted.                                         *)
LEMMA LoginNet ==
    ASSUME IInv, NEW c \in Connection, Takes(c), m_con = Null,
           Head(inbox[c]).type = "login", NEW throws \in BOOLEAN,
           LoginAccepted(c, Head(inbox[c]), throws)
    PROVE  NetInv'
<1> DEFINE in == Tail(inbox[c])
           msg == inbox[c][1]
           req == LoginRequest(msg)
<1>0. /\ outbox[c] \in Seq(RequestRec) /\ inbox[c] \in Seq(MsgRec) /\ inbox[c] # <<>>
      /\ stream[c] \in StreamRec \cup {Null} /\ Turns(outbox[c], inbox[c], stream[c])
      /\ Head(inbox[c]) = msg /\ msg.type = "login" /\ msg.rev \in Nat /\ msg.crev \in Nat
      /\ msg.rev <= crev /\ msg.crev <= crev /\ in \in Seq(MsgRec)
      /\ Turns(outbox[c], in, stream[c]) /\ KnownIn(outbox[c], in, stream[c], crev)
      /\ (Served(inbox[c]) => Served(in)) /\ crev \in Nat /\ crev' = crev
      /\ \A d \in Connection : con'[d] = "CONNECTING" => con[d] = "CONNECTING" /\ d # c
  BY TakesIs
<1>1. outbox[c] = <<>> /\ stream[c] = Null /\ \A i \in 1 .. Len(in) : in[i].type = "eof"
  BY <1>0, TurnsAlone
<1>2. /\ m_con' = (IF throws THEN Null ELSE c) /\ m_data_cid' = m_correlation
      /\ m_state' = (IF req.type = "updates" THEN "SYNCING" ELSE "LOADING_SNAPSHOT")
      /\ UNCHANGED <<m_initialized, m_rev, died, told>>
  BY <1>0 DEF LoginAccepted
<1>3. NetInv /\ TypeOK /\ m_rev0 \in Nat /\ m_correlation \in Nat /\ Null \notin Connection
  BY Facts
<1>4. m_rev \in Nat /\ told \in Nat /\ m_rev <= crev /\ told <= crev
  BY <1>3 DEF NetInv, Known
<1>5. req \in RequestRec /\ req.cid = m_correlation /\ req.rev <= crev
      /\ req.type \in {"snapshot", "updates"}
      /\ (req.type = "snapshot" => ~m_initialized)
      /\ (m_rev0 > 0 /\ req.type = "updates" => m_initialized /\ req.rev = m_rev)
  <2>1. CASE m_initialized \/ m_rev0 = 0
    <3>1. req = Request("updates", m_correlation, UpdatesFrom)
      BY <2>1 DEF LoginRequest
    <3>2. UpdatesFrom \in {0, m_rev} /\ (m_initialized => UpdatesFrom = m_rev)
      BY DEF UpdatesFrom
    <3> HIDE DEF req
    <3> QED BY <1>0, <1>3, <1>4, <2>1, <3>1, <3>2 DEF Request, RequestRec
  <2>2. CASE ~(m_initialized \/ m_rev0 = 0)
    <3>1. req = Request("snapshot", m_correlation, SnapshotRev(msg))
      BY <2>2 DEF LoginRequest
    <3>2. SnapshotRev(msg) \in Nat /\ SnapshotRev(msg) <= crev
      BY <1>0, <1>3 DEF SnapshotRev
    <3> HIDE DEF req
    <3> QED BY <1>3, <2>2, <3>1, <3>2 DEF Request, RequestRec
  <2> QED BY <2>1, <2>2
<1>6. m_rev' \in Nat /\ told' \in Nat /\ m_rev' <= crev /\ told' <= crev /\ SyncedCaughtUp'
  BY <1>2, <1>4 DEF SyncedCaughtUp
<1>7. Populates => died' # "update" /\ Served(in) /\ (m_initialized' => m_rev' > 0)
  BY <1>0, <1>2, <1>3 DEF NetInv, Gapless
<1>8. CASE throws
  <2>1. m_con' = Null /\ m_con' # c /\ UNCHANGED outbox
    BY <1>2, <1>3, <1>8 DEF LoginAccepted
  <2>2. Line(c, outbox[c], in, stream[c])
    BY <2>1, SameOutbox, TakesLine
  <2> HIDE DEF in
  <2> QED BY <1>0, <1>6, <1>7, <2>1, <2>2, ClientNet
<1>9. CASE ~throws
  <2>1. Send(c, req, Shut(OtherServers(c)))
    BY <1>0, <1>9 DEF LoginAccepted
  <2>2. Shut(OtherServers(c)) \in Seq(Connection)
    BY <1>3, ShutIs DEF OtherServers, TypeOK
  <2> HIDE DEF req
  <2>3. outbox' = outbox \/ outbox' = [outbox EXCEPT ![c] = Append(outbox[c], req)]
    BY <2>1, <2>2, SendIs
  <2> HIDE DEF in
  <2>4. PICK out : Sent(c, req, in, out)
    BY <1>0, <1>1, <1>5, <2>3, SendNet
  <2>5. Line(c, out, in, Null)
    BY <1>1, <2>4, TakesLine DEF in, Sent
  <2>6. /\ out \in Seq(RequestRec) /\ Turns(out, in, Null) /\ KnownIn(out, in, Null, crev)
        /\ OfRequest(out, in, Null, m_data_cid')
        /\ m_state' = "LOADING_SNAPSHOT" => ~m_initialized' /\ Loading(out, in, Null)
        /\ m_state' # "LOADING_SNAPSHOT" => Following(out, in, told')
        /\ NoGap(out, in, Null, req.rev)
    BY <1>2, <1>5, <2>4 DEF Sent
  <2>7. Populates /\ m_state' # "LOADING_SNAPSHOT" => m_initialized' /\ NoGap(out, in, Null, m_rev')
    BY <1>2, <1>5, <2>6 DEF Populates
  <2>8. m_con' = c /\ m_state' \in {"LOADING_SNAPSHOT", "SYNCING", "SYNCED"}
    BY <1>2, <1>9
  <2> QED BY <1>0, <1>1, <1>6, <1>7, <2>5, <2>6, <2>7, <2>8, ClientNet
<1> QED BY <1>8, <1>9

(* The session when a message of m_con is taken.                           *)
LEMMA TakesOf ==
    ASSUME IInv, NEW c \in Connection, Takes(c), m_con = c
    PROVE  /\ m_state \in {"LOADING_SNAPSHOT", "SYNCING", "SYNCED"}
           /\ OfRequest(outbox[c], inbox[c], stream[c], m_data_cid)
           /\ inbox[c][1].type # "eof" => inbox[c][1].cid = m_data_cid
           /\ m_state = "LOADING_SNAPSHOT" =>
                ~m_initialized /\ inbox[c][1].type \in {"snapshot", "eof"}
           /\ m_state # "LOADING_SNAPSHOT" => Following(outbox[c], inbox[c], told)
           /\ Populates /\ m_state # "LOADING_SNAPSHOT" =>
                m_initialized /\ NoGap(outbox[c], inbox[c], stream[c], m_rev)
           /\ Populates =>
                /\ died # "update" /\ (m_initialized => m_rev > 0) /\ Served(inbox[c])
           /\ m_rev \in Nat /\ told \in Nat /\ m_rev <= crev /\ told <= crev
           /\ SyncedCaughtUp /\ c # Null
<1>0. NetInv /\ 1 \in 1 .. Len(inbox[c]) /\ Null \notin Connection
  BY Facts, TakesIs
<1>1. Session /\ (Populates => Gapless)
  BY <1>0 DEF NetInv
<1>2. /\ m_state \in {"LOADING_SNAPSHOT", "SYNCING", "SYNCED"}
      /\ OfRequest(outbox[c], inbox[c], stream[c], m_data_cid)
      /\ m_state = "LOADING_SNAPSHOT" =>
            ~m_initialized /\ Loading(outbox[c], inbox[c], stream[c])
      /\ m_state # "LOADING_SNAPSHOT" => Following(outbox[c], inbox[c], told)
  BY <1>0, <1>1 DEF Session
<1>3. inbox[c][1].type # "eof" => inbox[c][1].cid = m_data_cid
  BY <1>0, <1>2 DEF OfRequest
<1>4. Loading(outbox[c], inbox[c], stream[c]) => inbox[c][1].type \in {"snapshot", "eof"}
  BY <1>0 DEF Loading
<1>5. /\ Populates /\ m_state # "LOADING_SNAPSHOT" =>
            m_initialized /\ NoGap(outbox[c], inbox[c], stream[c], m_rev)
      /\ Populates => died # "update" /\ (m_initialized => m_rev > 0) /\ Served(inbox[c])
  BY <1>0, <1>1 DEF Gapless
<1>6. m_rev \in Nat /\ told \in Nat /\ m_rev <= crev /\ told <= crev /\ SyncedCaughtUp
  BY <1>0 DEF NetInv, Known
<1> QED BY <1>0, <1>2, <1>3, <1>4, <1>5, <1>6

(* process_snapshot_resp(), accepted.                                      *)
LEMMA SnapshotNet ==
    ASSUME IInv, NEW c \in Connection, Takes(c), m_con = c,
           Head(inbox[c]).type = "snapshot", Head(inbox[c]).ok,
           m_rev' = Head(inbox[c]).rev, UNCHANGED told,
           SnapshotLoaded(c) \/ (Abort /\ UNCHANGED outbox)
    PROVE  NetInv'
<1> DEFINE in == Tail(inbox[c])
           msg == inbox[c][1]
           req == Request("updates", m_correlation, m_rev')
<1>0. /\ outbox[c] \in Seq(RequestRec) /\ inbox[c] \in Seq(MsgRec) /\ inbox[c] # <<>>
      /\ stream[c] \in StreamRec \cup {Null} /\ Turns(outbox[c], inbox[c], stream[c])
      /\ Head(inbox[c]) = msg /\ msg.type = "snapshot" /\ msg.ok /\ msg.rev \in Nat
      /\ msg.rev <= crev /\ in \in Seq(MsgRec) /\ 1 \in 1 .. Len(inbox[c])
      /\ Turns(outbox[c], in, stream[c]) /\ KnownIn(outbox[c], in, stream[c], crev)
      /\ (Served(inbox[c]) => Served(in)) /\ crev \in Nat /\ crev' = crev
      /\ \A d \in Connection : con'[d] = "CONNECTING" => con[d] = "CONNECTING" /\ d # c
  BY TakesIs
<1>1. outbox[c] = <<>> /\ stream[c] = Null /\ \A i \in 1 .. Len(in) : in[i].type = "eof"
  BY <1>0, TurnsAlone
<1>2. told \in Nat /\ told <= crev /\ c # Null
      /\ (Populates => died # "update" /\ Served(inbox[c]))
  BY TakesOf
<1>3. m_rev' = msg.rev /\ m_rev' \in Nat /\ m_rev' <= crev /\ told' \in Nat /\ told' <= crev
  BY <1>0, <1>2
<1>4. UNCHANGED died /\ m_state' \in {"SYNCING", "CLOSED"}
  BY DEF SnapshotLoaded, Abort
<1>5. SyncedCaughtUp'
  BY <1>4 DEF SyncedCaughtUp
<1>6. Populates => died' # "update" /\ Served(in) /\ m_rev' > 0
  BY <1>0, <1>2, <1>3, <1>4 DEF Served
<1>7. CASE Abort /\ UNCHANGED outbox
  <2>1. m_con' = Null /\ m_con' # c /\ UNCHANGED outbox
    BY <1>2, <1>7 DEF Abort
  <2>2. Line(c, outbox[c], in, stream[c])
    BY <2>1, SameOutbox, TakesLine
  <2> HIDE DEF in
  <2> QED BY <1>0, <1>3, <1>5, <1>6, <2>1, <2>2, ClientNet
<1>8. CASE SnapshotLoaded(c)
  <2>1. /\ Send(c, req, closing) /\ m_con' = c /\ m_initialized' = TRUE
        /\ m_state' = "SYNCING" /\ m_data_cid' = m_correlation
    BY <1>8 DEF SnapshotLoaded
  <2>2. /\ req \in RequestRec /\ req.type = "updates" /\ req.cid = m_correlation
        /\ req.rev = m_rev' /\ req.rev <= crev
    BY <1>3, Facts DEF Request, RequestRec
  <2> HIDE DEF req
  <2>3. closing \in Seq(Connection)
    BY Facts DEF TypeOK
  <2>4. outbox' = outbox \/ outbox' = [outbox EXCEPT ![c] = Append(outbox[c], req)]
    BY <2>1, <2>3, SendIs
  <2> HIDE DEF in
  <2>5. PICK out : Sent(c, req, in, out)
    BY <1>0, <1>1, <2>2, <2>4, SendNet
  <2>6. Line(c, out, in, Null)
    BY <1>1, <2>5, TakesLine DEF in, Sent
  <2>7. /\ out \in Seq(RequestRec) /\ Turns(out, in, Null) /\ KnownIn(out, in, Null, crev)
        /\ OfRequest(out, in, Null, m_data_cid')
        /\ Following(out, in, told') /\ NoGap(out, in, Null, m_rev')
    BY <2>1, <2>2, <2>5 DEF Sent
  <2> QED BY <1>0, <1>1, <1>3, <1>5, <1>6, <2>1, <2>6, <2>7, ClientNet
<1> QED BY <1>7, <1>8

(* process_updates_resp(), accepted.                                       *)
LEMMA UpdatesNet ==
    ASSUME IInv, NEW c \in Connection, Takes(c), m_con = c, m_state = "SYNCING",
           Head(inbox[c]).type = "updates", UNCHANGED <<outbox, m_con, m_data_cid, died>>,
           m_rev' = IF m_rev0 = 0 THEN Head(inbox[c]).crev ELSE m_rev,
           m_initialized' = (m_initialized \/ m_rev0 = 0),
           m_state' = IF m_rev' = Head(inbox[c]).crev THEN "SYNCED" ELSE m_state,
           told' = Head(inbox[c]).crev
    PROVE  NetInv'
<1> DEFINE in == Tail(inbox[c])
           msg == inbox[c][1]
<1>0. /\ outbox[c] \in Seq(RequestRec) /\ inbox[c] \in Seq(MsgRec) /\ inbox[c] # <<>>
      /\ stream[c] \in StreamRec \cup {Null} /\ Turns(outbox[c], inbox[c], stream[c])
      /\ Head(inbox[c]) = msg /\ msg.type = "updates" /\ msg.crev \in Nat
      /\ msg.crev <= crev /\ in \in Seq(MsgRec)
      /\ Turns(outbox[c], in, stream[c]) /\ KnownIn(outbox[c], in, stream[c], crev)
      /\ (Served(inbox[c]) => Served(in)) /\ crev \in Nat /\ crev' = crev
      /\ \A d \in Connection : con'[d] = "CONNECTING" => con[d] = "CONNECTING" /\ d # c
  BY TakesIs
<1>1. /\ OfRequest(outbox[c], inbox[c], stream[c], m_data_cid)
      /\ Following(outbox[c], inbox[c], told) /\ m_rev \in Nat /\ m_rev <= crev
      /\ Populates => /\ m_initialized /\ NoGap(outbox[c], inbox[c], stream[c], m_rev)
                      /\ died # "update" /\ m_rev > 0 /\ Served(inbox[c])
  BY TakesOf
<1>2. /\ m_rev' \in Nat /\ m_rev' <= crev /\ told' \in Nat /\ told' <= crev
      /\ m_state' \in {"SYNCING", "SYNCED"} /\ m_state' # "LOADING_SNAPSHOT"
      /\ told' = msg.crev
  BY <1>0, <1>1
<1>3. SyncedCaughtUp'
  BY <1>0, <1>2 DEF SyncedCaughtUp
<1>4. OfRequest(outbox[c], in, stream[c], m_data_cid')
  BY <1>0, <1>1, OfRequestTail
<1>5. Following(outbox[c], in, told')
  BY <1>0, <1>1, <1>2, FollowingTail
<1>6. ASSUME Populates
      PROVE  /\ died' # "update" /\ Served(in) /\ m_rev' > 0
             /\ m_initialized' /\ NoGap(outbox[c], in, stream[c], m_rev')
  <2>0. m_rev0 # 0 /\ m_initialized
    BY <1>1, <1>6, Facts DEF Populates
  <2>1. m_rev' = m_rev /\ m_initialized'
    BY <2>0, Zenon
  <2>2. NoGap(outbox[c], in, stream[c], m_rev)
    BY <1>0, <1>1, <1>6, NoGapTail
  <2> QED BY <1>0, <1>1, <1>6, <2>1, <2>2
<1>7. Line(c, outbox[c], in, stream[c]) /\ m_con' = c
  BY SameOutbox, TakesLine
<1> HIDE DEF in
<1> QED BY <1>0, <1>2, <1>3, <1>4, <1>5, <1>6, <1>7, ClientNet

(* process_updates_push(), accepted.                                       *)
LEMMA FollowNet ==
    ASSUME IInv, NEW c \in Connection, Takes(c), m_con = c,
           Head(inbox[c]).type = "push",
           UNCHANGED <<outbox, m_con, m_data_cid, m_initialized, told>>,
           m_rev' = IF Head(inbox[c]).rev <= m_rev THEN m_rev ELSE Head(inbox[c]).rev,
           died' = IF Head(inbox[c]).rev <= m_rev THEN "update" ELSE died,
           m_state' = IF Head(inbox[c]).rev > m_rev /\ m_state = "SYNCING"
                            /\ Head(inbox[c]).rev = Head(inbox[c]).crev
                      THEN "SYNCED" ELSE m_state
    PROVE  NetInv'
<1> DEFINE in == Tail(inbox[c])
           msg == inbox[c][1]
<1>0. /\ outbox[c] \in Seq(RequestRec) /\ inbox[c] \in Seq(MsgRec) /\ inbox[c] # <<>>
      /\ stream[c] \in StreamRec \cup {Null} /\ Turns(outbox[c], inbox[c], stream[c])
      /\ Head(inbox[c]) = msg /\ msg.type = "push" /\ msg.rev \in Nat /\ msg.crev \in Nat
      /\ msg.rev <= crev /\ in \in Seq(MsgRec) /\ 1 \in 1 .. Len(inbox[c])
      /\ Turns(outbox[c], in, stream[c]) /\ KnownIn(outbox[c], in, stream[c], crev)
      /\ (Served(inbox[c]) => Served(in)) /\ crev \in Nat /\ crev' = crev
      /\ \A d \in Connection : con'[d] = "CONNECTING" => con[d] = "CONNECTING" /\ d # c
  BY TakesIs
<1>1. /\ OfRequest(outbox[c], inbox[c], stream[c], m_data_cid)
      /\ m_state \in {"LOADING_SNAPSHOT", "SYNCING", "SYNCED"}
      /\ m_state # "LOADING_SNAPSHOT"
      /\ m_rev \in Nat /\ m_rev <= crev /\ told \in Nat /\ told <= crev /\ SyncedCaughtUp
  BY <1>0, TakesOf
<1>2. /\ Following(outbox[c], inbox[c], told)
      /\ Populates => /\ m_initialized /\ NoGap(outbox[c], inbox[c], stream[c], m_rev)
                      /\ died # "update" /\ m_rev > 0 /\ Served(inbox[c])
  BY <1>1, TakesOf
<1>3. told <= msg.crev
  BY <1>0, <1>2 DEF Following
<1>4. /\ m_rev' \in Nat /\ m_rev' <= crev /\ told' \in Nat /\ told' <= crev
      /\ m_rev' >= m_rev /\ (msg.rev > m_rev => m_rev' = msg.rev)
      /\ m_state' \in {"LOADING_SNAPSHOT", "SYNCING", "SYNCED"} /\ m_state' # "LOADING_SNAPSHOT"
      /\ m_state' = "SYNCED" => m_state = "SYNCED" \/ (msg.rev > m_rev /\ msg.rev = msg.crev)
  BY <1>0, <1>1
<1>5. SyncedCaughtUp'
  BY <1>1, <1>3, <1>4 DEF SyncedCaughtUp
<1>6. OfRequest(outbox[c], in, stream[c], m_data_cid')
  BY <1>0, <1>1, OfRequestTail
<1>7. Following(outbox[c], in, told')
  BY <1>0, <1>2, FollowingTail
<1>8. ASSUME Populates
      PROVE  /\ died' # "update" /\ Served(in) /\ m_rev' > 0
             /\ m_initialized' /\ NoGap(outbox[c], in, stream[c], m_rev')
  <2>1. msg.rev = m_rev + 1 /\ NoGap(outbox[c], in, stream[c], m_rev + 1)
    BY <1>0, <1>1, <1>2, <1>8, NoGapTail
  <2>2. m_rev' = m_rev + 1 /\ died' = died
    BY <1>0, <1>1, <2>1
  <2> QED BY <1>0, <1>1, <1>2, <1>8, <2>1, <2>2
<1>9. Line(c, outbox[c], in, stream[c]) /\ m_con' = c
  BY SameOutbox, TakesLine
<1> HIDE DEF in
<1> QED BY <1>0, <1>4, <1>5, <1>6, <1>7, <1>8, <1>9, ClientNet

LEMMA ReceiveNet ==
    ASSUME IInv, NEW c \in Connection, Receive(c)
    PROVE  NetInv'
<1> DEFINE msg == Head(inbox[c])
<1>0. Takes(c)
  BY DEF Receive, Takes
<1>1. /\ msg = inbox[c][1] /\ msg.type \in {"login", "snapshot", "updates", "push", "eof"}
      /\ Null \notin Connection
  BY <1>0, TakesIs, Facts DEF MsgRec
<1>2. m_con = c => /\ msg.type # "login" /\ (msg.type # "eof" => msg.cid = m_data_cid)
  <2>1. m_con = c /\ m_state # "LOADING_SNAPSHOT" => inbox[c][1].type \in {"updates", "push", "eof"}
    BY <1>0, TakesIs, TakesOf DEF Following
  <2> QED BY <1>0, <1>1, <2>1, TakesOf
<1>3. CASE msg.type = "login"
  <2>1. LoginResp(c, msg)
    BY <1>1, <1>3 DEF Receive
  <2>2. CASE m_con # Null \/ ~msg.ok
    <3>1. Refuse(c)
      BY <2>1, <2>2 DEF LoginResp
    <3> QED BY <1>0, <1>1, <1>3, <3>1, RefuseNet DEF Refuse
  <2>3. CASE m_con = Null /\ msg.ok
    <3>1. PICK throws \in {FALSE, CallbackThrows} : LoginAccepted(c, msg, throws)
      BY <2>1, <2>3 DEF LoginResp
    <3>2. throws \in BOOLEAN
      BY ClientAssumption
    <3> QED BY <1>0, <1>3, <2>3, <3>1, <3>2, LoginNet
  <2> QED BY <2>2, <2>3
<1>4. CASE msg.type = "eof" \/ (msg.type # "login" /\ c # m_con)
  <2>1. Refuse(c)
    BY <1>1, <1>4 DEF Receive
  <2> QED BY <1>0, <1>1, <1>4, <2>1, RefuseNet DEF Refuse
<1>5. CASE msg.type = "snapshot" /\ c = m_con
  <2>1. SnapshotResp(c, msg)
    BY <1>1, <1>5 DEF Receive
  <2>2. CASE m_state # "LOADING_SNAPSHOT" \/ msg.cid # m_data_cid \/ ~msg.ok
    <3>1. Refuse(c)
      BY <2>1, <2>2 DEF SnapshotResp
    <3> QED BY <1>0, <1>1, <1>5, <3>1, RefuseNet DEF Refuse
  <2>3. CASE ~(m_state # "LOADING_SNAPSHOT" \/ msg.cid # m_data_cid \/ ~msg.ok)
    <3>1. /\ m_rev' = msg.rev /\ UNCHANGED told
          /\ SnapshotLoaded(c) \/ (Abort /\ UNCHANGED outbox)
      BY <2>1, <2>3 DEF SnapshotResp
    <3> QED BY <1>0, <1>5, <2>3, <3>1, SnapshotNet
  <2> QED BY <2>2, <2>3
<1>6. CASE msg.type = "updates" /\ c = m_con
  <2>1. UpdatesResp(c, msg)
    BY <1>1, <1>6 DEF Receive
  <2>2. CASE m_state # "SYNCING" \/ msg.cid # m_data_cid \/ ~msg.ok
    <3>1. Refuse(c)
      BY <2>1, <2>2 DEF UpdatesResp
    <3> QED BY <1>0, <1>1, <1>6, <3>1, RefuseNet DEF Refuse
  <2>3. CASE ~(m_state # "SYNCING" \/ msg.cid # m_data_cid \/ ~msg.ok)
    <3>1. /\ m_rev' = (IF m_rev0 = 0 THEN msg.crev ELSE m_rev)
          /\ m_initialized' = (m_initialized \/ m_rev0 = 0)
          /\ m_state' = (IF m_rev' = msg.crev THEN "SYNCED" ELSE m_state)
          /\ told' = msg.crev
          /\ UNCHANGED <<outbox, m_con, m_data_cid, died>>
      BY <2>1, <2>3 DEF UpdatesResp
    <3> QED BY <1>0, <1>6, <2>3, <3>1, UpdatesNet
  <2> QED BY <2>2, <2>3
<1>7. CASE msg.type = "push" /\ c = m_con
  <2>1. UpdatesPush(c, msg) /\ msg.cid = m_data_cid
    BY <1>1, <1>2, <1>7 DEF Receive
  <2>2. /\ UNCHANGED <<outbox, m_con, m_data_cid, m_initialized, told>>
        /\ m_rev' = (IF msg.rev <= m_rev THEN m_rev ELSE msg.rev)
        /\ died' = (IF msg.rev <= m_rev THEN "update" ELSE died)
        /\ m_state' = (IF msg.rev > m_rev /\ m_state = "SYNCING" /\ msg.rev = msg.crev
                       THEN "SYNCED" ELSE m_state)
    BY <2>1 DEF UpdatesPush
  <2> QED BY <1>0, <1>7, <2>2, FollowNet
<1> QED BY <1>1, <1>3, <1>4, <1>5, <1>6, <1>7

LEMMA NetStep ==
    ASSUME IInv, [Next]_vars
    PROVE  NetInv'
<1>1. ASSUME NEW c \in Connection,
             \/ ConnectOK(c) \/ ConnectFail(c) \/ Receive(c)
             \/ ServerAnswer(c) \/ ServerPush(c) \/ ServerClose(c)
      PROVE  NetInv'
  BY <1>1, ConnectNet, QuietSteps, QuietNet, ReceiveNet, AnswerNet, PushNet, CloseNet
<1>2. CASE TimerConLost \/ TimerReconnect \/ CloseCmd \/ RunClosing \/ RunEnds \/ UNCHANGED vars
  BY <1>2, QuietSteps, QuietNet
<1>3. CASE CloseCallback
  <2>1. Head(running) \in Connection
    BY <1>3, Facts DEF CloseCallback, TypeOK
  <2> QED BY <1>3, <2>1, CloseCallbackIs, QuietNet, ReconnectNet
<1>4. CASE ServerCommit
  BY <1>4, CommitNet
<1> QED BY <1>1, <1>2, <1>3, <1>4 DEF Next

-----------------------------------------------------------------------------
(* The type invariant, but for the revisions, which Known bounds, and one  *)
(* server at a time.                                                       *)
ConnsOK ==
    /\ con \in [Connection -> {"CONNECTING", "CONNECTED", "CLOSED"}]
    /\ closing \in Seq(Connection) /\ running \in Seq(Connection)
    /\ reading \in Connection \cup {Null} /\ faults \in 0 .. MaxFault
ClientOK ==
    /\ m_con \in Connection \cup {Null}
    /\ m_state \in {"CONNECTING", "LOADING_SNAPSHOT", "SYNCING", "SYNCED", "CLOSED"}
    /\ m_initialized \in BOOLEAN
    /\ m_correlation \in Nat /\ m_data_cid \in 0 .. m_correlation
    /\ m_timer_con_lost \in BOOLEAN /\ m_timer_reconnect \in BOOLEAN
    /\ loop \in {"running", "stopped", "ended"} /\ died \in {"none", "connect", "update"}
CrevOK == crev \in InitialRev .. MaxRev

LEMMA TypeParts ==
    ASSUME IInv
    PROVE  ConnsOK /\ ClientOK /\ CrevOK /\ OneServer /\ Null \notin Connection
  BY Facts DEF IInv, TypeOK, ConnsOK, ClientOK, CrevOK

(* The connections that are closed, or are being closed, remain so.        *)
Keeps(c) ==
    /\ \A d \in Connection \ {c} : con[d] = "CLOSED" => con'[d] = "CLOSED"
    /\ Range(closing) \cup Range(running) \subseteq Range(closing') \cup Range(running')

LEMMA KeepsOne ==
    ASSUME OneServer, m_con' = m_con, NEW c, Keeps(c),
           m_con # Null => c \in {m_con} \cup Range(closing') \cup Range(running')
    PROVE  OneServer'
  BY DEF OneServer, Keeps, IsClosing

LEMMA AbortOK ==
    ASSUME IInv, Abort
    PROVE  ClientOK' /\ m_con' = Null /\ closing' \in Seq(Connection)
<1>1. closing' \in Seq(Connection)
  BY TypeParts, ShutIs DEF Abort, ConnsOK
<1>2. ClientOK
  BY TypeParts
<1>3. m_data_cid' \in 0 .. m_correlation'
  BY <1>2 DEF Abort, ClientOK
<1>4. m_timer_con_lost' \in BOOLEAN /\ m_timer_reconnect' \in BOOLEAN /\ m_initialized' \in BOOLEAN
  BY <1>2, Zenon DEF Abort, ClientOK
<1>5. ClientOK' /\ m_con' = Null
  BY <1>2, <1>3, <1>4, Zenon DEF Abort, ClientOK
<1> QED BY <1>1, <1>5

LEMMA ShutGrows ==
    ASSUME IInv, NEW cs \in SUBSET Connection, closing' = Shut(cs)
    PROVE  closing' \in Seq(Connection) /\ Range(closing') = Range(closing) \cup ToShut(cs)
  BY TypeParts, ShutIs DEF ConnsOK

LEMMA ConnectType ==
    ASSUME IInv, NEW c \in Connection, ConnectOK(c)
    PROVE  ConnsOK' /\ ClientOK' /\ CrevOK' /\ OneServer'
<1>0. ConnsOK /\ ClientOK /\ CrevOK /\ OneServer
  BY TypeParts
<1>1. CASE m_con # Null
  <2>1. closing' = Shut({c}) /\ UNCHANGED <<m_correlation, faults>>
    BY <1>1 DEF ConnectOK
  <2>2. closing' \in Seq(Connection) /\ Range(closing') = Range(closing) \cup ToShut({c})
    BY <2>1, ShutGrows
  <2>3. c \in ToShut({c})
    BY DEF ConnectOK, ToShut
  <2>4. ConnsOK' /\ ClientOK' /\ CrevOK'
    BY <1>0, <2>1, <2>2 DEF ConnectOK, ConnsOK, ClientOK, CrevOK
  <2>5. Keeps(c) /\ m_con' = m_con
    BY <1>0, <2>2 DEF ConnectOK, Keeps, ConnsOK
  <2> QED BY <1>0, <2>2, <2>3, <2>4, <2>5, KeepsOne
<1>2. CASE m_con = Null
  <2>1. /\ m_correlation' = m_correlation + 1
        /\ Send(c, Request("login", m_correlation + 1, 0), closing)
    BY <1>2 DEF ConnectOK
  <2>2. closing' \in Seq(Connection) /\ faults' \in 0 .. MaxFault
    BY <1>0, <2>1, SendIs DEF ConnsOK
  <2>3. ConnsOK' /\ ClientOK' /\ CrevOK'
    BY <1>0, <2>1, <2>2 DEF ConnectOK, ConnsOK, ClientOK, CrevOK
  <2> QED BY <1>2, <2>3 DEF ConnectOK, OneServer
<1> QED BY <1>1, <1>2

LEMMA RefuseType ==
    ASSUME IInv, NEW c \in Connection, Refuse(c), UNCHANGED <<con, running, crev>>, reading' = c
    PROVE  ConnsOK' /\ ClientOK' /\ CrevOK' /\ OneServer'
<1>0. ConnsOK /\ ClientOK /\ CrevOK /\ OneServer /\ Null \notin Connection
  BY TypeParts
<1>1. closing' \in Seq(Connection) /\ Range(closing') = Range(closing) \cup ToShut({c})
  BY ShutGrows DEF Refuse
<1>2. ConnsOK' /\ ClientOK' /\ CrevOK' /\ m_con' = m_con
  BY <1>0, <1>1 DEF Refuse, client, ConnsOK, ClientOK, CrevOK
<1>3. Keeps(m_con)
  BY <1>1 DEF Keeps
<1> QED BY <1>0, <1>2, <1>3, KeepsOne

LEMMA LoginType ==
    ASSUME IInv, NEW c \in Connection, NEW msg, NEW throws \in BOOLEAN,
           LoginAccepted(c, msg, throws), UNCHANGED <<con, running, crev>>, reading' = c
    PROVE  ConnsOK' /\ ClientOK' /\ CrevOK' /\ OneServer'
<1>0. ConnsOK /\ ClientOK /\ CrevOK /\ Null \notin Connection
  BY TypeParts
<1>1. /\ m_con' = (IF throws THEN Null ELSE c) /\ m_timer_con_lost' = KeepAlive
      /\ m_state' \in {"SYNCING", "LOADING_SNAPSHOT"} /\ m_data_cid' = m_correlation
      /\ m_correlation' = m_correlation + 1 /\ UNCHANGED <<m_initialized, died>>
  BY DEF LoginAccepted
<1>2. loop' \in {loop, "stopped"} /\ m_timer_reconnect' \in {m_timer_reconnect, FALSE}
  BY DEF LoginAccepted
<1>3. ClientOK' /\ CrevOK'
  <2>1. m_data_cid' \in 0 .. m_correlation' /\ m_correlation' \in Nat
    BY <1>0, <1>1 DEF ClientOK
  <2>2. m_timer_con_lost' \in BOOLEAN
    BY <1>1, ClientAssumption, Zenon
  <2>3. m_timer_reconnect' \in BOOLEAN /\ m_initialized' \in BOOLEAN
    BY <1>0, <1>1, <1>2, Zenon DEF ClientOK
  <2>4. /\ m_con' \in Connection \cup {Null}
        /\ m_state' \in {"CONNECTING", "LOADING_SNAPSHOT", "SYNCING", "SYNCED", "CLOSED"}
        /\ loop' \in {"running", "stopped", "ended"} /\ died' \in {"none", "connect", "update"}
    BY <1>0, <1>1, <1>2 DEF ClientOK
  <2> QED BY <1>0, <2>1, <2>2, <2>3, <2>4, Zenon DEF ClientOK, CrevOK
<1>4. CASE throws
  <2>1. closing' = Shut(Connection) /\ UNCHANGED faults /\ m_con' = Null
    BY <1>4 DEF LoginAccepted
  <2>2. closing' \in Seq(Connection)
    BY <2>1, ShutGrows
  <2>3. ConnsOK'
    BY <1>0, <2>1, <2>2 DEF ConnsOK
  <2> QED BY <1>3, <2>1, <2>3 DEF OneServer
<1>5. CASE ~throws
  <2> DEFINE shut == Shut(OtherServers(c))
  <2>1. Send(c, LoginRequest(msg), shut) /\ m_con' = c
    BY <1>5 DEF LoginAccepted
  <2>2. shut \in Seq(Connection) /\ Range(shut) = Range(closing) \cup ToShut(OtherServers(c))
    BY <1>0, ShutIs DEF ConnsOK, OtherServers
  <2> HIDE DEF shut
  <2>3. closing' \in Seq(Connection) /\ Range(shut) \subseteq Range(closing')
        /\ faults' \in 0 .. MaxFault
    BY <2>1, <2>2, SendIs
  <2>4. ConnsOK'
    BY <1>0, <2>3 DEF ConnsOK
  <2>5. ASSUME NEW d \in Connection, d # c
        PROVE  con'[d] = "CLOSED" \/ d \in Range(closing') \cup Range(running')
    BY <2>2, <2>3, <2>5 DEF ToShut, OtherServers, IsClosing
  <2>6. OneServer'
    BY <2>1, <2>5 DEF OneServer, IsClosing
  <2> QED BY <1>3, <2>4, <2>6
<1> QED BY <1>4, <1>5

LEMMA SnapshotType ==
    ASSUME IInv, NEW c \in Connection, m_con = c,
           SnapshotLoaded(c) \/ (Abort /\ UNCHANGED <<outbox, faults>>),
           UNCHANGED <<con, running, crev>>, reading' = c
    PROVE  ConnsOK' /\ ClientOK' /\ CrevOK' /\ OneServer'
<1>0. ConnsOK /\ ClientOK /\ CrevOK /\ OneServer /\ Null \notin Connection
  BY TypeParts
<1>1. CASE SnapshotLoaded(c)
  <2>1. /\ m_initialized' = TRUE /\ m_state' = "SYNCING" /\ m_data_cid' = m_correlation
        /\ m_correlation' = m_correlation + 1
        /\ UNCHANGED <<m_con, m_timer_con_lost, m_timer_reconnect, loop, died>>
        /\ Send(c, Request("updates", m_correlation, m_rev'), closing)
    BY <1>1 DEF SnapshotLoaded
  <2>2. closing' \in Seq(Connection) /\ Range(closing) \subseteq Range(closing')
        /\ faults' \in 0 .. MaxFault
    BY <1>0, <2>1, SendIs DEF ConnsOK
  <2>3. ConnsOK' /\ ClientOK' /\ CrevOK'
    BY <1>0, <2>1, <2>2 DEF ConnsOK, ClientOK, CrevOK
  <2>4. Keeps(m_con)
    BY <2>2 DEF Keeps
  <2> QED BY <1>0, <2>1, <2>3, <2>4, KeepsOne
<1>2. CASE Abort /\ UNCHANGED <<outbox, faults>>
  <2>1. ClientOK' /\ m_con' = Null /\ closing' \in Seq(Connection)
    BY <1>2, AbortOK
  <2>2. ConnsOK' /\ CrevOK'
    BY <1>0, <1>2, <2>1 DEF ConnsOK, CrevOK
  <2> QED BY <2>1, <2>2 DEF OneServer
<1> QED BY <1>1, <1>2

LEMMA ReceiveType ==
    ASSUME IInv, NEW c \in Connection, Receive(c)
    PROVE  ConnsOK' /\ ClientOK' /\ CrevOK' /\ OneServer'
<1> DEFINE msg == Head(inbox[c])
<1>0. ConnsOK /\ ClientOK /\ CrevOK /\ OneServer /\ Null \notin Connection
  BY TypeParts
<1>1. UNCHANGED <<con, running, crev>> /\ reading' = c
  BY DEF Receive
<1>2. msg.type \in {"login", "snapshot", "updates", "push", "eof"}
  <2>1. Takes(c)
    BY DEF Receive, Takes
  <2> QED BY <2>1, TakesIs DEF MsgRec
<1>3. \/ LoginResp(c, msg) \/ Refuse(c)
      \/ /\ c = m_con
         /\ SnapshotResp(c, msg) \/ UpdatesResp(c, msg) \/ UpdatesPush(c, msg)
  BY <1>2 DEF Receive
<1> HIDE DEF msg
<1>4. CASE Refuse(c)
  BY <1>1, <1>4, RefuseType
<1>5. ASSUME NEW throws \in BOOLEAN, LoginAccepted(c, msg, throws)
      PROVE  ConnsOK' /\ ClientOK' /\ CrevOK' /\ OneServer'
  BY <1>1, <1>5, LoginType
<1>6. CASE LoginResp(c, msg)
  BY <1>4, <1>5, <1>6, ClientAssumption DEF LoginResp
<1>7. CASE c = m_con /\ SnapshotResp(c, msg)
  <2>1. Refuse(c) \/ SnapshotLoaded(c) \/ (Abort /\ UNCHANGED <<outbox, faults>>)
    BY <1>7 DEF SnapshotResp
  <2> QED BY <1>1, <1>4, <1>7, <2>1, SnapshotType
<1>8. CASE c = m_con /\ ~Refuse(c) /\ (UpdatesResp(c, msg) \/ UpdatesPush(c, msg))
  <2>1. CASE UpdatesResp(c, msg)
    BY <1>0, <1>1, <1>8, <2>1 DEF UpdatesResp, ConnsOK, ClientOK, CrevOK, OneServer, IsClosing
  <2>2. CASE UpdatesPush(c, msg)
    BY <1>0, <1>1, <1>8, <2>2 DEF UpdatesPush, ConnsOK, ClientOK, CrevOK, OneServer, IsClosing
  <2> QED BY <1>8, <2>1, <2>2
<1> QED BY <1>3, <1>4, <1>6, <1>7, <1>8

(* on_connection_closed(): the connection is closed when it is no longer   *)
(* among those whose callbacks are to be run.                              *)
LEMMA TryToConnectType ==
    ASSUME IInv, NEW before \in [Connection -> {"CONNECTING", "CONNECTED", "CLOSED"}],
           TryToConnect(before)
    PROVE  /\ con' \in [Connection -> {"CONNECTING", "CONNECTED", "CLOSED"}]
           /\ m_state' = "CONNECTING" /\ m_timer_reconnect' = FALSE /\ died' \in {died, "connect"}
  BY DEF TryToConnect

LEMMA CloseCallbackType ==
    ASSUME IInv, CloseCallback
    PROVE  ConnsOK' /\ ClientOK' /\ CrevOK' /\ OneServer'
<1> DEFINE c == Head(running)
<1>0. ConnsOK /\ ClientOK /\ CrevOK /\ OneServer /\ Null \notin Connection
  BY TypeParts
<1>1. /\ running # <<>> /\ running' = Tail(running) /\ reading' = Null
      /\ UNCHANGED <<crev, faults, told>>
      /\ ClosedUnused(c) \/ ClosedLast(c) \/ ClosedCurrent(c)
  BY DEF CloseCallback
<1>2. c \in Connection /\ Tail(running) \in Seq(Connection)
  BY <1>0, <1>1 DEF ConnsOK
<1>3. Range(running) \subseteq {c} \cup Range(running')
  <2>1. running \in Seq(Connection) /\ running # <<>>
    BY <1>0, <1>1 DEF ConnsOK
  <2>2. ASSUME NEW i \in 1 .. Len(running) PROVE running[i] \in {c} \cup Range(running')
    <3>1. CASE i = 1
      BY <2>1, <3>1
    <3>2. CASE i # 1
      <4>1. i - 1 \in 1 .. Len(Tail(running)) /\ Tail(running)[i - 1] = running[i]
        BY <2>1, <3>2
      <4>2. Range(Tail(running)) = {Tail(running)[j] : j \in 1 .. Len(Tail(running))}
        BY <1>2, RangeOf
      <4> QED BY <1>1, <4>1, <4>2
    <3> QED BY <3>1, <3>2
  <2>3. Range(running) = {running[i] : i \in 1 .. Len(running)}
    BY <2>1, RangeOf
  <2> QED BY <2>2, <2>3
<1> HIDE DEF c
<1>4. /\ NowClosed(c) \in [Connection -> {"CONNECTING", "CONNECTED", "CLOSED"}]
      /\ NowClosed(c)[c] = "CLOSED" /\ \A d \in Connection \ {c} : NowClosed(c)[d] = con[d]
  BY <1>0, <1>2 DEF NowClosed, ConnsOK
<1>5. CrevOK'
  BY <1>0, <1>1 DEF CrevOK
<1>6. CASE Abort /\ con' = NowClosed(c)
  <2>1. ClientOK' /\ m_con' = Null /\ closing' \in Seq(Connection)
    BY <1>6, AbortOK
  <2>2. ConnsOK'
    BY <1>0, <1>1, <1>2, <1>4, <1>6, <2>1 DEF ConnsOK
  <2> QED BY <1>5, <2>1, <2>2 DEF OneServer
<1>7. CASE ClosedUnused(c)
  <2>1. con' = NowClosed(c) /\ UNCHANGED <<closing, client>>
    BY <1>7 DEF ClosedUnused
  <2>2. ConnsOK' /\ ClientOK' /\ m_con' = m_con
    BY <1>0, <1>1, <1>2, <1>4, <2>1 DEF ConnsOK, ClientOK, client
  <2>3. ASSUME m_con # Null, NEW d \in Connection, d # m_con
        PROVE  con'[d] = "CLOSED" \/ d \in Range(closing') \cup Range(running')
    <3>1. con[d] = "CLOSED" \/ d \in Range(closing) \cup Range(running)
      BY <1>0, <2>3 DEF OneServer, IsClosing
    <3> QED BY <1>3, <1>4, <2>1, <3>1
  <2>4. OneServer'
    BY <2>2, <2>3 DEF OneServer, IsClosing
  <2> QED BY <1>5, <2>2, <2>4
<1> DEFINE Retries ==
                /\ con' = NowClosed(c) /\ m_con = Null /\ m_timer_reconnect' = TRUE
                /\ UNCHANGED <<closing, m_state, m_con, m_initialized, m_correlation, m_data_cid,
                               m_timer_con_lost, loop, died>>
           Again ==
                /\ m_con' = Null /\ m_data_cid' = 0 /\ m_timer_con_lost' = FALSE
                /\ TryToConnect(NowClosed(c))
                /\ UNCHANGED <<closing, m_initialized, m_correlation, loop>>
<1>8. CASE Retries
  <2>2. ConnsOK' /\ ClientOK'
    BY <1>0, <1>1, <1>2, <1>4, <1>8 DEF ConnsOK, ClientOK
  <2> QED BY <1>5, <1>8, <2>2 DEF OneServer
<1>9. CASE Again
  <2>1. Again
    BY <1>9
  <2>2. /\ con' \in [Connection -> {"CONNECTING", "CONNECTED", "CLOSED"}]
        /\ m_state' = "CONNECTING" /\ m_timer_reconnect' = FALSE /\ died' \in {died, "connect"}
    BY <1>4, <2>1, TryToConnectType
  <2>3. ConnsOK'
    BY <1>0, <1>1, <1>2, <2>1, <2>2 DEF ConnsOK
  <2>4. ClientOK'
    <3>1. m_data_cid' \in 0 .. m_correlation' /\ m_correlation' \in Nat
      BY <1>0, <2>1 DEF ClientOK
    <3>2. m_timer_con_lost' \in BOOLEAN /\ m_timer_reconnect' \in BOOLEAN
          /\ m_initialized' \in BOOLEAN
      BY <1>0, <2>1, <2>2, Zenon DEF ClientOK
    <3> QED BY <1>0, <2>1, <2>2, <3>1, <3>2, Zenon DEF ClientOK
  <2> QED BY <1>5, <2>1, <2>3, <2>4 DEF OneServer
<1>10. ClosedLast(c) => Retries \/ (Abort /\ con' = NowClosed(c))
  BY DEF ClosedLast
<1>11. ClosedCurrent(c) => Again \/ (Abort /\ con' = NowClosed(c))
  BY Zenon DEF ClosedCurrent
<1> HIDE DEF Retries, Again
<1> QED BY <1>1, <1>6, <1>7, <1>8, <1>9, <1>10, <1>11

(* The other steps of the client.                                          *)
LEMMA LoopType ==
    ASSUME IInv,
           \/ \E c \in Connection : ConnectFail(c)
           \/ TimerConLost \/ TimerReconnect \/ CloseCmd \/ RunClosing \/ RunEnds
           \/ UNCHANGED vars
    PROVE  ConnsOK' /\ ClientOK' /\ CrevOK' /\ OneServer'
<1>0. ConnsOK /\ ClientOK /\ CrevOK /\ OneServer /\ Null \notin Connection /\ MaxFault \in Nat
  BY TypeParts, ClientAssumption
<1>1. ASSUME NEW c \in Connection, ConnectFail(c)
      PROVE  ConnsOK' /\ ClientOK' /\ CrevOK' /\ OneServer'
  <2>1. closing' \in Seq(Connection) /\ Range(closing') = Range(closing) \cup ToShut({c})
    BY <1>1, ShutGrows DEF ConnectFail
  <2>2. UNCHANGED <<con, running, client, crev>> /\ reading' = Null
        /\ faults < MaxFault /\ faults' = faults + 1
    BY <1>1 DEF ConnectFail
  <2>3. ConnsOK' /\ ClientOK' /\ CrevOK'
    BY <1>0, <2>1, <2>2 DEF ConnsOK, ClientOK, CrevOK, client
  <2>4. Keeps(m_con) /\ m_con' = m_con
    BY <2>1, <2>2 DEF Keeps, client
  <2> QED BY <1>0, <2>3, <2>4, KeepsOne
<1>2. CASE TimerConLost
  <2>1. closing' \in Seq(Connection) /\ Range(closing) \subseteq Range(closing')
    <3>1. CASE m_con # Null
      <4>1. {m_con} \in SUBSET Connection /\ closing' = Shut({m_con})
        BY <1>0, <1>2, <3>1 DEF TimerConLost, ClientOK
      <4> QED BY <4>1, ShutGrows
    <3>2. CASE m_con = Null
      BY <1>0, <1>2, <3>2 DEF TimerConLost, ConnsOK
    <3> QED BY <3>1, <3>2
  <2>2. ConnsOK' /\ CrevOK'
    BY <1>0, <1>2, <2>1 DEF TimerConLost, ConnsOK, CrevOK
  <2>3. ClientOK'
    BY <1>0, <1>2 DEF TimerConLost, ClientOK
  <2>4. Keeps(m_con) /\ m_con' = m_con
    BY <1>2, <2>1 DEF TimerConLost, Keeps
  <2> QED BY <1>0, <2>2, <2>3, <2>4, KeepsOne
<1>3. CASE TimerReconnect
  <2>1. m_state # "OFFLINE"
    BY <1>0 DEF ClientOK
  <2>2. UNCHANGED <<con, closing, running, m_con, m_state, m_initialized, m_correlation, m_data_cid,
                    m_timer_con_lost, loop, died, crev, faults>>
        /\ m_timer_reconnect' = FALSE /\ reading' = Null
    BY <1>3, <2>1 DEF TimerReconnect
  <2> QED BY <1>0, <2>2 DEF ConnsOK, ClientOK, CrevOK, OneServer, IsClosing
<1>4. CASE CloseCmd
  <2>1. ClientOK' /\ m_con' = Null /\ closing' \in Seq(Connection)
    BY <1>4, AbortOK DEF CloseCmd
  <2>2. ConnsOK' /\ CrevOK'
    BY <1>0, <1>4, <2>1 DEF CloseCmd, ConnsOK, CrevOK
  <2> QED BY <2>1, <2>2 DEF OneServer
<1>5. CASE RunClosing
  <2>1. /\ running' = closing /\ closing' = <<>> /\ running = <<>> /\ reading' = Null
        /\ UNCHANGED <<con, client, crev, faults>>
    BY <1>5 DEF RunClosing, Poll
  <2>2. ConnsOK' /\ ClientOK' /\ CrevOK' /\ m_con' = m_con
    BY <1>0, <2>1, EmptySeq DEF ConnsOK, ClientOK, CrevOK, client
  <2>3. Keeps(m_con)
    <3>1. Range(running) = {}
      BY <2>1 DEF Range
    <3> QED BY <2>1, <3>1 DEF Keeps
  <2> QED BY <1>0, <2>2, <2>3, KeepsOne
<1>6. CASE RunEnds
  <2>1. /\ loop' = "ended" /\ m_state' = "CLOSED" /\ m_con' = Null /\ closing' = <<>>
        /\ con' = [c \in Connection |-> IF c \in Range(running) THEN con[c] ELSE "CLOSED"]
        /\ reading' = Null /\ m_timer_con_lost' = FALSE /\ m_timer_reconnect' = FALSE
        /\ UNCHANGED <<running, m_initialized, m_correlation, m_data_cid, died, crev, faults>>
    BY <1>6 DEF RunEnds
  <2>2. ConnsOK' /\ CrevOK'
    BY <1>0, <2>1, EmptySeq DEF ConnsOK, CrevOK
  <2>3. ClientOK'
    BY <1>0, <2>1 DEF ClientOK
  <2> QED BY <2>1, <2>2, <2>3 DEF OneServer
<1>7. CASE UNCHANGED vars
  BY <1>0, <1>7 DEF vars, conns, client, ConnsOK, ClientOK, CrevOK, OneServer, IsClosing
<1> QED BY <1>1, <1>2, <1>3, <1>4, <1>5, <1>6, <1>7

LEMMA ServerType ==
    ASSUME IInv,
           \/ ServerCommit
           \/ \E c \in Connection : ServerAnswer(c) \/ ServerPush(c) \/ ServerClose(c)
    PROVE  ConnsOK' /\ ClientOK' /\ CrevOK' /\ OneServer'
<1>0. /\ ConnsOK /\ ClientOK /\ CrevOK /\ OneServer /\ MaxFault \in Nat
      /\ InitialRev \in Nat /\ MaxRev \in Nat
  BY TypeParts, ClientAssumption
<1>1. UNCHANGED <<con, closing, running, client>> /\ reading' = Null
  BY DEF ServerCommit, ServerAnswer, ServerPush, ServerClose
<1>2. crev' = crev \/ (crev < MaxRev /\ crev' = crev + 1)
  BY DEF ServerCommit, ServerAnswer, ServerPush, ServerClose
<1>3. faults' = faults \/ (faults < MaxFault /\ faults' = faults + 1)
  BY DEF ServerCommit, ServerAnswer, ServerPush, ServerClose
<1>4. ClientOK' /\ OneServer'
  BY <1>0, <1>1 DEF ClientOK, OneServer, IsClosing, client
<1>5. CrevOK' /\ ConnsOK'
  BY <1>0, <1>1, <1>2, <1>3 DEF CrevOK, ConnsOK
<1> QED BY <1>4, <1>5

-----------------------------------------------------------------------------
LEMMA InitInv == Init => IInv
<1> SUFFICES ASSUME Init PROVE IInv
  OBVIOUS
<1>1. <<>> \in Seq(Connection) /\ <<>> \in Seq(RequestRec) /\ <<>> \in Seq(MsgRec) /\ Len(<<>>) = 0
  BY EmptySeq
<1>2. TypeOK /\ OneServer
  <2>1. /\ con \in [Connection -> {"CONNECTING", "CONNECTED", "CLOSED"}]
        /\ closing \in Seq(Connection) /\ running \in Seq(Connection)
        /\ reading \in Connection \cup {Null} /\ m_con \in Connection \cup {Null}
    BY <1>1 DEF Init
  <2>2. m_initialized \in BOOLEAN /\ m_timer_con_lost \in BOOLEAN /\ m_timer_reconnect \in BOOLEAN
    BY Zenon DEF Init
  <2>3. /\ m_rev \in 0 .. MaxRev /\ m_correlation \in Nat /\ m_data_cid \in 0 .. m_correlation
        /\ crev \in InitialRev .. MaxRev /\ faults \in 0 .. MaxFault /\ told \in 0 .. MaxRev
    BY ClientAssumption DEF Init
  <2>4. /\ m_state \in {"CONNECTING", "LOADING_SNAPSHOT", "SYNCING", "SYNCED", "CLOSED"}
        /\ loop \in {"running", "stopped", "ended"} /\ died \in {"none", "connect", "update"}
    BY DEF Init
  <2>5. OneServer
    BY DEF Init, OneServer
  <2> QED BY <2>1, <2>2, <2>3, <2>4, <2>5, Zenon DEF TypeOK
<1>3. NetworkOK
  BY <1>1 DEF Init, NetworkOK
<1>4. /\ \A c \in Connection : outbox[c] = <<>> /\ inbox[c] = <<>> /\ stream[c] = Null
      /\ m_rev = 0 /\ told = 0 /\ crev \in Nat /\ m_con = Null /\ m_state = "CONNECTING"
      /\ died = "none" /\ m_initialized = FALSE
  BY ClientAssumption DEF Init
<1>5. Known
  BY <1>1, <1>4 DEF Known
<1>6. TurnsOK
  BY <1>1, <1>4 DEF TurnsOK, Turns
<1>7. Session /\ SyncedCaughtUp
  BY <1>4 DEF Session, SyncedCaughtUp
<1>8. Gapless
  BY <1>1, <1>4 DEF Gapless, Served
<1> QED BY <1>2, <1>3, <1>5, <1>6, <1>7, <1>8 DEF IInv

LEMMA NextInv ==
    ASSUME IInv, [Next]_vars
    PROVE  IInv'
<1>1. NetInv'
  BY NetStep
<1>2. ConnsOK' /\ ClientOK' /\ CrevOK' /\ OneServer'
  BY ConnectType, ReceiveType, CloseCallbackType, LoopType, ServerType DEF Next
<1>3. m_rev' \in 0 .. MaxRev /\ told' \in 0 .. MaxRev
  BY <1>1, <1>2, ClientAssumption DEF NetInv, Known, CrevOK
<1>4. TypeOK'
  BY <1>2, <1>3, Zenon DEF TypeOK, ConnsOK, ClientOK, CrevOK
<1> QED BY <1>1, <1>2, <1>4 DEF IInv, NetInv, Populates

LEMMA Invariance == Spec => []IInv
<1>1. Init => IInv
  BY InitInv
<1>2. IInv /\ [Next]_vars => IInv'
  BY NextInv
<1> QED BY <1>1, <1>2, PTL DEF Spec

(* The client's state is well formed whatever the order of the callbacks,  *)
(* the losses and the commands: only the states that run() and the         *)
(* handlers know are reached, OFFLINE is not among them, and the store     *)
(* never has a revision that the cluster has not.                          *)
THEOREM ClientTypeOK == Spec => []TypeOK
<1>1. IInv => TypeOK
  BY DEF IInv
<1> QED BY <1>1, Invariance, PTL

(* process_login_resp() and the asynchronous uv_close(): with any number   *)
(* of servers, when one of them is m_con the others are closed, or will be *)
(* at the end of the turn of the event loop.                               *)
THEOREM OneServerAtATime == Spec => []OneServer
<1>1. IInv => OneServer
  BY DEF IInv
<1> QED BY <1>1, Invariance, PTL

(* process_updates_resp() and process_updates_push(): a client that is     *)
(* SYNCED has every commit that the server announced when it answered the  *)
(* request for updates, with an initial revision or without one.           *)
THEOREM SyncedHasCaughtUp == Spec => []SyncedCaughtUp
<1>1. IInv => SyncedCaughtUp
  BY DEF IInv
<1> QED BY <1>1, Invariance, PTL

(* A client that loads a snapshot never receives an update that its store  *)
(* has already: the exception of store_t::update(), which would end the    *)
(* event loop, is not thrown over any number of reconnections.             *)
THEOREM NoUpdateReceivedTwice ==
    ASSUME m_rev0 > 0, OldestRev > 0
    PROVE  Spec => []NoUpdateTwice
<1>1. IInv => NoUpdateTwice
  BY DEF IInv, Gapless, Populates, NoUpdateTwice
<1> QED BY <1>1, Invariance, PTL

(* Nor does its store skip a revision, whichever the servers it was        *)
(* connected to and whatever was in flight when a connection was lost.     *)
THEOREM NoUpdateIsMissed ==
    ASSUME m_rev0 > 0, OldestRev > 0
    PROVE  Spec => NoUpdateMissed
<1>1. IInv /\ [Next]_vars => [m_initialized => m_rev' = m_rev + 1]_m_rev
  <2> SUFFICES ASSUME IInv, [Next]_vars, m_initialized, m_rev' # m_rev PROVE m_rev' = m_rev + 1
    OBVIOUS
  <2>1. PICK c \in Connection : Receive(c)
    <3>1. ASSUME NEW c \in Connection PROVE ~ConnectOK(c) /\ ~ConnectFail(c)
      BY DEF ConnectOK, ConnectFail, client
    <3>2. ASSUME NEW c \in Connection PROVE ~ServerAnswer(c) /\ ~ServerPush(c) /\ ~ServerClose(c)
      BY DEF ServerAnswer, ServerPush, ServerClose, client
    <3>3. ~TimerConLost /\ ~TimerReconnect /\ ~CloseCmd /\ ~RunClosing /\ ~RunEnds /\ ~ServerCommit
      BY DEF TimerConLost, TimerReconnect, CloseCmd, RunClosing, RunEnds, ServerCommit, client
    <3>4. ~CloseCallback
      BY DEF CloseCallback, ClosedUnused, ClosedLast, ClosedCurrent, client
    <3>5. ~UNCHANGED vars
      BY DEF vars, client
    <3> QED BY <3>1, <3>2, <3>3, <3>4, <3>5 DEF Next
  <2> DEFINE msg == Head(inbox[c])
  <2>2. Takes(c) /\ msg = inbox[c][1] /\ msg.type \in {"login", "snapshot", "updates", "push", "eof"}
    <3>1. Takes(c)
      BY <2>1 DEF Receive, Takes
    <3> QED BY <3>1, TakesIs DEF MsgRec
  <2>3. ~Refuse(c)
    BY DEF Refuse, client
  <2>4. ~LoginResp(c, msg)
    <3>1. \A throws : ~LoginAccepted(c, msg, throws)
      BY DEF LoginAccepted
    <3> QED BY <2>3, <3>1 DEF LoginResp
  <2>5. c = m_con /\ m_rev0 # 0
    <3>1. m_rev0 # 0
      BY ClientAssumption
    <3> QED BY <2>1, <2>2, <2>3, <2>4, <3>1 DEF Receive
  <2>6. ~SnapshotResp(c, msg)
    <3>1. m_state # "LOADING_SNAPSHOT"
      BY <2>2, <2>5, TakesOf
    <3> QED BY <2>3, <3>1 DEF SnapshotResp
  <2>7. ~UpdatesResp(c, msg)
    BY <2>3, <2>5 DEF UpdatesResp
  <2>8. UpdatesPush(c, msg) /\ msg.type = "push"
    BY <2>1, <2>2, <2>3, <2>4, <2>6, <2>7 DEF Receive
  <2>9. m_state # "LOADING_SNAPSHOT" /\ m_rev \in Nat
    BY <2>2, <2>5, <2>8, TakesOf
  <2>10. msg.rev = m_rev + 1
    <3>1. Populates
      BY DEF Populates
    <3>2. /\ Following(outbox[c], inbox[c], told)
          /\ NoGap(outbox[c], inbox[c], stream[c], m_rev)
      BY <2>2, <2>5, <2>9, <3>1, TakesOf
    <3>3. inbox[c] \in Seq(MsgRec) /\ inbox[c] # <<>> /\ Turns(outbox[c], inbox[c], stream[c])
      BY <2>2, TakesIs
    <3> QED BY <2>2, <2>8, <2>9, <3>2, <3>3, NoGapTail
  <2> QED BY <2>3, <2>8, <2>9, <2>10 DEF UpdatesPush
<1> QED BY <1>1, Invariance, PTL DEF Spec, NoUpdateMissed
=============================================================================
