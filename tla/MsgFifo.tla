------------------------------- MODULE MsgFifo -------------------------------
(***************************************************************************)
(* What a connection promises to the client (the callbacks that            *)
(* src/src/connection.hpp announces): a link that is opened and later      *)
(* closed, once each, and that in between hands over the messages of the   *)
(* peer one by one, whole, in order, up to the first malformed one.        *)
(***************************************************************************)
EXTENDS Naturals, Sequences

CONSTANTS
    Frame,          \* what a peer may send
    WellFormed(_)   \* is this frame a message?

VARIABLES
    link,           \* "closed", "connecting" or "connected"
    sent,           \* what the peer sent since the link was opened
    got             \* how many of these the client has received

fifo == <<link, sent, got>>

FifoInit == link = "closed" /\ sent = <<>> /\ got = 0

Open == link = "closed" /\ link' = "connecting" /\ sent' = <<>> /\ got' = 0
Established == link = "connecting" /\ link' = "connected" /\ UNCHANGED <<sent, got>>
PeerSend ==
    /\ link = "connected"
    /\ \E f \in Frame : sent' = Append(sent, f)
    /\ UNCHANGED <<link, got>>
Deliver ==
    /\ link = "connected" /\ got < Len(sent)
    /\ \A i \in 1 .. got + 1 : WellFormed(sent[i])
    /\ got' = got + 1
    /\ UNCHANGED <<link, sent>>
Closed == link # "closed" /\ link' = "closed" /\ UNCHANGED <<sent, got>>

FifoNext == Open \/ Established \/ PeerSend \/ Deliver \/ Closed

FifoSpec == FifoInit /\ [][FifoNext]_fifo
=============================================================================
