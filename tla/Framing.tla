------------------------------- MODULE Framing -------------------------------
(***************************************************************************)
(* Messages on a connection (utils/msglenrtns.c, library/socketsend.c,     *)
(* library/socketrecv.c, ShortToBuf and BufToShort of utils/strutils.c).   *)
(* One program sends on a byte stream and one receives; send() and recv()  *)
(* take any number of bytes.  A message ends with a null character ("N"),  *)
(* or begins with two bytes that have its total length ("T") or that of    *)
(* what follows ("M").  A byte is a number; the text of message k is made  *)
(* of the byte k.                                                          *)
(***************************************************************************)
EXTENDS Integers, Sequences, SequencesExt

CONSTANTS MaxMsgs, MaxText      \* bounds: messages sent, bytes in each

ASSUME FramingAssumption == MaxMsgs \in 0..255 /\ MaxText \in 0..255

VARIABLES
    msglenInd,  \* "N", "T" or "M"
    sender,     \* the routine that sends
    receiver,   \* the routine that receives
    pipelines,  \* does the sender send before its last message is taken?
    wireEnd,    \* is the connection "open", "closed" or "reset"?
    unsent,     \* what is left of the buffer of the sender, behind prevBytesSent
    wire,       \* the bytes under way
    prevMsg,    \* the bytes received
    taken, sent \* history: the texts the receiver got, and the texts sent

framingVars ==
    <<msglenInd, sender, receiver, pipelines, wireEnd, unsent, wire, prevMsg, taken, sent>>
framingKind == <<msglenInd, sender, receiver, pipelines>>

Senders   == {"SocketSendNoYield", "SocketSendYield"}
Receivers == {"SocketRecvByClient", "SocketRecv", "SocketRecvByServer"}
MSG_WITH_NULL == "N"  MSG_WITH_TOTLEN == "T"  MSG_WITH_MSGLEN == "M"
SZ_MSGLEN_IN_MSG == 2

\* A short is 16 bits, two's complement; a byte is unsigned.
ShortToBuf(value) == <<((value % 65536) \div 256) % 256, value % 256>>
BufToShort(buf) ==
    LET unsigned == buf[1] * 256 + buf[2] IN
    IF unsigned < 32768 THEN unsigned ELSE unsigned - 65536

MsgStartPos(ind) == IF ind = MSG_WITH_NULL THEN 0 ELSE SZ_MSGLEN_IN_MSG
MsgLenFromXmitLen(ind, xmitLen) ==
    IF ind = MSG_WITH_NULL THEN xmitLen - 1 ELSE xmitLen - SZ_MSGLEN_IN_MSG
MsgLenToBuf(ind, msgLen) ==
    ShortToBuf(IF ind = MSG_WITH_TOTLEN THEN msgLen + SZ_MSGLEN_IN_MSG ELSE msgLen)

\* The bytes that are sent for a text (setupResponse), and the text of a message
\* that was received.
Xmit(ind, text) == IF ind = MSG_WITH_NULL THEN Append(text, 0)
                   ELSE MsgLenToBuf(ind, Len(text)) \o text
TextOf(ind, msg) ==
    SubSeq(msg, MsgStartPos(ind) + 1, MsgStartPos(ind) + MsgLenFromXmitLen(ind, Len(msg)))

\* IsMsgComplete: the length of the first message in the buffer, 0 if it is not
\* complete.
LenInMsg(ind, bytes) ==
    CASE ind = MSG_WITH_NULL -> SelectInSeq(bytes, LAMBDA b : b = 0)
      [] ind # MSG_WITH_NULL /\ Len(bytes) < SZ_MSGLEN_IN_MSG -> 0
      [] OTHER -> LET len == BufToShort(bytes)
                             + IF ind = MSG_WITH_MSGLEN THEN SZ_MSGLEN_IN_MSG ELSE 0
                  IN  IF Len(bytes) >= len THEN len ELSE 0
IsMsgComplete(ind, bytes) == LenInMsg(ind, bytes) > 0

FramingInit ==
    /\ msglenInd = "none" /\ sender = "none" /\ receiver = "none" /\ pipelines = FALSE
    /\ wireEnd = "open"
    /\ unsent = <<>> /\ wire = <<>> /\ prevMsg = <<>> /\ taken = <<>> /\ sent = <<>>

\* The start options of the two programs, and what they are.
SetIndicator ==
    /\ msglenInd = "none" /\ msglenInd' \in {MSG_WITH_NULL, MSG_WITH_TOTLEN, MSG_WITH_MSGLEN}
    /\ sender' \in Senders /\ receiver' \in Receivers /\ pipelines' \in BOOLEAN
    /\ UNCHANGED <<wireEnd, unsent, wire, prevMsg, taken, sent>>

\* A caller of the send routines; while one message is being sent the mutex keeps
\* the next out.
SendMsg ==
    /\ msglenInd # "none" /\ wireEnd = "open" /\ unsent = <<>> /\ Len(sent) < MaxMsgs
    /\ pipelines \/ Len(taken) = Len(sent)
    /\ \E n \in 0..MaxText :
          LET text == [i \in 1..n |-> Len(sent) + 1] IN
          sent' = Append(sent, text) /\ unsent' = Xmit(msglenInd, text)
    /\ UNCHANGED <<framingKind, wireEnd, wire, prevMsg, taken>>

\* One send(): the rest is sent from where this one stopped.
SendBytes ==
    /\ unsent # <<>> /\ wireEnd = "open"
    /\ \E n \in 1..Len(unsent) :
          /\ wire' = wire \o SubSeq(unsent, 1, n)
          /\ unsent' = SubSeq(unsent, n + 1, Len(unsent))
    /\ UNCHANGED <<framingKind, wireEnd, prevMsg, taken, sent>>
\* On a reset the one returns 1 and the other ends its program.
SendReset ==
    /\ unsent # <<>> /\ wireEnd = "reset" /\ unsent' = <<>>
    /\ UNCHANGED <<framingKind, wireEnd, wire, prevMsg, taken, sent>>

\* SocketSendNoYield sends until it is through, SocketSendYield once each time that
\* its caller's poll() allows it.
SocketSendNoYield == sender = "SocketSendNoYield" /\ (SendBytes \/ SendReset)
SocketSendYield == sender = "SocketSendYield" /\ (SendBytes \/ SendReset)

\* The receivers that take one message at a time out of the buffer.
Whole == receiver \in {"SocketRecvByClient", "SocketRecvByServer"}

\* Mutant: what came with the end of a message is dropped with the message.
TakeAll ==
    /\ Whole /\ IsMsgComplete(msglenInd, prevMsg)
    /\ LET n == LenInMsg(msglenInd, prevMsg) IN
          taken' = Append(taken, TextOf(msglenInd, SubSeq(prevMsg, 1, n))) /\ prevMsg' = <<>>
    /\ UNCHANGED <<framingKind, wireEnd, unsent, wire, sent>>

\* MsgGetComplete moves the first message out of the buffer and the rest up; the
\* caller takes every complete message before it receives again.
MsgGetComplete ==
    /\ Whole /\ IsMsgComplete(msglenInd, prevMsg)
    /\ LET n == LenInMsg(msglenInd, prevMsg) IN
          /\ taken' = Append(taken, TextOf(msglenInd, SubSeq(prevMsg, 1, n)))
          /\ prevMsg' = SubSeq(prevMsg, n + 1, Len(prevMsg))
    /\ UNCHANGED <<framingKind, wireEnd, unsent, wire, sent>>

\* One recv() of n bytes, and what is in the buffer then.
Recv(n) == wire # <<>> /\ wireEnd # "reset" /\ wire' = SubSeq(wire, n + 1, Len(wire))
Buffer(n) == prevMsg \o SubSeq(wire, 1, n)
\* recv() returns 0, or -1 with ECONNRESET: the buffers are freed.
Disconnected ==
    /\ wireEnd # "open" /\ (wire = <<>> \/ wireEnd = "reset")
    /\ prevMsg # <<>> /\ prevMsg' = <<>> /\ UNCHANGED wire

\* It receives until a message is complete.
SocketRecvByClient ==
    /\ receiver = "SocketRecvByClient" /\ ~IsMsgComplete(msglenInd, prevMsg)
    /\ Disconnected \/ \E n \in 1..Len(wire) : Recv(n) /\ prevMsg' = Buffer(n)
    /\ UNCHANGED <<framingKind, wireEnd, unsent, taken, sent>>
\* It receives once; its caller takes the messages.
SocketRecvByServer ==
    /\ receiver = "SocketRecvByServer" /\ ~IsMsgComplete(msglenInd, prevMsg)
    /\ Disconnected \/ \E n \in 1..Len(wire) : Recv(n) /\ prevMsg' = Buffer(n)
    /\ UNCHANGED <<framingKind, wireEnd, unsent, taken, sent>>
\* It receives once and says whether the buffer has a message: its caller takes all
\* of the buffer for it.
SocketRecv ==
    /\ receiver = "SocketRecv" /\ UNCHANGED <<framingKind, wireEnd, unsent, sent>>
    /\ \/ Disconnected /\ UNCHANGED taken
       \/ \E n \in 1..Len(wire) :
             /\ Recv(n)
             /\ IF IsMsgComplete(msglenInd, Buffer(n))
                THEN taken' = Append(taken, TextOf(msglenInd, Buffer(n))) /\ prevMsg' = <<>>
                ELSE prevMsg' = Buffer(n) /\ UNCHANGED taken

\* The sender closes, which may cut its message short; or the connection is reset,
\* which drops what is under way.
CloseWire ==
    /\ msglenInd # "none" /\ wireEnd = "open"
    /\ \/ wireEnd' = "closed" /\ unsent' = <<>> /\ UNCHANGED wire
       \/ wireEnd' = "reset" /\ wire' = <<>> /\ UNCHANGED unsent
    /\ UNCHANGED <<framingKind, prevMsg, taken, sent>>

FramingNext == \/ SetIndicator \/ SendMsg \/ SocketSendNoYield \/ SocketSendYield \/ MsgGetComplete
               \/ SocketRecvByClient \/ SocketRecvByServer \/ SocketRecv \/ CloseWire
FramingSpec == FramingInit /\ [][FramingNext]_framingVars
-----------------------------------------------------------------------------
\* Whatever the pieces they travel in, the receiver gets the messages whole, in
\* order and once, and when nothing is under way any more it has got them all; for
\* SocketRecv this takes a sender that waits until its message was taken.
MessagesInOrder ==
    receiver # "SocketRecv" \/ ~pipelines =>
        /\ IsPrefix(taken, sent)
        /\ wireEnd = "open" /\ unsent = <<>> /\ wire = <<>> /\ ~IsMsgComplete(msglenInd, prevMsg)
              => taken = sent /\ prevMsg = <<>>
=============================================================================
