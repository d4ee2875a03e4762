-------------------------------- MODULE Wire --------------------------------
(***************************************************************************)
(* One direction of a connection: the loop of the sender on one node, the  *)
(* loop of the receiver on the other, and the stream of bytes between them *)
(* (actor_distributer_message_send and actor_distributer_message_receive   *)
(* of src/distributer.c).  A message is a header, which tells its size,    *)
(* and a body.  A recv returns what has arrived, at most what was asked    *)
(* for: a header is asked for once, a body until it is complete.  A recv   *)
(* that waits for too long returns an error, since connect and listen set  *)
(* a timeout on the socket.                                                *)
(*                                                                         *)
(* Messages are numbered as they are sent.  What a message says is its     *)
(* size and its bytes, and a byte is denoted by its place.                 *)
(***************************************************************************)
EXTENDS Naturals, Sequences

CONSTANTS
  HeaderSize,  \* sizeof(actor_distributer_header_s)
  Sizes,       \* the sizes a message may have
  MaxMessages, \* bound on the number of messages sent
  Garbage      \* what is handed on but was never sent

ASSUME WireAssumption ==
  /\ HeaderSize \in Nat \ {0}
  /\ Sizes \subseteq Nat
  /\ MaxMessages \in Nat
  /\ Garbage \notin Nat

VARIABLES
  sent,        \* the size of each message that has been begun to be sent
  sender,      \* where the sender is
  stream,      \* the bytes sent and not yet received
  closed,      \* one of the two sides has shut the connection down
  receiver,    \* where the receiver is
  msg,         \* the message whose header was received, or Garbage
  size,        \* header.message_size
  data,        \* the bytes of the body received so far
  delivered,   \* history: what was handed on
  torn         \* history: the receiver has lost part of a message

vars == <<sent, sender, stream, closed, receiver, msg, size, data, delivered,
          torn>>

senderVars == <<sent, sender>>
receiverVars == <<receiver, msg, size, data, delivered, torn>>

Numbers == 1 .. MaxMessages

\* Places 1 .. HeaderSize of a message are its header, the rest is its body.
Byte == Numbers \X Nat
Header(n) == [i \in 1 .. HeaderSize |-> <<n, i>>]
Body(n) == [i \in 1 .. sent[n] |-> <<n, HeaderSize + i>>]

Init ==
  /\ sent = <<>>
  /\ sender = "loop"
  /\ stream = <<>>
  /\ closed = FALSE
  /\ receiver = "header"
  /\ msg = Garbage
  /\ size = 0
  /\ data = <<>>
  /\ delivered = <<>>
  /\ torn = FALSE

-----------------------------------------------------------------------------
(* actor_distributer_message_send, from the message it has received on.    *)

\* What is sent into a connection that has been closed may be lost unnoticed.
Sent(bytes) == stream' = IF closed THEN stream ELSE stream \o bytes

SendHeader(s) ==
  /\ sender = "loop"
  /\ Len(sent) < MaxMessages
  /\ sent' = Append(sent, s)
  /\ Sent([i \in 1 .. HeaderSize |-> <<Len(sent'), i>>])
  /\ sender' = "body"
  /\ UNCHANGED <<closed, receiverVars>>

\* A send of no bytes returns 0, which is taken for an error.
SendBody ==
  /\ sender = "body"
  /\ Sent(Body(Len(sent)))
  /\ sender' = IF sent[Len(sent)] = 0 THEN "ended" ELSE "loop"
  /\ UNCHANGED <<sent, closed, receiverVars>>

\* A send fails, or the supervisor of a connection that has been shut down tells
\* the sender to stop.
SendFails ==
  /\ sender \in {"loop", "body"}
  /\ closed
  /\ sender' = "ended"
  /\ UNCHANGED <<sent, stream, closed, receiverVars>>

-----------------------------------------------------------------------------
(* actor_distributer_message_receive.                                      *)

\* A recv that asks for so many bytes returns the first k of the stream.
Recv(asked, k) ==
  /\ k \in 1 .. Len(stream) /\ k <= asked
  /\ stream' = SubSeq(stream, k + 1, Len(stream))

\* Part of a header is dropped, and the rest taken for the next header.
ReceivePart(k) ==
  /\ receiver = "header"
  /\ k < HeaderSize
  /\ Recv(HeaderSize, k)
  /\ torn' = TRUE
  /\ UNCHANGED <<senderVars, closed, receiver, msg, size, data, delivered>>

\* Mutant: the size in the header is taken to count the header.
ReceiveHeaderCounted ==
  /\ receiver = "header"
  /\ Recv(HeaderSize, HeaderSize)
  /\ receiver' = "body"
  /\ data' = <<>>
  /\ msg' = stream[1][1]
  /\ size' = HeaderSize + sent[msg']
  /\ UNCHANGED <<senderVars, closed, delivered, torn>>

\* Any bytes of the right number are a header.
ReceiveHeader ==
  /\ receiver = "header"
  /\ Recv(HeaderSize, HeaderSize)
  /\ receiver' = "body"
  /\ data' = <<>>
  /\ LET bytes == SubSeq(stream, 1, HeaderSize)
         n == bytes[1][1]
     IN  IF bytes = Header(n)
         THEN msg' = n /\ size' = sent[n]
         ELSE msg' = Garbage /\ size' \in Sizes
  /\ UNCHANGED <<senderVars, closed, delivered, torn>>

\* Mutant: the data is freed before it is handed on.
HandOnNothing(bytes) ==
  /\ receiver' = "header"
  /\ UNCHANGED delivered

\* The data received is handed on with the address in the header.
HandOn(bytes) ==
  /\ delivered' = Append(delivered, IF msg # Garbage /\ bytes = Body(msg)
                                    THEN msg ELSE Garbage)
  /\ receiver' = "header"

\* Mutant: the whole body is asked for again after the first part of it.
ReceiveBodyAgain(k) ==
  /\ receiver = "body"
  /\ Recv(size, k)
  /\ data' = data \o SubSeq(stream, 1, k)
  /\ IF Len(data') >= size
     THEN HandOn(data')
     ELSE UNCHANGED <<receiver, delivered>>
  /\ UNCHANGED <<senderVars, closed, msg, size, torn>>

\* Mutant: the first part of the body is taken for all of it.
ReceiveBodyOnce(k) ==
  /\ receiver = "body"
  /\ Recv(size - Len(data), k)
  /\ data' = data \o SubSeq(stream, 1, k)
  /\ HandOn(data')
  /\ UNCHANGED <<senderVars, closed, msg, size, torn>>

ReceiveBody(k) ==
  /\ receiver = "body"
  /\ Recv(size - Len(data), k)
  /\ data' = data \o SubSeq(stream, 1, k)
  /\ IF Len(data') >= size
     THEN HandOn(data')
     ELSE UNCHANGED <<receiver, delivered>>
  /\ UNCHANGED <<senderVars, closed, msg, size, torn>>

\* The timeout has passed or there was no memory: what was received of the
\* body is dropped, and the rest of it will be taken for a header.
BodyFails ==
  /\ receiver = "body"
  /\ size > 0
  /\ receiver' = "header"
  /\ torn' = TRUE
  /\ UNCHANGED <<senderVars, stream, closed, msg, size, data, delivered>>

\* Mutant: only the end of a body is looked at for a closed connection.
ReceiveClosedInBody ==
  /\ receiver = "body"
  /\ size = 0 \/ (closed /\ stream = <<>>)
  /\ receiver' = "ended"
  /\ UNCHANGED <<senderVars, stream, closed, msg, size, data, delivered, torn>>

\* recv returns 0: the connection is closed, or the body is empty.
ReceiveClosed ==
  /\ \/ receiver \in {"header", "body"} /\ closed /\ stream = <<>>
     \/ receiver = "body" /\ size = 0
  /\ receiver' = "ended"
  /\ UNCHANGED <<senderVars, stream, closed, msg, size, data, delivered, torn>>

-----------------------------------------------------------------------------
(* The connection.                                                         *)

\* The supervisors shut it down when either process has ended; the network or
\* a disconnect may do so at any time.
Close ==
  /\ ~ closed
  /\ closed' = TRUE
  /\ UNCHANGED <<senderVars, stream, receiverVars>>

\* What is still under way may be lost with the connection.
Lose(k) ==
  /\ closed
  /\ k < Len(stream)
  /\ stream' = SubSeq(stream, 1, k)
  /\ UNCHANGED <<senderVars, closed, receiverVars>>

SenderStep ==
  \/ SendBody
  \/ SendFails

ReceiverStep ==
  \/ \E k \in 1 .. Len(stream) : ReceivePart(k) \/ ReceiveBody(k)
  \/ ReceiveHeader
  \/ BodyFails
  \/ ReceiveClosed

Next ==
  \/ \E s \in Sizes : SendHeader(s)
  \/ SenderStep
  \/ ReceiverStep
  \/ Close
  \/ \E k \in 0 .. Len(stream) : Lose(k)

Spec == Init /\ [][Next]_vars

Fairness ==
  /\ WF_vars(SenderStep)
  /\ WF_vars(ReceiverStep)
  /\ WF_vars("ended" \in {sender, receiver} /\ Close)

FairSpec == Spec /\ Fairness

-----------------------------------------------------------------------------
(* Properties.                                                             *)

TypeOK ==
  /\ sent \in Seq(Sizes) /\ Len(sent) <= MaxMessages
  /\ sender \in {"loop", "body", "ended"}
  /\ stream \in Seq(Byte)
  /\ closed \in BOOLEAN
  /\ receiver \in {"header", "body", "ended"}
  /\ msg \in Numbers \union {Garbage}
  /\ size \in Sizes \union {0}
  /\ data \in Seq(Byte)
  /\ delivered \in Seq(Numbers \union {Garbage})
  /\ torn \in BOOLEAN

\* The place that follows place b in what is sent.
NextPlace(b) == IF b[2] < HeaderSize + sent[b[1]] THEN <<b[1], b[2] + 1>>
                                              ELSE <<b[1] + 1, 1>>

\* What was received of the message at hand, and what is under way.
Ahead == (IF receiver = "body" THEN Header(msg) \o data ELSE <<>>) \o stream

\* Until part of a message is lost, what the receiver reads goes on where it
\* has stopped, without a gap, whatever the sizes of the messages and of the
\* parts in which they arrive (distributer.c:90, 112-135).
InStep ==
  ~ torn /\ receiver # "ended" =>
    /\ \A i \in 1 .. Len(Ahead) - 1 : Ahead[i + 1] = NextPlace(Ahead[i])
    /\ Ahead # <<>> => Ahead[1] = <<Len(delivered) + 1, 1>>

\* The connection is a channel: nothing is handed on twice, out of order or
\* in part (distributer.c:143).
C == INSTANCE Channel WITH sent <- Len(sent)
ImplementsChannel == C!ChannelSpec

\* A message sent in full is handed on, if the connection holds.
SentIsDelivered ==
  \A n \in Numbers :
    n <= Len(sent) /\ sender = "loop" ~> Len(delivered) >= n \/ torn \/ closed

\* When one of the two processes ends, so does the other, wherever it is and
\* however far out of step (distributer.c:60, 71, 94, 121): an empty message,
\* which the sender takes for an error, leaves no receiver behind.
EndTogether == "ended" \in {sender, receiver} ~> {sender, receiver} = {"ended"}
=============================================================================
