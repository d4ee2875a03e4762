------------------------------ MODULE Channel -------------------------------
(***************************************************************************)
(* What one direction of a connection promises the processes that use it   *)
(* (src/distributer.c): messages are handed on in the order in which they  *)
(* were sent, none twice and none left out, until the stream is torn.      *)
(* From then on nothing is promised any more.  Wire, the model of the send *)
(* and the receive process, is shown to implement this specification.      *)
(***************************************************************************)
EXTENDS Naturals, Sequences

CONSTANTS
  MaxMessages, \* bound on the number of messages sent
  Garbage      \* what is handed on but was never sent

VARIABLES
  sent,        \* the number of messages sent
  delivered,   \* the messages handed on, each as its number
  torn         \* the receiver is out of step with the sender

channelVars == <<sent, delivered, torn>>

ChannelInit ==
  /\ sent = 0
  /\ delivered = <<>>
  /\ torn = FALSE

Transmit ==
  /\ sent < MaxMessages
  /\ sent' = sent + 1
  /\ UNCHANGED <<delivered, torn>>

\* The next message is handed on.
Deliver ==
  /\ Len(delivered) < sent
  /\ delivered' = Append(delivered, Len(delivered) + 1)
  /\ UNCHANGED <<sent, torn>>

Tear ==
  /\ torn' = TRUE
  /\ UNCHANGED <<sent, delivered>>

\* Some message that was sent, or anything else, is handed on.
DeliverAnything ==
  /\ torn
  /\ \E m \in 1 .. sent \union {Garbage} : delivered' = Append(delivered, m)
  /\ UNCHANGED <<sent, torn>>

ChannelNext ==
  \/ Transmit
  \/ Deliver
  \/ Tear
  \/ DeliverAnything

ChannelSpec == ChannelInit /\ [][ChannelNext]_channelVars
=============================================================================
