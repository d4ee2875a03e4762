------------------------------ MODULE Mailbox ------------------------------
(***************************************************************************)
(* What a libactor message queue promises its users (include/message.h):   *)
(* an unbounded first-in first-out mailbox.  A message is in one place at  *)
(* a time: in the hands of the one thread that created or received it, or  *)
(* in the queue.  MessageQueue, the model of src/message.c, is shown to    *)
(* implement this specification.                                           *)
(***************************************************************************)
EXTENDS Sequences

CONSTANTS
  Senders,     \* threads that create messages and put them
  Receivers,   \* threads that get messages and release them
  Messages,    \* the message objects malloc can hand out
  NULL         \* the null pointer

Threads == Senders \union Receivers

VARIABLES
  queue,       \* the messages put and not yet got, oldest first
  held         \* the message each thread owns, or NULL

mailboxVars == <<queue, held>>

Queued == {queue[i] : i \in DOMAIN queue}

Owned == {held[t] : t \in Threads}

MailboxInit ==
  /\ queue = <<>>
  /\ held = [t \in Threads |-> NULL]

\* A sender obtains a message object that nobody else refers to.
Obtain(t, m) ==
  /\ held[t] = NULL
  /\ m \notin Queued \union Owned
  /\ held' = [held EXCEPT ![t] = m]
  /\ UNCHANGED queue

\* The sender gives its message away; it becomes the newest of the queue.
Put(t) ==
  /\ held[t] # NULL
  /\ queue' = Append(queue, held[t])
  /\ held' = [held EXCEPT ![t] = NULL]

\* A receiver becomes the owner of the oldest message.
Get(t) ==
  /\ held[t] = NULL
  /\ queue # <<>>
  /\ held' = [held EXCEPT ![t] = Head(queue)]
  /\ queue' = Tail(queue)

\* A receiver is done with its message.
Dispose(t) ==
  /\ held[t] # NULL
  /\ held' = [held EXCEPT ![t] = NULL]
  /\ UNCHANGED queue

MailboxNext ==
  \/ \E t \in Senders, m \in Messages : Obtain(t, m)
  \/ \E t \in Senders : Put(t)
  \/ \E t \in Receivers : Get(t) \/ Dispose(t)

MailboxSpec == MailboxInit /\ [][MailboxNext]_mailboxVars
=============================================================================
