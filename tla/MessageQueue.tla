---------------------------- MODULE MessageQueue ----------------------------
(***************************************************************************)
(* The message queue of src/message.c: a singly linked list of messages    *)
(* between the pointers first and last, a binary semaphore                 *)
(* semaphore_read_write that serialises the list operations, and a         *)
(* counting semaphore semaphore_messages that lets a get wait for a        *)
(* message.  One action is one step of a thread on shared memory, so that  *)
(* every interleaving of concurrent puts and gets is a behaviour.          *)
(*                                                                         *)
(* The life of the queue itself (create and release) belongs to the node   *)
(* that registers it; here the queue exists throughout.                    *)
(***************************************************************************)
EXTENDS Naturals, Sequences, FiniteSets

CONSTANTS
  Senders,     \* threads that create messages and put them
  Receivers,   \* threads that get messages and release them
  Messages,    \* the message objects malloc can hand out
  NULL         \* the null pointer

ASSUME ThreadsAssumption ==
  /\ IsFiniteSet(Senders)
  /\ IsFiniteSet(Receivers)

ASSUME NullAssumption == NULL \notin Messages

Threads == Senders \union Receivers

MessagePointers == Messages \union {NULL}

VARIABLES
  heap,                 \* the message objects allocated at present
  next,                 \* message->next
  first,                \* queue->first
  last,                 \* queue->last
  semaphore_read_write, \* value of the list lock
  semaphore_messages,   \* value of the message counter
  pc,                   \* where each thread is
  message,              \* the local message pointer of each thread
  chain                 \* history: the messages linked and not yet unlinked

vars == <<heap, next, first, last, semaphore_read_write, semaphore_messages,
          pc, message, chain>>

listVars == <<next, first, last, chain>>

\* The points of a thread between the wait and the signal of the list lock.
PutSection == {"put_test", "put_first", "put_link", "put_last", "put_signal",
               "put_unlock"}
GetSection == {"get_read", "get_advance", "get_last", "get_unlock",
               "get_empty"}
Section == PutSection \union GetSection

Points == {"idle", "put_wait", "get_wait", "get_lock", "get_detach", "got"}
            \union Section

Init ==
  /\ heap = {}
  /\ next = [m \in Messages |-> NULL]
  /\ first = NULL
  /\ last = NULL
  /\ semaphore_read_write = 1
  /\ semaphore_messages = 0
  /\ pc = [t \in Threads |-> "idle"]
  /\ message = [t \in Threads |-> NULL]
  /\ chain = <<>>

Goto(t, from, to) ==
  /\ pc[t] = from
  /\ pc' = [pc EXCEPT ![t] = to]

-----------------------------------------------------------------------------
(* dispatch_semaphore_wait and dispatch_semaphore_signal of libdispatch.   *)

Wait(value, newValue) == value > 0 /\ newValue = value - 1

Signal(value, newValue) == newValue = value + 1

-----------------------------------------------------------------------------
(* actor_message_create, and actor_message_queue_put up to its wait.       *)

\* A new message is unlinked; the sender goes on to put it.
Create(t, m) ==
  /\ Goto(t, "idle", "put_wait")
  /\ m \notin heap
  /\ heap' = heap \union {m}
  /\ next' = [next EXCEPT ![m] = NULL]
  /\ message' = [message EXCEPT ![t] = m]
  /\ UNCHANGED <<first, last, semaphore_read_write, semaphore_messages, chain>>

\* Mutant: the list lock is not taken.
PutWaitUnlocked(t) ==
  /\ Goto(t, "put_wait", "put_test")
  /\ UNCHANGED <<heap, listVars, semaphore_read_write, semaphore_messages,
                 message>>

\* Mutant: the two semaphores are confused.
PutWaitConfused(t) ==
  /\ Goto(t, "put_wait", "put_test")
  /\ Wait(semaphore_messages, semaphore_messages')
  /\ UNCHANGED <<heap, listVars, semaphore_read_write, message>>

PutWait(t) ==
  /\ Goto(t, "put_wait", "put_test")
  /\ Wait(semaphore_read_write, semaphore_read_write')
  /\ UNCHANGED <<heap, listVars, semaphore_messages, message>>

PutTest(t) ==
  /\ Goto(t, "put_test", IF first = NULL THEN "put_first" ELSE "put_link")
  /\ UNCHANGED <<heap, listVars, semaphore_read_write, semaphore_messages,
                 message>>

\* The list was empty: the message is first and last.
PutFirst(t) ==
  /\ Goto(t, "put_first", "put_signal")
  /\ first' = message[t]
  /\ last' = message[t]
  /\ next' = [next EXCEPT ![message[t]] = NULL]
  /\ chain' = Append(chain, message[t])
  /\ UNCHANGED <<heap, semaphore_read_write, semaphore_messages, message>>

\* The list was not empty: the message is linked behind the last one ...
PutLink(t) ==
  /\ Goto(t, "put_link", "put_last")
  /\ next' = [next EXCEPT ![last] = message[t]]
  /\ UNCHANGED <<heap, first, last, semaphore_read_write, semaphore_messages,
                 message, chain>>

\* ... and becomes the last.
PutLast(t) ==
  /\ Goto(t, "put_last", "put_signal")
  /\ last' = message[t]
  /\ next' = [next EXCEPT ![message[t]] = NULL]
  /\ chain' = Append(chain, message[t])
  /\ UNCHANGED <<heap, first, semaphore_read_write, semaphore_messages,
                 message>>

\* Mutant: the receiver is not told of the message.
PutSignalForgotten(t) ==
  /\ Goto(t, "put_signal", "put_unlock")
  /\ UNCHANGED <<heap, listVars, semaphore_read_write, semaphore_messages,
                 message>>

PutSignal(t) ==
  /\ Goto(t, "put_signal", "put_unlock")
  /\ Signal(semaphore_messages, semaphore_messages')
  /\ UNCHANGED <<heap, listVars, semaphore_read_write, message>>

\* The put returns; the message is no longer the sender's.
PutUnlock(t) ==
  /\ Goto(t, "put_unlock", "idle")
  /\ Signal(semaphore_read_write, semaphore_read_write')
  /\ message' = [message EXCEPT ![t] = NULL]
  /\ UNCHANGED <<heap, listVars, semaphore_messages>>

-----------------------------------------------------------------------------
(* actor_message_queue_get.                                                *)

GetCall(t) ==
  /\ Goto(t, "idle", "get_wait")
  /\ message' = [message EXCEPT ![t] = NULL]
  /\ UNCHANGED <<heap, listVars, semaphore_read_write, semaphore_messages>>

\* Mutant: the result of the timed wait is not looked at.
GetWaitUnchecked(t) ==
  /\ Goto(t, "get_wait", "get_lock")
  /\ semaphore_messages' =
       IF semaphore_messages = 0 THEN 0 ELSE semaphore_messages - 1
  /\ UNCHANGED <<heap, listVars, semaphore_read_write, message>>

GetWait(t) ==
  /\ Goto(t, "get_wait", "get_lock")
  /\ Wait(semaphore_messages, semaphore_messages')
  /\ UNCHANGED <<heap, listVars, semaphore_read_write, message>>

\* dispatch_semaphore_wait gives up only while the counter is exhausted.
GetTimeout(t) ==
  /\ Goto(t, "get_wait", "idle")
  /\ semaphore_messages = 0
  /\ UNCHANGED <<heap, listVars, semaphore_read_write, semaphore_messages,
                 message>>

\* Mutant: the list lock is not taken.
GetLockUnlocked(t) ==
  /\ Goto(t, "get_lock", "get_read")
  /\ UNCHANGED <<heap, listVars, semaphore_read_write, semaphore_messages,
                 message>>

GetLock(t) ==
  /\ Goto(t, "get_lock", "get_read")
  /\ Wait(semaphore_read_write, semaphore_read_write')
  /\ UNCHANGED <<heap, listVars, semaphore_messages, message>>

\* Mutant: the newest message is taken instead of the oldest.
GetReadNewest(t) ==
  /\ Goto(t, "get_read", IF last = NULL THEN "get_empty" ELSE "get_advance")
  /\ message' = [message EXCEPT ![t] = last]
  /\ UNCHANGED <<heap, listVars, semaphore_read_write, semaphore_messages>>

\* "get_empty" is the way to ACTOR_ERROR_MESSAGE_PASSING.
GetRead(t) ==
  /\ Goto(t, "get_read", IF first = NULL THEN "get_empty" ELSE "get_advance")
  /\ message' = [message EXCEPT ![t] = first]
  /\ UNCHANGED <<heap, listVars, semaphore_read_write, semaphore_messages>>

GetAdvance(t) ==
  /\ Goto(t, "get_advance", "get_last")
  /\ first' = next[message[t]]
  /\ chain' = Tail(chain)
  /\ UNCHANGED <<heap, next, last, semaphore_read_write, semaphore_messages,
                 message>>

\* Mutant: last is left pointing at the message taken.
GetLastStale(t) ==
  /\ Goto(t, "get_last", "get_unlock")
  /\ UNCHANGED <<heap, listVars, semaphore_read_write, semaphore_messages,
                 message>>

GetLast(t) ==
  /\ Goto(t, "get_last", "get_unlock")
  /\ last' = IF first = NULL THEN NULL ELSE last
  /\ UNCHANGED <<heap, next, first, semaphore_read_write, semaphore_messages,
                 message, chain>>

GetUnlock(t) ==
  /\ pc[t] \in {"get_unlock", "get_empty"}
  /\ pc' = [pc EXCEPT ![t] = IF @ = "get_empty" THEN "idle" ELSE "get_detach"]
  /\ Signal(semaphore_read_write, semaphore_read_write')
  /\ UNCHANGED <<heap, listVars, semaphore_messages, message>>

\* The message is cut off the list after the lock has been given back.
GetDetach(t) ==
  /\ Goto(t, "get_detach", "got")
  /\ next' = [next EXCEPT ![message[t]] = NULL]
  /\ UNCHANGED <<heap, first, last, semaphore_read_write, semaphore_messages,
                 message, chain>>

-----------------------------------------------------------------------------
(* actor_message_release, by the receiver.                                 *)

Release(t) ==
  /\ Goto(t, "got", "idle")
  /\ heap' = heap \ {message[t]}
  /\ message' = [message EXCEPT ![t] = NULL]
  /\ UNCHANGED <<listVars, semaphore_read_write, semaphore_messages>>

-----------------------------------------------------------------------------
PutStep(t) ==
  \/ PutWait(t)
  \/ PutTest(t)
  \/ PutFirst(t)
  \/ PutLink(t)
  \/ PutLast(t)
  \/ PutSignal(t)
  \/ PutUnlock(t)

GetStep(t) ==
  \/ GetWait(t)
  \/ GetTimeout(t)
  \/ GetLock(t)
  \/ GetRead(t)
  \/ GetAdvance(t)
  \/ GetLast(t)
  \/ GetUnlock(t)
  \/ GetDetach(t)
  \/ Release(t)

Next ==
  \/ \E t \in Senders, m \in Messages : Create(t, m)
  \/ \E t \in Senders : PutStep(t)
  \/ \E t \in Receivers : GetCall(t) \/ GetStep(t)

Spec == Init /\ [][Next]_vars

\* Threads run on, and a thread blocked on the list lock is not overtaken for
\* ever.  WF of GetCall makes every receiver a loop around get, as the send
\* process and the connection supervisor of src/distributer.c are.
Fairness ==
  /\ \A t \in Senders : WF_vars(PutStep(t)) /\ SF_vars(PutWait(t))
  /\ \A t \in Receivers : /\ WF_vars(GetCall(t))
                          /\ WF_vars(GetStep(t))
                          /\ SF_vars(GetLock(t))

FairSpec == Spec /\ Fairness

-----------------------------------------------------------------------------
(* Properties.                                                             *)

TypeOK ==
  /\ heap \subseteq Messages
  /\ next \in [Messages -> MessagePointers]
  /\ first \in MessagePointers
  /\ last \in MessagePointers
  /\ semaphore_read_write \in {0, 1}
  /\ semaphore_messages \in Nat
  /\ pc \in [Threads -> Points]
  /\ message \in [Threads -> MessagePointers]
  /\ chain \in Seq(Messages)

Linked == {chain[i] : i \in DOMAIN chain}

\* first, last and the next pointers describe exactly the sequence chain.
FirstOK == first = IF chain = <<>> THEN NULL ELSE chain[1]
LastOK == last = IF chain = <<>> THEN NULL ELSE chain[Len(chain)]
LinksOK ==
  \A i \in DOMAIN chain :
    next[chain[i]] = IF i = Len(chain) THEN NULL ELSE chain[i + 1]

\* Whenever the list lock is free, the list that put and get left behind is
\* whole: it starts at first, ends at last, and holds every message linked and
\* not yet unlinked, in order.  Concurrent puts and gets never lose, repeat or
\* cut off a message (message.c:184-196, 231-248).
ListIntact == semaphore_read_write = 1 => FirstOK /\ LastOK /\ LinksOK

\* The message a thread is responsible for: from create to the moment it is
\* linked, and from the moment it is unlinked to its release.
HeldBy(t) ==
  IF pc[t] \in {"put_signal", "put_unlock", "get_advance"}
  THEN NULL
  ELSE message[t]

\* Every allocated message is in exactly one place: one position of the list or
\* the hands of one thread.  Nothing leaks, nothing is released twice, and no
\* two receivers get the same message, whatever order the threads run in.
OneOwner ==
  /\ heap = Linked \union ({HeldBy(t) : t \in Threads} \ {NULL})
  /\ \A t, u \in Threads : HeldBy(t) = HeldBy(u) /\ t # u => HeldBy(t) = NULL
  /\ \A t \in Threads : HeldBy(t) \notin Linked
  /\ \A i, j \in DOMAIN chain : chain[i] = chain[j] => i = j

\* The gets that have taken a token and not yet unlinked a message, and the
\* puts that have linked a message and not yet signalled it.
ClaimPoints == {"get_lock", "get_read", "get_advance"}
Claiming == {t \in Threads : pc[t] \in ClaimPoints}
Unsignalled == {t \in Threads : pc[t] = "put_signal"}

\* The counting semaphore agrees with the list: its value is the number of
\* messages that are neither promised to a get nor still to be signalled.  The
\* two are updated under different locks and at different times.
TokensMatchMessages ==
  semaphore_messages + Cardinality(Claiming) + Cardinality(Unsignalled)
    = Len(chain)

\* A get that passed semaphore_messages always finds a message: the branch that
\* returns ACTOR_ERROR_MESSAGE_PASSING (message.c:235-240) is never taken.
NoMessagePassingError == \A t \in Threads : pc[t] # "get_empty"

\* A get times out only when every message in the list is promised to another
\* get or belongs to a put that has not signalled it (message.c:219-226): no
\* message is left lying while its receiver is told that there is none.
TimeoutJustified ==
  [][\A t \in Receivers :
       pc[t] = "get_wait" /\ pc'[t] = "idle"
         => Len(chain) = Cardinality(Claiming) + Cardinality(Unsignalled)]_vars

\* The queue implements the first-in first-out mailbox: linking is the moment a
\* message enters it, unlinking the moment it leaves.
MB == INSTANCE Mailbox WITH queue <- chain,
                            held <- [t \in Threads |-> HeldBy(t)]

\* See MB: every behaviour of the list, the two semaphores and the threads is
\* one of Mailbox.
ImplementsMailbox == MB!MailboxSpec

\* A put that has been called returns, however many threads use the queue
\* (message.c:182, DISPATCH_TIME_FOREVER on the list lock).
PutReturns == \A t \in Senders : pc[t] = "put_wait" ~> pc[t] = "idle"

\* A message that was put is received, as long as receivers go on calling get:
\* no wake-up is lost between semaphore_messages and the list.
QueuedIsReceived == \A m \in Messages : m \in Linked ~> m \notin Linked
=============================================================================
