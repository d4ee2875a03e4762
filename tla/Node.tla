-------------------------------- MODULE Node --------------------------------
(***************************************************************************)
(* The processes of one node: spawn, link, send, receive, and the end of a *)
(* process, which tells its supervisor and then releases its queue         *)
(* (src/node.c, src/process.c, src/message.c).                             *)
(*                                                                         *)
(* The two parts below are used at the level at which they have been shown *)
(* to work: a put or a get is one step on a first-in first-out sequence    *)
(* (MessageQueue implements Mailbox), and finding and taking a free slot   *)
(* is one step (ProcessTable).  What remains is what the processes do to   *)
(* each other: a send looks up a slot, reads the pointer in it and puts a  *)
(* message to the queue it points to, while the owner of that queue ends,  *)
(* or another process takes its pid.                                       *)
(*                                                                         *)
(* A release clears the slot twice.  Whoever takes it in between is wiped  *)
(* from the table, keeps running with a pid that is given away again, and  *)
(* gets none of the messages sent to that pid: the history variable reused *)
(* tells that this has happened (the race "reused" of ProcessTable), and   *)
(* what a node promises holds until then.                                  *)
(*                                                                         *)
(* A process of the model lives once; the slots, and so the pids, are      *)
(* reused.  The queue of a process is denoted by the process.              *)
(***************************************************************************)
EXTENDS Integers, Sequences, FiniteSets, FiniteSetsExt

CONSTANTS
  Processes,   \* the processes that can be spawned
  Root,        \* the process main spawns first
  Messages,    \* the message objects malloc can hand out
  Size,        \* message_queue_count, the number of slots of the node
  Pids,        \* the pids a caller passes to send and link
  NULL         \* the null pointer

ASSUME NodeAssumption ==
  /\ Root \in Processes
  /\ NULL \notin Processes \union Messages
  /\ Size \in Nat \ {0}
  /\ Pids \subseteq Nat

ACTOR_INVALID_ID == -1

Slots == 0 .. Size - 1

VARIABLES
  message_queues,    \* the process whose queue each slot points to, or NULL
  message_queue_pos, \* the slot to try first
  allocated,         \* the processes whose queue is allocated
  queue,             \* the messages in each queue, oldest first
  heap,              \* the messages allocated
  content,           \* what each message says
  pc,                \* where each process is
  returned,          \* the processes whose function has returned
  pid,               \* process->pid
  supervisor_pid,    \* process->supervisor_pid
  message,           \* the message a process sends, or has received
  destination_pid,   \* message->destination_pid of the message it sends
  target,            \* the queue its send has found
  child,             \* the process it has just spawned
  owed,              \* history: who is to receive the end of each process
  reused             \* history: a slot has been taken between its two clears

vars == <<message_queues, message_queue_pos, allocated, queue, heap, content,
          pc, returned, pid, supervisor_pid, message, destination_pid, target,
          child, owed, reused>>

tableVars == <<message_queues, message_queue_pos, allocated, pid, reused>>
messageVars == <<queue, heap, content, message>>
sendVars == <<destination_pid, target>>
lifeVars == <<returned, supervisor_pid, child>>

Sending == {"send_lookup", "send_load", "send_put"}
Releasing == {"drain", "free", "clear", "clear_again"}
Points == {"unborn", "running", "set_pid", "received", "gone", "crashed"}
            \union Sending \union Releasing

\* type is ACTOR_TYPE_ERROR_MESSAGE or anything else; from is the sender, and
\* with it the pid an error message names.  meant is history: the process that
\* had the destination pid when the message was made.
Content == [type : {"user", "error"}, from : Processes,
            meant : Processes \union {NULL}]

ASSUME ContentAssumption == NULL \notin Content

Init ==
  /\ message_queues = [s \in Slots |-> IF s = 0 THEN Root ELSE NULL]
  /\ message_queue_pos = 1
  /\ allocated = {Root}
  /\ queue = [p \in Processes |-> <<>>]
  /\ heap = {}
  /\ content = [m \in Messages |->
                  [type |-> "user", from |-> Root, meant |-> NULL]]
  /\ pc = [p \in Processes |-> IF p = Root THEN "running" ELSE "unborn"]
  /\ returned = {}
  /\ pid = [p \in Processes |-> IF p = Root THEN 0 ELSE ACTOR_INVALID_ID]
  /\ supervisor_pid = [p \in Processes |-> ACTOR_INVALID_ID]
  /\ message = [p \in Processes |-> NULL]
  /\ destination_pid = [p \in Processes |-> ACTOR_INVALID_ID]
  /\ target = [p \in Processes |-> NULL]
  /\ child = [p \in Processes |-> NULL]
  /\ owed = [p \in Processes |-> NULL]
  /\ reused = FALSE

Goto(p, from, to) ==
  /\ pc[p] = from
  /\ pc' = [pc EXCEPT ![p] = to]

Running(p) == pc[p] = "running" /\ p \notin returned

Alive(p) == pc[p] # "unborn" /\ p \notin returned

-----------------------------------------------------------------------------
(* actor_node_spawn_process.                                               *)

FreeSlots == {s \in Slots : message_queues[s] = NULL}

\* Mutant: the search does not go back to the first slot.
FreeSlotBehind == message_queue_pos

\* actor_node_get_free_message_queue.
FreeSlot ==
  IF message_queue_pos \in FreeSlots THEN message_queue_pos ELSE Min(FreeSlots)

\* The new process starts to run at once, in a thread of its own; a spawner
\* that asked for the pid has yet to read it from the process object.
Spawn(p, c) ==
  /\ Running(p)
  /\ pc[c] = "unborn"
  /\ FreeSlots # {}
  /\ message_queues' = [message_queues EXCEPT ![FreeSlot] = c]
  /\ message_queue_pos' = FreeSlot + 1
  /\ allocated' = allocated \union {c}
  /\ pid' = [pid EXCEPT ![c] = FreeSlot]
  /\ reused' = (reused \/ \E u \in Processes :
                             pc[u] = "clear_again" /\ pid[u] = FreeSlot)
  /\ \/ /\ pc' = [pc EXCEPT ![c] = "running", ![p] = "set_pid"]
        /\ child' = [child EXCEPT ![p] = c]
     \/ /\ pc' = [pc EXCEPT ![c] = "running"]
        /\ UNCHANGED child
  /\ UNCHANGED <<messageVars, sendVars, returned, supervisor_pid, owed>>

\* *pid = process->pid, in the thread of the spawner.  The block has set
\* process to NULL if the new process is gone.
SetPid(p) ==
  /\ Goto(p, "set_pid", IF pc[child[p]] = "gone" THEN "crashed" ELSE "running")
  /\ child' = [child EXCEPT ![p] = NULL]
  /\ UNCHANGED <<tableVars, messageVars, sendVars, returned, supervisor_pid,
                 owed>>

-----------------------------------------------------------------------------
(* actor_process_link and actor_process_unlink.                            *)

Link(p, s) ==
  /\ Running(p)
  /\ s # pid[p]
  /\ supervisor_pid' = [supervisor_pid EXCEPT ![p] = s]
  /\ UNCHANGED <<tableVars, messageVars, sendVars, pc, returned, child, owed>>

Unlink(p) ==
  /\ Running(p)
  /\ supervisor_pid' = [supervisor_pid EXCEPT ![p] = ACTOR_INVALID_ID]
  /\ UNCHANGED <<tableVars, messageVars, sendVars, pc, returned, child, owed>>

-----------------------------------------------------------------------------
(* actor_node_send_message, to a process of the same node.                 *)

\* A message for pid d is made.  If malloc fails the caller gets an error and
\* nothing has changed.
NewMessage(p, m, type, d) ==
  /\ m \notin heap
  /\ heap' = heap \union {m}
  /\ content' = [content EXCEPT ![m] =
                   [type |-> type, from |-> p,
                    meant |-> IF d \in Slots THEN message_queues[d] ELSE NULL]]
  /\ message' = [message EXCEPT ![p] = m]
  /\ destination_pid' = [destination_pid EXCEPT ![p] = d]

Send(p, m, d) ==
  /\ Running(p)
  /\ pc' = [pc EXCEPT ![p] = "send_lookup"]
  /\ NewMessage(p, m, "user", d)
  /\ UNCHANGED <<tableVars, queue, target, lifeVars, owed>>

\* actor_node_get_message_queue gives the address of the slot.
LookUp(p) ==
  /\ Goto(p, "send_lookup", "send_load")
  /\ destination_pid[p] < Size
  /\ UNCHANGED <<tableVars, messageVars, sendVars, lifeVars, owed>>

\* Where a process goes on when its send has returned: a send of the end of
\* the process is followed by its release.
SendReturns(p) ==
  /\ pc' = [pc EXCEPT ![p] = IF p \in returned THEN "drain" ELSE "running"]
  /\ message' = [message EXCEPT ![p] = NULL]
  /\ destination_pid' = [destination_pid EXCEPT ![p] = ACTOR_INVALID_ID]

\* There is no such slot: the message is released.
LookUpFails(p) ==
  /\ pc[p] = "send_lookup"
  /\ destination_pid[p] >= Size
  /\ heap' = heap \ {message[p]}
  /\ SendReturns(p)
  /\ UNCHANGED <<tableVars, queue, content, target, lifeVars, owed>>

\* Mutant: the slot behind the one asked for is read.
LoadNext(p) ==
  /\ Goto(p, "send_load", "send_put")
  /\ message_queues[destination_pid[p]] # NULL
  /\ LET s == (destination_pid[p] + 1) % Size
     IN  target' = [target EXCEPT ![p] = message_queues[s]]
  /\ target'[p] # NULL
  /\ UNCHANGED <<tableVars, messageVars, destination_pid, lifeVars, owed>>

\* *queue is read.
Load(p) ==
  /\ Goto(p, "send_load", "send_put")
  /\ message_queues[destination_pid[p]] # NULL
  /\ target' = [target EXCEPT ![p] = message_queues[destination_pid[p]]]
  /\ UNCHANGED <<tableVars, messageVars, destination_pid, lifeVars, owed>>

\* actor_message_queue_put refuses NULL, and the message is left behind.
LoadNull(p) ==
  /\ pc[p] = "send_load"
  /\ message_queues[destination_pid[p]] = NULL
  /\ SendReturns(p)
  /\ UNCHANGED <<tableVars, queue, heap, content, target, lifeVars, owed>>

Put(p) ==
  /\ pc[p] = "send_put"
  /\ target[p] \in allocated
  /\ queue' = [queue EXCEPT ![target[p]] = Append(@, message[p])]
  /\ target' = [target EXCEPT ![p] = NULL]
  /\ SendReturns(p)
  /\ UNCHANGED <<tableVars, heap, content, lifeVars, owed>>

\* Undefined behaviour; the model goes on as if the message had been lost.
PutFreed(p) ==
  /\ pc[p] = "send_put"
  /\ target[p] \notin allocated
  /\ target' = [target EXCEPT ![p] = NULL]
  /\ SendReturns(p)
  /\ UNCHANGED <<tableVars, queue, heap, content, lifeVars, owed>>

-----------------------------------------------------------------------------
(* actor_process_receive_message, and the release of what it returned.     *)

\* Mutant: the message is taken from the queue but not returned.
ReceiveNothing(p) ==
  /\ Running(p)
  /\ queue[p] # <<>>
  /\ queue' = [queue EXCEPT ![p] = Tail(@)]
  /\ UNCHANGED <<tableVars, heap, content, message, pc, sendVars, lifeVars,
                 owed>>

\* Mutant: the message stays in the queue.
ReceiveCopy(p) ==
  /\ Running(p)
  /\ pc' = [pc EXCEPT ![p] = "received"]
  /\ queue[p] # <<>>
  /\ message' = [message EXCEPT ![p] = Head(queue[p])]
  /\ UNCHANGED <<tableVars, queue, heap, content, sendVars, lifeVars, owed>>

Receive(p) ==
  /\ Running(p)
  /\ pc' = [pc EXCEPT ![p] = "received"]
  /\ queue[p] # <<>>
  /\ queue' = [queue EXCEPT ![p] = Tail(@)]
  /\ message' = [message EXCEPT ![p] = Head(queue[p])]
  /\ owed' = LET c == content[Head(queue[p])]
             IN  IF c.type = "error" /\ owed[c.from] = p
                 THEN [owed EXCEPT ![c.from] = NULL] ELSE owed
  /\ UNCHANGED <<tableVars, heap, content, sendVars, lifeVars>>

Dispose(p) ==
  /\ Goto(p, "received", "running")
  /\ heap' = heap \ {message[p]}
  /\ message' = [message EXCEPT ![p] = NULL]
  /\ UNCHANGED <<tableVars, queue, content, sendVars, lifeVars, owed>>

-----------------------------------------------------------------------------
(* The rest of the block of actor_node_spawn_process, when the function of *)
(* the process returns.                                                    *)

\* The end of the process is sent to its supervisor ...
Return(p, m) ==
  /\ Running(p)
  /\ supervisor_pid[p] # ACTOR_INVALID_ID
  /\ returned' = returned \union {p}
  /\ pc' = [pc EXCEPT ![p] = "send_lookup"]
  /\ NewMessage(p, m, "error", supervisor_pid[p])
  /\ owed' = LET u == content'[m].meant
             IN  IF u # NULL /\ Alive(u) THEN [owed EXCEPT ![p] = u] ELSE owed
  /\ UNCHANGED <<tableVars, queue, target, supervisor_pid, child>>

\* ... if it has one, and there is memory for the message.
ReturnUnheard(p) ==
  /\ Running(p)
  /\ supervisor_pid[p] = ACTOR_INVALID_ID \/ heap = Messages
  /\ returned' = returned \union {p}
  /\ pc' = [pc EXCEPT ![p] = "drain"]
  /\ UNCHANGED <<tableVars, messageVars, sendVars, supervisor_pid, child, owed>>

\* The queue that is released is the one found in the slot.
Found(p) == message_queues[pid[p]]

\* Mutant: the slot is cleared before the queue is released.
DrainCleared(p) ==
  /\ Goto(p, "drain", "free")
  /\ target' = [target EXCEPT ![p] = Found(p)]
  /\ message_queues' = [message_queues EXCEPT ![pid[p]] = NULL]
  /\ UNCHANGED <<message_queue_pos, allocated, pid, reused, messageVars,
                 destination_pid, lifeVars, owed>>

\* The loop of actor_message_queue_release ends after its first round, because
\* actor_message_release sets the pointer it tests to NULL.
Drain(p) ==
  /\ Goto(p, "drain", "free")
  /\ Found(p) # NULL
  /\ target' = [target EXCEPT ![p] = Found(p)]
  /\ IF queue[Found(p)] = <<>>
     THEN UNCHANGED <<queue, heap>>
     ELSE /\ heap' = heap \ {Head(queue[Found(p)])}
          /\ queue' = [queue EXCEPT ![Found(p)] = Tail(@)]
  /\ UNCHANGED <<tableVars, content, message, destination_pid, lifeVars, owed>>

\* Somebody else has cleared the slot: there is no queue to release.
DrainNull(p) ==
  /\ Goto(p, "drain", "clear_again")
  /\ Found(p) = NULL
  /\ UNCHANGED <<tableVars, messageVars, sendVars, lifeVars, owed>>

Free(p) ==
  /\ Goto(p, "free", "clear")
  /\ allocated' = allocated \ {target[p]}
  /\ target' = [target EXCEPT ![p] = NULL]
  /\ UNCHANGED <<message_queues, message_queue_pos, pid, reused, messageVars,
                 destination_pid, lifeVars, owed>>

ClearSlot(p, from, to) ==
  /\ Goto(p, from, to)
  /\ message_queues' = [message_queues EXCEPT ![pid[p]] = NULL]
  /\ UNCHANGED <<message_queue_pos, allocated, pid, reused, messageVars,
                 sendVars, lifeVars, owed>>

\* *queuePointer = NULL of actor_message_queue_release: the pid can be given
\* to another process ...
Clear(p) == ClearSlot(p, "clear", "clear_again")

\* ... and message_queues[pid] = NULL of actor_node_message_queue_release,
\* whoever has the slot by now.  Then the process object is freed.
ClearAgain(p) == ClearSlot(p, "clear_again", "gone")

-----------------------------------------------------------------------------
SendStep(p) ==
  \/ LookUp(p)
  \/ LookUpFails(p)
  \/ Load(p)
  \/ LoadNull(p)
  \/ Put(p)
  \/ PutFreed(p)

ReleaseStep(p) ==
  \/ Drain(p)
  \/ DrainNull(p)
  \/ Free(p)
  \/ Clear(p)
  \/ ClearAgain(p)

UserStep(p) ==
  \/ \E c \in Processes : Spawn(p, c)
  \/ \E s \in Pids : Link(p, s)
  \/ Unlink(p)
  \/ \E m \in Messages, d \in Pids : Send(p, m, d)
  \/ \E m \in Messages : Return(p, m)
  \/ ReturnUnheard(p)

Next ==
  \E p \in Processes :
    \/ UserStep(p)
    \/ SetPid(p)
    \/ SendStep(p)
    \/ Receive(p)
    \/ Dispose(p)
    \/ ReleaseStep(p)

Spec == Init /\ [][Next]_vars

\* Threads run on, and a process that has not returned goes on calling
\* receive, as the main loops of the examples and of src/distributer.c do.
Fairness ==
  \A p \in Processes :
    /\ WF_vars(SetPid(p))
    /\ WF_vars(SendStep(p))
    /\ SF_vars(Receive(p))
    /\ WF_vars(Dispose(p))
    /\ WF_vars(ReleaseStep(p))

FairSpec == Spec /\ Fairness

-----------------------------------------------------------------------------
(* Properties.                                                             *)

TypeOK ==
  /\ message_queues \in [Slots -> Processes \union {NULL}]
  /\ message_queue_pos \in 0 .. Size
  /\ allocated \subseteq Processes
  /\ queue \in [Processes -> Seq(Messages)]
  /\ heap \subseteq Messages
  /\ content \in [Messages -> Content]
  /\ pc \in [Processes -> Points]
  /\ returned \subseteq Processes
  /\ pid \in [Processes -> Slots \union {ACTOR_INVALID_ID}]
  /\ supervisor_pid \in [Processes -> Pids \union {ACTOR_INVALID_ID}]
  /\ message \in [Processes -> Messages \union {NULL}]
  /\ destination_pid \in [Processes -> Pids \union {ACTOR_INVALID_ID}]
  /\ target \in [Processes -> Processes \union {NULL}]
  /\ child \in [Processes -> Processes \union {NULL}]
  /\ owed \in [Processes -> Processes \union {NULL}]
  /\ reused \in BOOLEAN

Queued(u) == {queue[u][i] : i \in DOMAIN queue[u]}

\* Until a slot is taken between its two clears, nothing that was sent to a
\* living process is lost, whatever other sends, spawns and ends do: it is in
\* the hands of its sender, in the queue of its destination or in the hands of
\* that process until it is released.
NothingLostToTheLiving ==
  ~ reused =>
    \A m \in heap :
      LET v == content[m].meant
      IN  v # NULL /\ Alive(v) =>
            \/ m \in Queued(v)
            \/ \E p \in {content[m].from, v} : message[p] = m

\* Until then a message is in one place at most: two processes never hold the
\* same one, and none is held and queued or queued twice.
OnePlace ==
  ~ reused =>
    /\ \A p, u \in Processes : message[p] # NULL /\ message[p] = message[u]
                                 => p = u
    /\ \A p, u \in Processes : message[p] \notin Queued(u)
    /\ \A p, u \in Processes : p # u => Queued(p) \intersect Queued(u) = {}
    /\ \A u \in Processes : \A i, j \in DOMAIN queue[u] :
         queue[u][i] = queue[u][j] => i = j

\* The processes of a node are actors, until a slot is taken between its two
\* clears: whoever spawns, ends or takes over a pid between the steps of a
\* send, what is sent to a living process reaches it once and in order
\* (node.c:245-277), and a pid is not given away while anything can still be
\* put to the queue of its owner (node.c:391-394).
A == INSTANCE Actors WITH
  life <- [p \in Processes |->
             IF pc[p] = "unborn" \/ pc[p] = "gone" THEN pc[p]
             ELSE IF p \in returned THEN "ended" ELSE "alive"],
  transit <- [p \in Processes |->
                IF pc[p] \in Sending THEN content[message[p]] ELSE NULL],
  mailbox <- [p \in Processes |-> [i \in DOMAIN queue[p] |-> content[queue[p][i]]]]

ImplementsActors == A!ActorsInit /\ [][~ reused' => A!ActorsNext]_(A!actorsVars)

\* A process that ends tells the process it is linked to, if that one lives
\* and goes on receiving (node.c:190-201), whatever others send and whoever is
\* spawned or ends meanwhile, until a slot is taken between its two clears.
SupervisorIsTold ==
  \A p \in Processes :
    owed[p] # NULL ~> \/ owed[p] = NULL
                      \/ ~ Alive(owed[p])
                      \/ pc[owed[p]] = "crashed"
                      \/ reused
=============================================================================
