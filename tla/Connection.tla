----------------------------- MODULE Connection -----------------------------
(***************************************************************************)
(* The connections of one node to others (src/distributer.c).  A           *)
(* connection is a socket and three processes: a supervisor, a receiver    *)
(* and a sender.  The sender ends when nothing has been sent for a while,  *)
(* and the supervisor starts another; it takes any other end of one of its *)
(* two processes for the end of the connection.  remote_nodes names the    *)
(* pid of the sender for each remote node.                                 *)
(*                                                                         *)
(* Spawn, send and the end of a process are those of Node, in fewer steps: *)
(* finding and filling a slot is one step, and so is looking up a slot and *)
(* putting a message there.  A process is denoted by its slot, that is by  *)
(* its pid; the slot is free again when the process has been released.     *)
(* Every connection of the model is made once.                             *)
(***************************************************************************)
EXTENDS Integers, Sequences, FiniteSets, FiniteSetsExt

CONSTANTS
  Connections,  \* the calls of connect and listen, each with its socket
  Nodes,        \* the ids of the remote nodes
  Local,        \* the id of this node
  Size,         \* message_queue_count, the number of slots
  MaxQueue,     \* bound on the queue users of the node put messages to
  MaxUsers,     \* bound on the number of other processes at a time
  NULL          \* no connection

ASSUME ConnectionAssumption ==
  /\ Local \notin Nodes
  /\ NULL \notin Connections
  /\ Size \in Nat \ {0}
  /\ MaxQueue \in Nat /\ MaxUsers \in Nat

ACTOR_INVALID_ID == -1

Slots == 0 .. Size - 1

VARIABLES
  process,           \* the process in each slot
  message_queue_pos, \* the slot to try first
  remote_nodes,      \* the pid of the sender for each remote node
  start,             \* where each call of connect or listen is
  node,              \* the remote node of each connection
  sock,              \* the socket of each connection
  supervisor,        \* local variables of start_connectors: two pids
  sender,
  restarted,         \* local variable of the supervisor: pid of the new sender
  doomed,            \* history: connections the peer has closed, whose sender
                     \*   was told to stop, or over which an empty message went
  races              \* history: the races that have happened

startVars == <<start, node, supervisor, sender>>
connVars == <<remote_nodes, startVars, sock, restarted, doomed>>
vars == <<process, message_queue_pos, connVars, races>>

Results == {"none", "SUCCESS", "TIMEOUT", "NETWORK"}

\* A message is for this node or another, and may tell the end of a process.
Message == [nid : Nodes \union {Local}, error : Results]

Stop == [nid |-> Local, error |-> "none"]
ErrorMessage(result) == [nid |-> Local, error |-> result]
MessageTo(r) == [nid |-> r, error |-> "none"]

Roles == {"none", "user", "supervisor", "receiver", "sender"}

\* relink: a sender that the supervisor has started, before it links.
\* set: a supervisor that has yet to set remote_nodes to the new sender.
Points == {"none", "link", "relink", "loop", "set", "shutdown", "stop",
           "invalidate", "end", "release"}

Process == [role : Roles, conn : Connections \union {NULL}, pc : Points,
            supervisor_pid : Slots \union {ACTOR_INVALID_ID},
            result : Results, queue : Seq(Message)]

Free == [role |-> "none", conn |-> NULL, pc |-> "none",
         supervisor_pid |-> ACTOR_INVALID_ID, result |-> "none",
         queue |-> <<>>]

\* The slots in which connection c has a process of that role.
Of(role, c) == {s \in Slots : process[s].role = role /\ process[s].conn = c}

Races == {"misdirected", "overlap", "late", "unspawned", "unheard"}

Init ==
  /\ process = [s \in Slots |-> Free]
  /\ message_queue_pos = 0
  /\ remote_nodes = [r \in Nodes |-> ACTOR_INVALID_ID]
  /\ start = [c \in Connections |-> "idle"]
  /\ node = [c \in Connections |-> Local]
  /\ sock = [c \in Connections |-> "none"]
  /\ supervisor = [c \in Connections |-> ACTOR_INVALID_ID]
  /\ sender = [c \in Connections |-> ACTOR_INVALID_ID]
  /\ restarted = [c \in Connections |-> ACTOR_INVALID_ID]
  /\ doomed = {}
  /\ races = {}

-----------------------------------------------------------------------------
(* Spawn, put and release, as in Node.                                     *)

FreeSlots == {s \in Slots : process[s] = Free}

\* Mutant: the search does not go back to the first slot.
FreeSlotBehind == message_queue_pos

\* actor_node_get_free_message_queue.
FreeSlot ==
  IF message_queue_pos \in FreeSlots THEN message_queue_pos ELSE Min(FreeSlots)

Spawn(role, c, point) ==
  /\ FreeSlots # {}
  /\ process' = [process EXCEPT ![FreeSlot] =
                   [Free EXCEPT !.role = role, !.conn = c, !.pc = point]]
  /\ message_queue_pos' = FreeSlot + 1

\* The processes after message m was put to the queue of pid d.
Put(d, m) ==
  IF d \in Slots /\ process[d] # Free
  THEN [process EXCEPT ![d].queue = Append(@, m)]
  ELSE process

\* The race "misdirected": what a connection in C sends to one of its own
\* reaches a process of another connection, which has got the pid meanwhile.
Astray(d, C) == d \in Slots /\ process[d].conn \notin C \union {NULL}

NoteAstray(d, C) ==
  races' = IF Astray(d, C) THEN races \union {"misdirected"} ELSE races

\* The connections to node r.
To(r) == {c \in Connections : node[c] = r}

\* The function of the process in slot s returns.
Returns(s, result) ==
  process' = [process EXCEPT ![s].pc = "end", ![s].result = result]

\* Its end is sent to its supervisor ...
End(s) ==
  /\ process[s].pc = "end"
  /\ LET d == process[s].supervisor_pid
     IN  /\ process' = [Put(d, ErrorMessage(process[s].result))
                          EXCEPT ![s].pc = "release"]
         /\ NoteAstray(d, {process[s].conn})
  /\ UNCHANGED <<message_queue_pos, connVars>>

\* ... and its slot is released, with the messages in its queue.
Release(s) ==
  /\ process[s].pc = "release"
  /\ process' = [process EXCEPT ![s] = Free]
  /\ UNCHANGED <<message_queue_pos, connVars, races>>

-----------------------------------------------------------------------------
(* actor_distributer_connect_to_node and actor_distributer_listen from the *)
(* check of the entry on, and actor_distributer_start_connectors.          *)

\* Connection c is being started, or its supervisor has not returned.
Starting(c) == start[c] \in {"supervisor", "receiver", "sender", "set"}

Standing(c) ==
  \/ Starting(c)
  \/ \E s \in Of("supervisor", c) : process[s].pc \notin {"end", "release"}

\* The race "overlap": there is a connection to that node which has not set the
\* entry yet, or no longer has one.
Accept(c, r) ==
  /\ start[c] = "idle"
  /\ remote_nodes[r] = ACTOR_INVALID_ID
  /\ races' = IF \E u \in To(r) : Standing(u)
              THEN races \union {"overlap"} ELSE races
  /\ start' = [start EXCEPT ![c] = "supervisor"]
  /\ node' = [node EXCEPT ![c] = r]
  /\ sock' = [sock EXCEPT ![c] = "open"]
  /\ UNCHANGED <<process, message_queue_pos, remote_nodes, supervisor, sender,
                 restarted, doomed>>

StartGoto(c, from, to) ==
  /\ start[c] = from
  /\ start' = [start EXCEPT ![c] = to]
  /\ UNCHANGED <<node, restarted, doomed, races>>

StartSupervisor(c) ==
  /\ StartGoto(c, "supervisor", "receiver")
  /\ Spawn("supervisor", c, "loop")
  /\ supervisor' = [supervisor EXCEPT ![c] = FreeSlot]
  /\ UNCHANGED <<remote_nodes, sender, sock>>

StartReceiver(c) ==
  /\ StartGoto(c, "receiver", "sender")
  /\ Spawn("receiver", c, "link")
  /\ UNCHANGED <<remote_nodes, supervisor, sender, sock>>

StartSender(c) ==
  /\ StartGoto(c, "sender", "set")
  /\ Spawn("sender", c, "link")
  /\ sender' = [sender EXCEPT ![c] = FreeSlot]
  /\ UNCHANGED <<remote_nodes, supervisor, sock>>

\* No slot is free, or there is no memory: the socket is closed, and what was
\* started is left alone.
StartFails(c) ==
  /\ \E from \in {"supervisor", "receiver", "sender"} :
       StartGoto(c, from, "failed")
  /\ sock' = [sock EXCEPT ![c] = "closed"]
  /\ UNCHANGED <<process, message_queue_pos, remote_nodes, supervisor, sender>>

\* init sender as connector: the entry is set when all three run already.
SetEntry(c) ==
  /\ StartGoto(c, "set", "done")
  /\ remote_nodes' = [remote_nodes EXCEPT ![node[c]] = sender[c]]
  /\ sender' = [sender EXCEPT ![c] = ACTOR_INVALID_ID]
  /\ UNCHANGED <<process, message_queue_pos, supervisor, sock>>

StartStep(c) ==
  \/ StartSupervisor(c)
  \/ StartReceiver(c)
  \/ StartSender(c)
  \/ StartFails(c)
  \/ SetEntry(c)

-----------------------------------------------------------------------------
(* actor_distributer_message_receive.  What it receives goes to processes  *)
(* that are no part of a connection.                                       *)

\* actor_process_link: a pid of its own is refused.
LinkTo(s, d) ==
  /\ process' = [process EXCEPT ![s].pc = "loop", ![s].supervisor_pid =
                   IF d = s THEN ACTOR_INVALID_ID ELSE d]
  /\ UNCHANGED <<message_queue_pos, connVars, races>>

\* The block of a receiver or a sender first links to the supervisor.
Link(s) ==
  /\ process[s].pc = "link"
  /\ LinkTo(s, supervisor[process[s].conn])

Receiving(s) == process[s].role = "receiver" /\ process[s].pc = "loop"

\* The connection is closed.  A socket that was closed here gives an error
\* (-1), and the loop goes on.
ReceiveClosed(s) ==
  /\ Receiving(s)
  /\ sock[process[s].conn] \in {"peer_closed", "shutdown"}
  /\ Returns(s, "NETWORK")
  /\ UNCHANGED <<message_queue_pos, connVars, races>>

\* The body of an empty message is taken for the end of the connection.
ReceiveEmpty(s) ==
  /\ Receiving(s)
  /\ sock[process[s].conn] = "open"
  /\ Returns(s, "NETWORK")
  /\ doomed' = doomed \union {process[s].conn}
  /\ UNCHANGED <<message_queue_pos, remote_nodes, startVars, sock, restarted,
                 races>>

-----------------------------------------------------------------------------
(* actor_distributer_message_send.                                         *)

\* The block of a sender that was restarted reads the pid of its supervisor
\* from the process object, which may have been freed: any pid may result.
Relink(s) ==
  /\ process[s].pc = "relink"
  /\ \E d \in Slots \union {ACTOR_INVALID_ID} :
       /\ Of("supervisor", process[s].conn) # {}
            => d = supervisor[process[s].conn]
       /\ LinkTo(s, d)

Sending(s) == process[s].role = "sender" /\ process[s].pc = "loop"

SenderTimeout(s) ==
  /\ Sending(s)
  /\ process[s].queue = <<>>
  /\ Returns(s, "TIMEOUT")
  /\ UNCHANGED <<message_queue_pos, connVars, races>>

\* The sender takes a message of which for_us tells whether it is for itself.
Takes(s, for_us) ==
  /\ Sending(s)
  /\ process[s].queue # <<>>
  /\ for_us <=> Head(process[s].queue).nid = Local

\* ... and returns; the message may be left behind.
TakesAndReturns(s, result) ==
  process' = [process EXCEPT ![s].queue = Tail(@), ![s].pc = "end",
                             ![s].result = result]

\* A message to the sender itself, of whatever type, ends it.
SenderStop(s) ==
  /\ Takes(s, TRUE)
  /\ TakesAndReturns(s, "SUCCESS")
  /\ UNCHANGED <<message_queue_pos, connVars, races>>

Transmit(s) ==
  /\ Takes(s, FALSE)
  /\ sock[process[s].conn] \in {"open", "peer_closed"}
  /\ process' = [process EXCEPT ![s].queue = Tail(@)]
  /\ UNCHANGED <<message_queue_pos, connVars, races>>

\* The socket is closed.  If it is not, the message was empty: send returns 0.
TransmitFails(s) ==
  /\ Takes(s, FALSE)
  /\ TakesAndReturns(s, "NETWORK")
  /\ doomed' = IF sock[process[s].conn] = "open"
               THEN doomed \union {process[s].conn} ELSE doomed
  /\ UNCHANGED <<message_queue_pos, remote_nodes, startVars, sock, restarted,
                 races>>

-----------------------------------------------------------------------------
(* actor_distributer_connection_supervisor.                                *)

\* The supervisor in slot s takes a message for which its test holds.
Supervise(s, test) ==
  /\ process[s].role = "supervisor" /\ process[s].pc = "loop"
  /\ process[s].queue # <<>>
  /\ Head(process[s].queue).error \in test

\* The race "late": the supervisor restarts the sender or closes the connection
\* before the entry has been set for the first time.
NoteLate(s) ==
  races' = IF Starting(process[s].conn) THEN races \union {"late"} ELSE races

Ignore(s) ==
  /\ Supervise(s, {"none"})
  /\ process' = [process EXCEPT ![s].queue = Tail(@)]
  /\ UNCHANGED <<message_queue_pos, connVars, races>>

\* The sender is started again if one of these results is reported.
RestartOn(s, results) ==
  /\ Supervise(s, results)
  /\ FreeSlots # {}
  /\ LET c == process[s].conn
     IN  /\ process' = [process EXCEPT
                          ![s].queue = Tail(@), ![s].pc = "set",
                          ![FreeSlot] = [Free EXCEPT !.role = "sender",
                                           !.conn = c, !.pc = "relink"]]
         /\ restarted' = [restarted EXCEPT ![c] = FreeSlot]
  /\ message_queue_pos' = FreeSlot + 1
  /\ NoteLate(s)
  /\ UNCHANGED <<remote_nodes, startVars, sock, doomed>>

\* Mutant: the sender is started again whatever has ended.
RestartAny(s) == RestartOn(s, {"TIMEOUT", "NETWORK", "SUCCESS"})

\* Mutant: a timeout is taken for nothing to act upon.
RestartNot(s) ==
  /\ Supervise(s, {"TIMEOUT"})
  /\ process' = [process EXCEPT ![s].queue = Tail(@)]
  /\ UNCHANGED <<message_queue_pos, connVars, races>>

Restart(s) == RestartOn(s, {"TIMEOUT"})

\* The race "unspawned": a connection without a sender goes on.
RestartFails(s) ==
  /\ Supervise(s, {"TIMEOUT"})
  /\ process' = [process EXCEPT ![s].queue = Tail(@), ![s].pc = "set"]
  /\ races' = races \union {"unspawned"}
                \union (IF Starting(process[s].conn) THEN {"late"} ELSE {})
  /\ UNCHANGED <<message_queue_pos, connVars>>

\* Mutant: the entry keeps the pid of the sender that has ended.
SetRestartedForgotten(s) ==
  /\ process[s].pc = "set"
  /\ process' = [process EXCEPT ![s].pc = "loop"]
  /\ restarted' = [restarted EXCEPT ![process[s].conn] = ACTOR_INVALID_ID]
  /\ UNCHANGED <<message_queue_pos, remote_nodes, startVars, sock, doomed, races>>

SetRestarted(s) ==
  /\ process[s].pc = "set"
  /\ process' = [process EXCEPT ![s].pc = "loop"]
  /\ LET c == process[s].conn
     IN  /\ remote_nodes' = [remote_nodes EXCEPT ![node[c]] = restarted[c]]
         /\ restarted' = [restarted EXCEPT ![c] = ACTOR_INVALID_ID]
  /\ UNCHANGED <<message_queue_pos, startVars, sock, doomed, races>>

BreakOn(s, results) ==
  /\ Supervise(s, results)
  /\ process' = [process EXCEPT ![s].queue = Tail(@), ![s].pc = "shutdown"]
  /\ NoteLate(s)
  /\ UNCHANGED <<message_queue_pos, connVars>>

\* Mutant: a timeout ends the connection, too.
BreakAny(s) == BreakOn(s, {"SUCCESS", "NETWORK", "TIMEOUT"})

Break(s) == BreakOn(s, {"SUCCESS", "NETWORK"})

\* Mutant: the socket stays open.
ShutdownNot(s) ==
  /\ process[s].pc = "shutdown"
  /\ process' = [process EXCEPT ![s].pc = "stop"]
  /\ UNCHANGED <<message_queue_pos, connVars, races>>

\* A socket that connect or listen has closed stays closed.
Shutdown(s) ==
  /\ process[s].pc = "shutdown"
  /\ process' = [process EXCEPT ![s].pc = "stop"]
  /\ sock' = [sock EXCEPT ![process[s].conn] =
                IF @ = "closed" THEN @ ELSE "shutdown"]
  /\ UNCHANGED <<message_queue_pos, remote_nodes, startVars, restarted, doomed,
                 races>>

\* actor_distributer_disconnect_from_node, called by the supervisor.
StopSender(s) ==
  /\ process[s].pc = "stop"
  /\ LET d == remote_nodes[node[process[s].conn]]
     IN  /\ process' = [Put(d, Stop) EXCEPT ![s].pc = "invalidate"]
         /\ NoteAstray(d, {process[s].conn})
  /\ UNCHANGED <<message_queue_pos, connVars>>

\* Mutant: the entry is left as it is.
InvalidateNot(s) ==
  /\ process[s].pc = "invalidate"
  /\ Returns(s, "SUCCESS")
  /\ UNCHANGED <<message_queue_pos, connVars, races>>

Invalidate(s) ==
  /\ process[s].pc = "invalidate"
  /\ remote_nodes' =
       [remote_nodes EXCEPT ![node[process[s].conn]] = ACTOR_INVALID_ID]
  /\ Returns(s, "SUCCESS")
  /\ UNCHANGED <<message_queue_pos, startVars, sock, restarted, doomed, races>>

SupervisorStep(s) ==
  \/ Ignore(s)
  \/ Restart(s)
  \/ RestartFails(s)
  \/ SetRestarted(s)
  \/ Break(s)
  \/ Shutdown(s)
  \/ StopSender(s)
  \/ Invalidate(s)

SenderStep(s) ==
  \/ Relink(s)
  \/ SenderTimeout(s)
  \/ SenderStop(s)
  \/ Transmit(s)
  \/ TransmitFails(s)

-----------------------------------------------------------------------------
(* The other side, and the users of the node.                              *)

PeerCloses(c) ==
  /\ sock[c] = "open"
  /\ sock' = [sock EXCEPT ![c] = "peer_closed"]
  /\ doomed' = doomed \union {c}
  /\ UNCHANGED <<process, message_queue_pos, remote_nodes, startVars,
                 restarted, races>>

\* Something can be sent to the pid in the entry of r.
Sendable(r) ==
  LET d == remote_nodes[r]
  IN  d \in Slots /\ process[d] # Free /\ Len(process[d].queue) < MaxQueue

\* actor_node_send_message to another node.
Send(r) ==
  /\ Sendable(r)
  /\ process' = Put(remote_nodes[r], MessageTo(r))
  /\ NoteAstray(remote_nodes[r], To(r))
  /\ UNCHANGED <<message_queue_pos, connVars>>

\* The senders of connection c whose function has not returned.
Senders(c) ==
  {s \in Of("sender", c) : process[s].pc \in {"link", "relink", "loop"}}

\* actor_distributer_disconnect_from_node, called by a user, successfully.  The
\* race "unheard": the sender has returned and will not receive the message.
Disconnect(r) ==
  /\ Sendable(r)
  /\ LET d == remote_nodes[r]
     IN  /\ process' = Put(d, Stop)
         /\ doomed' = doomed \union {c \in Connections : d \in Of("sender", c)}
         /\ races' = races
              \union (IF Astray(d, To(r)) THEN {"misdirected"} ELSE {})
              \union (IF process[d].pc \in {"end", "release"}
                      THEN {"unheard"} ELSE {})
  /\ UNCHANGED <<message_queue_pos, remote_nodes, startVars, sock, restarted>>

Users == {s \in Slots : process[s].role = "user"}

SpawnUser ==
  /\ Cardinality(Users) < MaxUsers
  /\ Spawn("user", NULL, "loop")
  /\ UNCHANGED <<connVars, races>>

UserReceives(s) ==
  /\ s \in Users /\ process[s].pc = "loop"
  /\ process[s].queue # <<>>
  /\ process' = [process EXCEPT ![s].queue = Tail(@)]
  /\ UNCHANGED <<message_queue_pos, connVars, races>>

UserReturns(s) ==
  /\ s \in Users /\ process[s].pc = "loop"
  /\ Returns(s, "SUCCESS")
  /\ UNCHANGED <<message_queue_pos, connVars, races>>

-----------------------------------------------------------------------------
ProcessStep(s) ==
  \/ Link(s)
  \/ ReceiveClosed(s)
  \/ SenderStep(s)
  \/ SupervisorStep(s)
  \/ End(s)
  \/ Release(s)

Next ==
  \/ \E c \in Connections : StartStep(c) \/ PeerCloses(c)
  \/ \E c \in Connections, r \in Nodes : Accept(c, r)
  \/ \E s \in Slots : ProcessStep(s) \/ ReceiveEmpty(s)
                        \/ UserReceives(s) \/ UserReturns(s)
  \/ \E r \in Nodes : Send(r) \/ Disconnect(r)
  \/ SpawnUser

Spec == Init /\ [][Next]_vars

\* Threads run on; a sender that waits for a message gets one or times out.  The
\* other side need not close the connection nor send an empty message.
Fairness ==
  /\ \A c \in Connections : WF_vars(StartStep(c))
  /\ \A s \in Slots : WF_vars(ProcessStep(s))

FairSpec == Spec /\ Fairness

-----------------------------------------------------------------------------
(* Properties.                                                             *)

TypeOK ==
  /\ process \in [Slots -> Process]
  /\ message_queue_pos \in 0 .. Size
  /\ remote_nodes \in [Nodes -> Slots \union {ACTOR_INVALID_ID}]
  /\ start \in [Connections -> {"idle", "supervisor", "receiver", "sender",
                                "set", "done", "failed"}]
  /\ node \in [Connections -> Nodes \union {Local}]
  /\ sock \in [Connections -> {"none", "open", "peer_closed", "shutdown",
                               "closed"}]
  /\ supervisor \in [Connections -> Slots \union {ACTOR_INVALID_ID}]
  /\ sender \in [Connections -> Slots \union {ACTOR_INVALID_ID}]
  /\ restarted \in [Connections -> Slots \union {ACTOR_INVALID_ID}]
  /\ doomed \subseteq Connections
  /\ races \subseteq Races

\* The supervisor of connection c is in its loop.
Supervised(c) ==
  \E s \in Of("supervisor", c) : process[s].pc \in {"loop", "set"}

\* A connection never has two senders that take messages, whatever the order
\* in which timeouts, restarts and ends come (distributer.c:181-194), unless a
\* message of another connection goes astray.
OneSender ==
  "misdirected" \notin races =>
    \A c \in Connections : Cardinality(Senders(c)) <= 1

\* The end of one of its processes is on its way to the supervisor of c.
EndOnTheWay(c) ==
  \/ \E s \in Slots : process[s].conn = c /\ process[s].pc = "end"
                        /\ process[s].role \in {"sender", "receiver"}
  \/ \E s \in Of("supervisor", c) : \E i \in DOMAIN process[s].queue :
       process[s].queue[i].error # "none"

\* While a connection stands, the entry of its node names its sender, and if
\* the sender has returned, its end is on its way to the supervisor
\* (distributer.c:193, 273).
EntryNamesSender ==
  races = {} =>
    \A c \in Connections :
      start[c] = "done" /\ (\E s \in Of("supervisor", c) : process[s].pc = "loop")
        => \/ Senders(c) = {remote_nodes[node[c]]}
           \/ Senders(c) = {} /\ EndOnTheWay(c)

\* An entry is valid only while a connection to that node stands or is being
\* closed (distributer.c:213): nobody is refused for a connection that has
\* ended, and nobody sends to the pid of its sender.
EntryHasConnection ==
  "late" \notin races =>
    \A r \in Nodes :
      remote_nodes[r] # ACTOR_INVALID_ID =>
        \E c \in To(r) : \E s \in Of("supervisor", c) :
          process[s].pc \notin {"end", "release"}

\* A connection is never shut down by the timeouts of its idle sender
\* (distributer.c:43, 181), however often it is replaced, nor by what ends
\* elsewhere: somebody has closed it or told it to stop, here or over there, or
\* an empty message went over it, which either loop takes for the end (70, 119).
ShutdownJustified ==
  "misdirected" \notin races =>
    \A c \in Connections : sock[c] = "shutdown" => c \in doomed

\* No process of connection c is left.
Gone(c) == \A s \in Slots : process[s].conn # c

\* A connection that the peer closes, whose sender is told to stop in time, or
\* over which an empty message goes ends with all its processes, if it was
\* started in full (distributer.c:93, 119, 51, 70, 195-213).
ClosedIsCleaned ==
  \A c \in Connections :
    c \in doomed /\ start[c] = "done" ~> Gone(c) \/ "unheard" \in races

\* A sender that has timed out is replaced, whatever reaches the supervisor in
\* between, or the connection ends (distributer.c:43, 181-194).
SenderComesBack ==
  \A c \in Connections :
    start[c] = "done" /\ Supervised(c) /\ Senders(c) = {}
      ~> Senders(c) # {} \/ ~ Supervised(c) \/ "unspawned" \in races

-----------------------------------------------------------------------------
(* What the comments of the code say and the code does not do.             *)

\* "close connection" (node.h:80, of actor_node_disconnect): a disconnect that
\* returns success closes the connection.
DisconnectCloses ==
  \A c \in Connections : c \in doomed /\ start[c] = "done" ~> Gone(c)
=============================================================================
