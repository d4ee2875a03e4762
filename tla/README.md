# A verification of libactor

libactor is an actor library for C: processes are blocks that libdispatch runs
on its threads, every process has a message queue, and a node is a table of
processes that other nodes can reach over TCP. This directory holds TLA+ models
of its concurrent core and of its distributer, TLC configurations that check them
on small instances, and proofs, which TLAPS checks, that every safety property and
every refinement that the runs find to hold does so for any number of threads,
messages, processes, slots, connections, nodes and calls.

Line numbers refer to `src/src/*.c` unless a path is given.

## The system

| component | state | operations | hard because |
|---|---|---|---|
| message queue (`message.c`) | `first`, `last`, the `next` pointers, list lock `semaphore_read_write`, counter `semaphore_messages` | create, release, put, get | two semaphores and a list are updated at different times by any number of threads; a get may time out |
| process table (`node.c` 280-425, `process.c` 23-108) | `message_queues[]`, `message_queue_pos`, create lock, `process_count`, `process_semaphore` | find and register a slot, release it, wait for all processes | release takes no lock; the counter is updated with and without the lock |
| processes of a node (`node.c` 149-277, `process.c`) | a process object each: pid, supervisor, queue | spawn, link, unlink, send, receive, end | a send uses a pointer read from a slot while the owner ends; pids are slot numbers and are reused |
| node (`node.c` 23-146) | all of the above, `remote_nodes[]` | create, release | the table is not initialised; release assumes no process is left |
| connection (`distributer.c` 28-276, 522-536) | a supervisor, a sender and a receiver process, one socket, one entry of `remote_nodes[]` | send loop, receive loop, supervise, disconnect | the sender ends on a 10 s timeout and is restarted; the entry is shared without a lock |
| handshake (`distributer.c` 278-519) | the socket of each side | connect, listen | each side checks its own table, and either can fail alone |
| wire format (`distributer.c` 59-72, 86-148) | the byte stream | header and body, partial reads | a read may time out or return a part |
| facade, strings, types (`actor.c`, `error.c`, headers) | none | forwarding | - |

They interact as follows. `actor_spawn` creates a process, which takes a slot of
the table and registers a new queue there; a block dispatched to a libdispatch
queue runs the function of the process, sends its result to the supervisor and
releases the process. `actor_send` makes a message, looks up the slot of the
destination pid (for another node: the slot of the pid in `remote_nodes`, which
is the sender process of the connection), reads the queue pointer from it and
puts the message. `actor_receive` gets from the queue of the calling process.
The distributer is a user of these operations.

What makes the parts correct:

* message queue: it is a first-in first-out mailbox; the list is whole whenever
  the lock is free; every message is in one place; the counter agrees with the
  list; a put returns, what is put is received, a timeout is justified.
* process table: a registration overwrites nobody, a process owns its slot until
  it is released, a creation is refused only for slots in use, the counter is the
  number of processes, the wait for all waits for all.
* processes: nothing sent to a living process is lost, nothing is delivered to
  another process while the right one lives, a supervisor is told of every end.
* connection, handshake, wire format: `remote_nodes` names the sender of an open
  connection or nobody; a closed connection leaves no process behind; both sides
  agree on being connected; what is read is what was written, or the connection
  is closed.

Where the code does not have such a property without a condition, the condition
is part of the property: a history variable records the race that breaks it. A
property with such a condition does not catch the race itself; the notes of the
hazards in `PROJECT.json` say so, and where a comment of the code denies the race, a
run of its own shows the violation.

## Modules

| module | models | level |
|---|---|---|
| `Mailbox` | what a message queue promises | abstract specification |
| `MessageQueue` | `message.c`: create, put, get, release of messages | one action is one access of a thread to shared memory |
| `ProcessTable` | `node.c` 280-425 and `process.c` 23-108 | one action is one access of a thread to shared memory |
| `Actors` | what a node promises its processes | abstract specification |
| `Node` | `node.c` 149-277, the rest of `process.c` | a put, a get and the taking of a slot are one step each |
| `Connection` | `distributer.c` 28-99, 155-276, 359-373, 494-536 | spawn, put and the taking of a slot are one step each |
| `Channel` | what one direction of a connection promises | abstract specification |
| `Wire` | `distributer.c` 39-79, 82-150 | one action is one send or recv |
| `Handshake` | `distributer.c` 278-519 | one action is one send or recv, one check, one start |
| `MessageQueueProofs`, `ProcessTableProofs`, `NodeProofs`, `ConnectionProofs`, `WireProofs`, `HandshakeProofs` | - | theorems about the six modules, proved with TLAPS |
| `Counting` | - | lemmas on the size of a finite set and on the least of a set of numbers, used by them |
| `MCMessageQueue`, `MCProcessTable`, `MCNode`, `MCConnection`, `MCWire`, `MCHandshake` | - | instances for TLC: symmetry, a constraint |

**MessageQueue.** A thread is at a point `pc[t]` of put or get. The two semaphores
are their values; a wait that may time out is two actions, `GetWait` and
`GetTimeout`, the latter enabled when the counter is exhausted. Inside the lock each
assignment to `first`, `last` and `next` that another thread could see is an
action, and so is the `newMessage->next = NULL` of `get`, which runs after the lock has
been given back (254). `chain` is a history variable: the messages linked and not
yet unlinked. Init is the state `actor_message_queue_create` leaves; a failing
malloc only returns an error and is not an action. The queue exists throughout;
its release belongs to its owner and is modelled in `ProcessTable` and `Node`.

**ProcessTable.** A member of `Processes` is a process object together with the
threads that create, run and release it, used again and again.
`message_queue_create_semaphore` protects the section from `check` to `unlock`, and
nothing protects a release. The scan looks at one slot per step, `++` and `--` of
`process_count` are a load and a store, and the slot is cleared twice, at
message.c:168 and node.c:394, as in the code. `Contents` is what malloc may leave
in the table: `{NULL}` for zeroed memory, `{NULL, Garbage}` for any.
`CountModulus` is 2^w for the width of `actor_size_t`. History variables:
`cleared` (slots cleared while the create lock was held) and `races`, the set
of races that have happened: `reused` (a slot registered between its two
clears), `lost` (an update of the counter from a stale value), `late` (a signal
for a count that has changed since the test). A creation is refused in two ways:
the search has seen every slot in use (`refused`), or the slot at which it has
stopped has the id `message_queue_pos` (`refused_free`), which happens when that
slot was in use at line 303 and has been released since. In the second case
the slots behind it are never looked at (`Looked`): a slot that is free throughout
the call may be missed there, and `RefusalJustified` speaks of the others only.

**Node.** A member of `Processes` lives once, and its queue is denoted by it; slots
and so pids are reused. A send is four steps, as in `actor_node_send_message`: the
message is made, the slot is looked up, the queue pointer is read from it, the
message is put. The end of a process is the same send to the supervisor, followed by
the release of whatever queue is in the slot of the process (`Found`): `Drain`,
`Free`, `Clear` and `ClearAgain`. `Drain` is the loop of
`actor_message_queue_release` as it runs, one round; `Clear` and `ClearAgain` are
the two clears of the slot (message.c:168, node.c:394). A process spawned in between
takes the slot, and the second clear erases it: messages to it are lost, and its pid
is given away again. The history variable `reused` records that a slot was taken
that way (the race of that name in `ProcessTable`), and what `Node` claims of
messages and pids it claims until then. What follows is in the model all the same: a
release that finds no queue (`DrainNull`) or that of another process. A put to a
queue that has been freed (`PutFreed`) is undefined behaviour; the model goes on as
if the message were lost, which is one of its outcomes. `content[m].meant` is
history too: the process that had the destination pid when the message was made.
`Node` takes as given what the other two modules are about, both proved below: that
the queue is a mailbox, and that a slot is taken in one step (`RegisterOnlyFree`).

`Actors` is what a user of the library relies on, stated without slots, pids and
queues: a process is unborn, alive, ended or gone, has at most one message in
transit, and a mailbox. What is sent to a living process is appended to its
mailbox, once, so in the order of its sender; it may be lost if that process has
ended, and reach another one only if it is gone. `Node` implements it: `life` is
read off `pc` and `returned`, `transit` is the message of a process between
`Send` or `Return` and the put, `mailbox` is the queue with the history `meant` in the
place of the pid. The refinement also says that a pid is never given away while a
message can still be put to the queue of its owner.

**Connection.** A member of `Connections` is one call of connect or listen with its
socket; each is made once. A process is denoted by its slot, that is by its pid, and
`process[s]` holds its role, its point, its supervisor and its queue: a pid in
`remote_nodes`, in `supervisor_pid` or in a local variable names whatever is in that
slot now, as in the code. Other processes of the node (`SpawnUser`) take and return
slots. `sock[c]` distinguishes what the three processes can tell apart: open, closed
by the peer, shut down (207), and closed by connect or listen, after which `recv`
gives -1 and the receiver loops (97). An empty message ends either loop on a socket
that is open: `send` returns 0 (70), and so does `recv` of its body (119)
(`TransmitFails`, `ReceiveEmpty`). `doomed` is history: the connections that the
peer has closed, that somebody has told to stop, or over which an empty message
went. `races` records what the properties are conditional on:

* `misdirected`: a message of one connection (an end, a STOP, a message for the
  other node) reaches a process of another, which has got the pid meanwhile;
* `overlap`: connect or listen finds no entry for the node while another
  connection to it has not set it yet, or has not finished its end (360, 494);
* `late`: the supervisor restarts the sender or closes the connection before the
  entry is set for the first time (273);
* `unspawned`: the sender cannot be spawned again (183), and the connection goes
  on without one;
* `unheard`: a disconnect reaches a sender that has returned.

None of the conditions can be left out: with two connections TLC finds each property
violated without its own. Simplified are: a spawn and a put (one step each, the
steps between are in `Node`), the call of `actor_distributer_disconnect_from_node`
(one step, at its put), and the receiver, which hands on nothing to other processes
here (what it reads is the subject of `Wire`, and handing it on is one `actor_send`,
as in `Node`). The second clear of a slot is left out, with the race it can be in
(`reused` of `Node`). The reuse of a file descriptor after `close` is not modelled,
and users do not send to the processes of a connection but through the entry of the
remote node.

**Wire.** One direction of a connection. The stream is a sequence of bytes, a byte
is the number of its message and its place in it, the first `HeaderSize` places
are the header. A `recv` returns any first part of the stream, at most what was
asked for. The receiver asks once for a header and drops what is shorter (102);
it asks for a body until it is complete (116), and drops all of it when the
timeout of the socket, which connect and listen set, has passed in between (126);
malloc without memory has the same effect. From then on it is out of step, which
the history variable `torn` records: any bytes of the right number are taken for a
header, with any size. The sender loop is one actor here, also where it
consists of several processes, each of which times out and is replaced between two
messages (`Connection`). `Close` is the shutdown by a supervisor, a fault of the
network or a disconnect; what is under way may then be lost (`Lose`), and a send
then fails or goes nowhere. `Channel` is the abstract specification: the n-th
message handed on is the n-th sent, until the channel is torn.

**Handshake.** Two nodes, each in a program of its own, and calls of connect and
listen. A call of connect reaches a socket that is listened on, accepted yet or
not (the backlog, 431), and sends; a call of listen accepts one of those and closes
its socket, so that others time out. `sent[c]` is what call c has sent, `closed`
the calls whose socket was closed or shut down. Every send and every recv may fail
(`TalkFails`): it stands for the network, the timeout of 10 s and a recv that
returns less than was asked for. The checks (359-361, 493-495) read the table of
the node, `Start` is `start_connectors` up to its last spawn, `SetEntry` its last
statement. What happens inside a connection is left to `Connection`: a side stands
(`up`) from its start until it ends, which it may do at any time (`End`) and does if
the socket at the other end is closed (`ClosedIsCleaned`). In between its supervisor
may start another sender at any time: the entry is set to its pid (`Restart`), or to
`ACTOR_INVALID_ID` if it cannot be spawned, while the connection stands
(`RestartFails`, 193). `Crash` kills the program
of a node and starts it again with the same id and an empty table. `races` records
`overlap`, a check that passes while another call on the node is between its check
and its entry, `late`, an entry that is set after its connection has ended or its
sender was replaced, and `unspawned`, an entry lost because no sender could be
spawned. The index one beyond the table, which connect lets pass, is a place of its own.

## Runs

Passing runs. The bounds are the constants of the `.cfg` file.

| run | instance | shows |
|---|---|---|
| `queue` | 2 senders, 2 receivers, 3 messages, fair | the safety properties of the queue, that it implements `Mailbox`, `PutReturns`, `QueuedIsReceived` |
| `table` | 3 processes, 3 queues, 3 slots with any content, count modulo 4, 1 signal, up to the first race but `late` | `CreateLock`, `RegisterOnlyFree`, `RefusalJustified`, `TableIntact`, `CountAgrees`, `WaitJustified` |
| `node` | 4 processes, 2 messages, 3 slots, sends and links to pid 1, up to the first slot taken between its clears | `NothingLostToTheLiving`, `OnePlace`, and that `Node` implements `Actors` |
| `node_told` | 3 processes, 2 messages, 3 slots, sends and links to pid 0, a send beyond the table, fair | `SupervisorIsTold` with another process, its sends and its end that cross the report |
| `conn` | 2 connections to one node, 1 other process, 3 slots, queue bound 1, up to the first race but `overlap` | `OneSender`, `EntryNamesSender`, `EntryHasConnection`, `ShutdownJustified` |
| `conn_live` | 1 connection, 4 slots, queue bound 1, fair, races included | `ClosedIsCleaned`, `SenderComesBack`, and `OneSender` beyond the races it is not conditional on |
| `wire` | 3 messages of 0, 1 or 3 bytes, headers of 2, fair | `InStep`, `SentIsDelivered`, `EndTogether`, and that `Wire` implements `Channel` |
| `handshake` | 2 calls of connect, 2 of listen, 2 nodes with ids 0, 1, 2, 2 keys, 2 places in the table | `StandsWithPeer`, `OneConnection`, `EntryStands` |
| `handshake_live` | 2 calls of connect, 1 of listen, 2 nodes with ids 0, 2, 2 keys, fair | `EventuallyAgree` |

Why these bounds are enough. The list code distinguishes an empty list, one message
and more; three messages for four threads give a list of two while one message is
being put or taken, and the safety properties are proved for any number. In `table`
leftover pointers make some or all of three slots unusable, so that the table is full
for one, two or three processes, creations wait and slots are reused, and every pair
of creation, release and wait is met by a third process that interferes.
`RefusalJustified` needs the three slots: one in front of the slot a refused search
has stopped at, and one behind it. `CountModulus` exceeds the number of processes, as
`actor_size_t` does. `MaxSignals` bounds `process_semaphore`: a signal that would
exceed it is not given; the drain in a creation (352) rules out two signals but for
races, and `table_wait` allows two. Exploration of `table` ends where a slot is reused
between its clears or an update of the counter is lost (`OnlyLate`): what is claimed
beyond that (`CreateLock`, `RegisterOnlyFree`, `RefusalJustified`, and `TableIntact`
or `CountAgrees` after the other race) is proved for any number of everything. In
`node` a message can go astray only when four processes meet: a sender, the receiver
that ends, a third that spawns meanwhile and the fourth that takes over the pid.
That takes three slots; `Pids`, the pids callers pass, is then restricted to one
slot, since the slots do not differ. Two messages are needed for the loop of the
release and for a message that waits in front of another. What `node` checks is
claimed until a slot is taken between its two clears, and its exploration goes on
after that only where there are no messages and no supervisors (`MCNoReuseYet`),
which is enough for a release that finds no queue and for the types. In `node_told`
every process has a slot of its own, so that a third one can send to the supervisor,
and end, between any two steps of the report of the child, and two messages let
another send be under way at that time. Processes are numbered there in the order in
which they are spawned (`MCInOrder`), and messages in the order in which they are
made (`MCFirstFree`): they differ in nothing else. The pid beyond the table is tried
by the first process while it is the only one, where it disturbs nobody
(`MCBeyond`). In `conn` three slots
are what one connection needs; with the other process and the second connection they
are short, so that spawns fail, starts are partial, and every freed slot is taken by
somebody else. The run goes on after the race `overlap`, without the other process
(`OneRaceAtMost`), since two connections take each other's slots; it stops at any
other race, where the two together would be too many states. `conn_live` goes
through all races one connection can have, and has a slot to spare so that a new
sender and the old one may exist together. `MaxQueue` bounds only what users put to
a sender: one message in front of a timeout, an end or a STOP is what the code can
tell apart.

In `wire` a header of two bytes can arrive in parts, a body of three in two or
three parts and together with the next header, one of one byte only whole, one of
none is the empty message; three messages are one that is torn, one whose bytes
are taken for a header, and one after that. In `handshake` two connections of the
same node to the same id need two calls on each side; the ids are those a node may
have in common, two in the table, and the one beyond it. The nodes may have the
same id, and a call of connect may reach its own node. A call is made once, so that
at most two connections follow each other under one id, which is what an entry
can confuse. `handshake_live` needs no second connection but a call of connect that
is left in the backlog.

The runs of `Node`, `Connection`, `Wire` and `Handshake` do not check for deadlock:
all processes and calls may end, and then nothing happens any more. All other runs
do.

Violations, each of a line of the repository and listed under `findings` in
`PROJECT.json`:

| run | property | what happens |
|---|---|---|
| `table_wait` | `WaitIsForAll` | a late signal ends the wait while a process runs (node.c:401) |
| `table_lost` | `ZeroWhenNoneLeft` | an update of the counter is lost, and it is not 0 when nobody is left (node.c:397) |
| `conn_disconnect` | `DisconnectCloses` | a disconnect at the moment of a timeout is forgotten (distributer.c:534) |

The models contain more effects, which no run calls wrong: no line of the repository
denies them, or they follow from the code in one step (message.c:153, 145). Where a property would not hold because of one, it is
conditional on the race that records it.

* The table is not initialised (node.c:52): a leftover pointer counts as a process,
  and the first creation may be refused.
* The second clear of a release (394) erases a process registered after the first:
  messages to it are lost, and its pid is given away again (race `reused` of
  `ProcessTable`, history variable `reused` of `Node`).
* A creation whose search has stopped at a slot released during the scan is refused
  without a look at the slots behind it (316; point `refused_free` of `ProcessTable`).
* The release of a queue frees one message only, since its loop tests the pointer that
  the release of the first has set to NULL (message.c:153; `Drain` of `Node`).
* A second wait for a node without processes times out, since the first has taken
  the only signal (415).
* A process is gone before its spawner reads its pid through the pointer that the
  block has set to NULL (207; point `crashed` of `Node`).
* A send reads the queue pointer while the owner releases the queue: the message
  is put to freed memory (276; `PutFreed`).
* A start whose second or third spawn fails leaves a supervisor, and perhaps a
  receiver, behind (distributer.c:252), while connect and listen close the socket.
* Until the entry of a sender that has timed out is updated (distributer.c:193) a
  message for the other node goes to whoever has got its pid (node.c:263).
* connect accepts the id `ACTOR_NODE_MAX_REMOTE_NODES`, and reads and writes one place
  behind `remote_nodes` (distributer.c:359, 273); listen does not (493).
* A header that arrives in parts, or a timeout in the middle of a message, leaves
  the receiver out of step for good (distributer.c:102, 126).
* An empty message ends a connection that nobody has closed (distributer.c:70, 119).
* A sender that cannot be spawned again takes the entry of its node with it, while
  the connection stands: a second one to the same node is let in
  (distributer.c:193, race `unspawned`).
* connect and listen do not close their socket when connect, bind or listen of the
  socket layer fails (322, 426, 431).
* A process that has decremented the counter reads it once more (node.c:400), when
  the wait may have returned already and the node may be gone.
* A message whose destination has ended between the look-up and the put is never
  released (276; `LoadNull`), nor is the message a sender holds when the network
  fails (distributer.c:66).
* The socket of a connection is shut down (distributer.c:207) but never closed.
* The races of `Connection` listed above.

## Fairness

libdispatch runs every block it was given, and a thread that can run does, so each
step of an operation that has been called is weakly fair. The semaphores wake their
waiters in order of arrival, which strong fairness of the wait on a lock states: a
thread is not overtaken for ever. Nothing else is assumed of callers: no one has to
send, spawn or end. The exceptions are loops that exist in the code: `queue` lets a
receiver call get again (the loops at distributer.c:40 and 161), and `Node` lets a
process that has not returned go on receiving, as those loops and the main functions
of the examples do. Without them a message may stay in a queue for ever, rightly. In
`Connection` the steps of each process (per slot) and of each start are weakly fair;
the peer need not close, users need not send or disconnect, no empty message need
come (`ReceiveEmpty`), and a sender that waits either gets a message or times out.
In `Wire` the two loops are fair, and so is the close of a connection one of whose
loops has ended, which `ClosedIsCleaned` shows; nobody has to send, and the stream
need not lose or keep anything. In `Handshake` a call that can go on does, since
every recv has a timeout; listen may wait for ever to be connected to. The end of a
side whose peer has closed its socket is fair, again from `ClosedIsCleaned`; no
other side has to end, and no sender has to be replaced.

## Proofs

`MessageQueueProofs` proves, for any finite sets of senders and receivers, any
set of messages and every behaviour of `MessageQueue!Spec`: `TypeOK`,
`ListIntact`, `OneOwner`, `TokensMatchMessages`, `NoMessagePassingError`,
`TimeoutJustified`, and that the queue implements `Mailbox`
(`ImplementsMailbox`). The assumptions are those of the module: the sets of
threads are finite, and NULL is not a message.

The invariant `IndInv` is the conjunction of the following parts. None of them
is inductive alone.

* `TypeOK`;
* the lock: it is 0 exactly while one thread is in `Section`, and at most one is;
* what the thread inside knows: the state of `first`, `last` and `next` at each
  point of put and get. It replaces `ListIntact`, which says nothing while the
  lock is held;
* `OneOwner` and the messages that threads hold at each point;
* the tokens: `semaphore_messages` + claiming gets + unsignalled puts is the
  length of `chain`.

A get that holds the lock at `get_read` has claimed a token, and every other
term of that sum is non-negative, so `chain` is not empty (`NonEmptyAtRead`) and
`first` is not NULL: that is `NoMessagePassingError`, and the step that makes the
list invariant inductive. Sets of threads are counted with the cardinality
theorems of the library (`CountStep`). The proof that a step preserves `IndInv` has
one lemma per part (`TypeStep`, `LockStep`, `MessageStep`, `OwnerStep`,
`InsideStep`, `OutsideStep`, `TokensStep`), each with one case per action. The
refinement maps `queue` to `chain` and `held` to `HeldBy`: `PutFirst` and `PutLast`
are `Put`, `GetAdvance` is `Get`, `Create` and `Release` are `Obtain` and
`Dispose`, and all other steps stutter (`MailboxStep`).

`ProcessTableProofs` proves, for any finite set of processes, any set of queues,
any size of the table and any initial content of it, and every behaviour of
`ProcessTable!Spec`: `TypeOK`, `CreateLock`, `RegisterOnlyFree`,
`RefusalJustified`, `TableIntact`, and, if `CountModulus` exceeds the number of
processes, `CountAgrees` and `WaitJustified`. Without that condition the last two
are false: a counter that wraps around reads 0 with processes left. Its three
invariants build on each other.

* `IndInv`, which holds in every state: `TypeOK`; `CreateLock`; a slot that a process
  has taken holds nothing malloc left there (`HoldInv`, without which a release
  could read such a pointer and `TypeOK` is not inductive); the slot a creation
  has chosen is free until it is registered (`FreeInv`, by the lock, since
  releases only ever clear slots); every slot the search has passed was in use or has
  been cleared since (`SearchInv`, which becomes `RefusalJustified` when the search
  ends, in either of the two ways).
* `TableInv`, which holds until a slot is reused between its two clears: no two
  processes own the same slot (`PidsDiffer`), a process that owns one has its
  queue there (`QueueInSlot`, `QueuesDiffer`), a release has found its own queue
  (`FoundOwn`), and the slot that a release is going to clear once more is nobody
  else's (`NotReused`). The last part is what the race breaks and what the
  step `ClearAgain` needs.
* `CountInv`: `CountAgrees`, and `SignalInv`: until an update is lost or a signal comes
  late, there is at most one signal, and while there is one the only process
  counted is the one about to drain it.

The proof that a step preserves them has one lemma per part or group of actions
(`TypeStep`, `LockStep`, `HoldStep`, `FreeStep`, `SearchStep`; `TakeOwn`,
`RegisterOwn`, `ReleaseOwn`, `StayOwn`, `LeaveOwn`; `StoreCount`, `SignalCount`,
`CountStay`). That a process which takes no step keeps its variables is a lemma
of its own (`OthersStay`).

`NodeProofs` proves, for any sets of processes, messages and pids and any number of
slots, and every behaviour of `Node!Spec`: `TypeOK`, `OnePlace`,
`NothingLostToTheLiving`, and that a node implements `Actors` (`ImplementsActors`).
The assumptions are that there is a first process, a slot, that NULL is no process
and no message, and that it is none of the records of `Content`
(`ContentAssumption`), which hold what a message says. All but `TypeOK` are claimed
until a slot is taken between its two clears, and so is the invariant: `IndInv` is
`TypeOK`, `BaseInv`, which holds whatever is erased (a process that was spawned has
a pid, and a send has got what its next step needs), and, until `reused`, `Intact`.
A step that makes `reused` true has nothing to preserve but the first two. The parts
of `Intact`:

* `LifeInv`: what a process holds at each point (a message, a queue to put it to);
* `SlotInv`: the slots that are in use and the processes that have a pid are the
  same, one to one;
* `PlaceInv`: `OnePlace`, and only messages that are allocated are held or queued. Its
  part that no message is twice in one queue is needed for the step that takes one
  out: it must not be there any more;
* `MeantInv` and `SendInv`: what a send knows between its steps. The process that was
  meant has the pid in `destination_pid` as long as it lives, so that the look-up
  and the load find its queue, and the queue a put goes to is its own unless it has
  gone. `NothingLostToTheLiving` alone says nothing of a send that is under way.

The refinement uses the same facts (`PostStep`, `ArriveStep`, `TakeStep`,
`TurnStep`, `QuietStep`, one lemma for each kind of step of `Actors`): a put to the
queue of another process than the one meant is only a loss or a delivery to a
stranger, which `Actors` allows when the one meant has gone.

`ConnectionProofs` proves, for any sets of connections and remote nodes, any number
of slots and any bounds on queues and on other processes, and every behaviour of
`Connection!Spec`: `TypeOK`, `OneSender`, `EntryNamesSender`, `EntryHasConnection`
and `ShutdownJustified`, each under the condition on `races` that is part of it.
`IndInv` follows what passes between the processes of a connection:

* `RoleInv`, `StartInv`, `SupervisorInv`: where a process of each role can be, that a
  connection has one supervisor at most, and that its receiver and its sender are
  linked to it as long as they run;
* `TokenInv` is why there is one sender: for each connection at most one of these
  exists, a sender that takes messages or is about to end by a timeout, or a
  timeout in the queue of the supervisor. A sender that ends turns the one into the
  other, a supervisor that restarts it turns it back. Only a message of another
  connection, with a pid that was used again, could bring a second
  (`misdirected`). `OneSender` says nothing of reports under way, so that a restart
  would not keep it;
* `JustInv`: as long as nobody has closed a connection or told it to stop, and no
  empty message has gone over it, no end but a timeout is on its way to its
  supervisor, and no message for this node is in the queue of its sender;
* `EntryInv`, `OverlapInv`: an entry has a supervisor that will invalidate it, a
  connection that is being started has one that does not act yet, and two
  connections to one node do not stand together unless both were let in;
* `NamesInv`: from the spawn of a sender until the entry is set, and from a restart
  until it is set again, the local variable of `start_connectors` or of the
  supervisor names the sender, and in between the entry does.

`NamesInv` is proved on top of the others (`CoreInv`). Most steps move one process, so
the proof first says what a step can do to a slot: a process goes on, appears or
is released (`SlotSteps`), and it alone decides (`Owner`); what a step can do to a
queue (`Queues`); and who tells a supervisor of an end (`Teller`). Each part has a
lemma for its step (`TypeStep`, `RoleStep`, `TokenStep`, `JustStep`, `EntryStep`,
`OverlapStep`, `NamesStep`).

`WireProofs` proves, for any size of a header but 0, any sizes of messages and any
number of them, and every behaviour of `Wire!Spec`: `TypeOK`, `InStep` and that the
wire implements `Channel` (`ImplementsChannel`). `InStep` is not inductive: that the
next bytes are a header is known only if all bytes ahead of the receiver are known
to be those of the messages that come next, in order. `StepInv` says so (`GapFree`,
for `Ahead`, which is the header that was read, what there is of its body, and the
stream), `BodyInv` what the receiver has taken from a header, and `EndInv` that the
sender goes on where the stream ends, without which the bytes it adds could leave a
gap. `RangeInv` says that only bytes that were sent are under way, in any state, and
gives the types once the receiver is out of step. `GapFree` speaks of the place of a
byte and not of sums of sizes, so that no induction is needed: whatever part of the
stream arrives, the place of each byte in it follows from that of the first.

`HandshakeProofs` proves, for any sets of calls, nodes, keys and ids, any size of
the table and every behaviour of `Handshake!Spec`: `TypeOK`, `StandsWithPeer`,
`OneConnection` and `EntryStands`. `IndInv` collects what a call knows at each
point: its peer (`PeerInv`); that a server which sends has compared the keys
(`KeyInv`); that a call with an id has it from the peer that means it, and after the
check that it is not its own (`AgreeInv`); that only a call that has been started
stands (`UpInv`). `EntryInv` holds until there is a race, one of them the entry lost
with a sender: at most one call is on its way from the check to the entry of a
place, which is free until then, and every connection that is not on its way is the
one its place names.

What the proofs assume of the constants is what the modules assume, and TLC
evaluates it in the runs. The bounds in the guards (`MaxQueue`, `MaxUsers`,
`MaxMessages`, `MaxSignals`) are constants of any value here.

Only model-checked: the liveness properties (`PutReturns`, `QueuedIsReceived`,
`SupervisorIsTold`, `ClosedIsCleaned`, `SenderComesBack`,
`SentIsDelivered`, `EndTogether`, `EventuallyAgree`): they need fairness, and so
ENABLED, which is beyond the provers used. Not proved because they are false are the
three properties of the violation runs. That the parts fit together, `Node` taking a
queue for a mailbox and the taking of a slot for one step, and `Connection` taking a
spawn and a put for one step each, is an argument of this text: each side of it is
proved (`QueueImplementsMailbox`, `RegistersOnlyFree`, `NodeImplementsActors`), the
composition is not stated as a formula.

## Not modelled

* A `send()` that blocks for ever because the other side does not read: in
  `Connection` and `Wire` every send ends, which `ClosedIsCleaned`, `SenderComesBack`
  and `EndTogether` take for granted.
* In `Connection` the second clear of a slot (node.c:394). A process of a connection
  that is registered between the two clears of another release is erased in the
  code (`reused` of `ProcessTable` and `Node`); what `Connection` claims is claimed
  without that race.
* A send that takes a part of its bytes, which the sender does not continue
  (distributer.c:65, 70: any positive number is a success); a message that is
  larger than the buffers of the socket could be cut off that way.
* The signal SIGPIPE of a send to a connection that is closed, which ends a program
  that does not ignore it; the reuse of a file descriptor after `close`; a host that
  vanishes without closing its connections (nothing would ever tell the other
  side).
* Host names and ports, and the length of a key: a call of connect in `Handshake`
  has reached a socket. An unknown host name is a NULL dereference (318).
* The size a header out of step tells is one of `Sizes`, and what it leads to is
  handed on to some process or to none.
* `actor_node_release`: planned. `actor_process_sleep` touches no shared state.
* Failure of malloc for a message or a process, and of
  `dispatch_get_global_queue`: the caller gets an error and nothing has changed.
  The failure of a queue creation has effects and is modelled (`NewQueueFails`).
* The argument checks that return `ACTOR_ERROR_INVALUE` before anything happens,
  but for the range of a pid (`LookUpFails`) and a link to oneself.
* Data races on plain variables are interleaved at the level of single loads and
  stores; tearing and reordering of memory accesses by the hardware are not
  modelled.
* libdispatch and the socket layer are external; semaphores are modelled by what
  the code relies on.

## Plan

1. Done: `MessageQueue` with `Mailbox` and its proofs, `ProcessTable` with its
   proofs, `Node` with `Actors`, `Connection`, `Wire` with `Channel`, `Handshake`.
2. Done: proofs about all six modules, the refinements of `Mailbox`, `Actors` and
   `Channel` included.
3. `actor_node_release` against `wait_for_processes`: a node is released when no
   process uses it any more, but for those that have yet to test the counter
   (node.c:400).
4. The facts on which the liveness properties rest and which are invariants or
   properties of one step: that the end of a process is with its supervisor once
   it was told (`SupervisorIsTold`), that a connection that is closed still has
   somebody who goes on to end it (`ClosedIsCleaned`), that a step a loop waits for
   is possible (`PutReturns`, `SentIsDelivered`).
