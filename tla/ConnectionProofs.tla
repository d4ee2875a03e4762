-------------------------- MODULE ConnectionProofs ---------------------------
(***************************************************************************)
(* Proofs about Connection, for any number of connections, remote nodes    *)
(* and slots and any bounds.                                               *)
(***************************************************************************)
EXTENDS Connection, Counting, SequenceTheorems, TLAPS

(***************************************************************************)
(* The inductive invariant (IndInv, at the end) is stated part by part,    *)
(* each before the lemma that every step keeps it: where the processes of  *)
(* a connection are (RoleInv, StartInv, SupervisorInv), that one thing at  *)
(* a time makes a connection restart its sender (TokenInv), that nobody    *)
(* ends it unasked (JustInv), who clears its entry (EntryInv, OverlapInv)  *)
(* and who knows its sender (NamesInv).                                    *)
(***************************************************************************)

\* Where a process of each role can be.
Place(role, point) ==
  \/ role = "none" /\ point = "none"
  \/ role = "user" /\ point = "loop"
  \/ role = "supervisor" /\ point \in {"loop", "set", "shutdown", "stop", "invalidate"}
  \/ role = "receiver" /\ point \in {"link", "loop"}
  \/ role = "sender" /\ point \in {"link", "relink", "loop"}
  \/ role # "none" /\ point \in {"end", "release"}

\* A process is where its role allows it to be, and belongs to a connection
\* that has been started; only receivers and senders are linked.
RoleOK(s) ==
  LET p == process[s]
  IN  /\ p.role = "none" => p = Free
      /\ Place(p.role, p.pc)
      /\ p.conn = NULL <=> p.role \in {"none", "user"}
      /\ p.role \in {"user", "supervisor"} => p.supervisor_pid = ACTOR_INVALID_ID
      /\ p.pc = "end" => p.result # "none"
      /\ p.role = "receiver" /\ p.pc = "end" => p.result = "NETWORK"
      /\ p.conn # NULL => start[p.conn] \notin {"idle", "supervisor"}

RoleInv == \A s \in Slots : RoleOK(s)

\* A connection that is started has a remote node and a socket.
StartInv ==
  \A c \in Connections :
    IF start[c] = "idle" THEN node[c] = Local /\ sock[c] = "none"
                         ELSE node[c] \in Nodes /\ sock[c] # "none"

-----------------------------------------------------------------------------
(* What the steps do to the processes.                                     *)

\* The process in slot s goes on.
Moved(s, point, link, result, messages) ==
  /\ \A u \in Slots : u # s => process'[u] = process[u]
  /\ process'[s].role = process[s].role /\ process'[s].conn = process[s].conn
  /\ process'[s].pc = point /\ process'[s].supervisor_pid = link
  /\ process'[s].result = result /\ process'[s].queue = messages

\* A new process in slot f.
New(role, c, point) ==
  [role |-> role, conn |-> c, pc |-> point,
   supervisor_pid |-> ACTOR_INVALID_ID, result |-> "none", queue |-> <<>>]

LEMMA NewFromFree ==
  ASSUME NEW role, NEW c, NEW point
  PROVE  [Free EXCEPT !.role = role, !.conn = c, !.pc = point] = New(role, c, point)
  <1> DEFINE r == [Free EXCEPT !.role = role]
             t == [r EXCEPT !.conn = c]
             u == [t EXCEPT !.pc = point]
  <1>1. r = New(role, NULL, "none")
    BY DEF Free, New
  <1> HIDE DEF r
  <1>2. t = New(role, c, "none")
    BY <1>1 DEF New
  <1> HIDE DEF t
  <1>3. u = New(role, c, point)
    BY <1>2 DEF New
  <1>4. [Free EXCEPT !.role = role, !.conn = c, !.pc = point] = u
    BY DEF t, r
  <1> QED
    BY <1>3, <1>4

LEMMA ProcessFields ==
  ASSUME TypeOK, NEW s \in Slots
  PROVE  /\ process[s] \in Process
         /\ process[s].role \in Roles /\ process[s].conn \in Connections \union {NULL}
         /\ process[s].pc \in Points
         /\ process[s].supervisor_pid \in Slots \union {ACTOR_INVALID_ID}
         /\ process[s].result \in Results /\ process[s].queue \in Seq(Message)
  BY DEF TypeOK, Process

LEMMA QueueTypes ==
  ASSUME TypeOK, NEW s \in Slots
  PROVE  /\ process[s].queue \in Seq(Message)
         /\ \A m \in Message : Append(process[s].queue, m) \in Seq(Message)
         /\ process[s].queue # <<>> =>
              Head(process[s].queue) \in Message /\ Tail(process[s].queue) \in Seq(Message)
  BY ProcessFields, AppendProperties, HeadTailProperties

\* Fields of the process in one slot are set.
LEMMA LinkSet ==
  ASSUME TypeOK, NEW s \in Slots, NEW point \in Points,
         NEW link \in Slots \union {ACTOR_INVALID_ID},
         process' = [process EXCEPT ![s].pc = point, ![s].supervisor_pid = link]
  PROVE  /\ process' \in [Slots -> Process]
         /\ Moved(s, point, link, process[s].result, process[s].queue)
  <1> DEFINE r == [process[s] EXCEPT !.pc = point, !.supervisor_pid = link]
  <1>1. process' \in [Slots -> Process]
    <2>1. process[s] \in Process
      BY DEF TypeOK
    <2>2. r \in Process
      BY <2>1 DEF Process
    <2>3. process' = [process EXCEPT ![s] = r]
      OBVIOUS
    <2> HIDE DEF r
    <2> QED
      BY <2>2, <2>3 DEF TypeOK
  <1>2. \A u \in Slots : u # s => process'[u] = process[u]
    BY DEF TypeOK
  <1>3. /\ process'[s].role = process[s].role /\ process'[s].conn = process[s].conn
        /\ process'[s].pc = point /\ process'[s].supervisor_pid = link
        /\ process'[s].result = process[s].result
        /\ process'[s].queue = process[s].queue
    BY DEF TypeOK, Process
  <1> QED
    BY <1>1, <1>2, <1>3 DEF Moved

LEMMA ResultSet ==
  ASSUME TypeOK, NEW s \in Slots, NEW point \in Points, NEW result \in Results,
         process' = [process EXCEPT ![s].pc = point, ![s].result = result]
  PROVE  /\ process' \in [Slots -> Process]
         /\ Moved(s, point, process[s].supervisor_pid, result, process[s].queue)
  <1> DEFINE r == [process[s] EXCEPT !.pc = point, !.result = result]
  <1>1. process' \in [Slots -> Process]
    <2>1. process[s] \in Process
      BY DEF TypeOK
    <2>2. r \in Process
      BY <2>1 DEF Process
    <2>3. process' = [process EXCEPT ![s] = r]
      OBVIOUS
    <2> HIDE DEF r
    <2> QED
      BY <2>2, <2>3 DEF TypeOK
  <1>2. \A u \in Slots : u # s => process'[u] = process[u]
    BY DEF TypeOK
  <1>3. /\ process'[s].role = process[s].role /\ process'[s].conn = process[s].conn
        /\ process'[s].pc = point /\ process'[s].supervisor_pid = process[s].supervisor_pid
        /\ process'[s].result = result
        /\ process'[s].queue = process[s].queue
    BY DEF TypeOK, Process
  <1> QED
    BY <1>1, <1>2, <1>3 DEF Moved

LEMMA QueueResultSet ==
  ASSUME TypeOK, NEW s \in Slots, NEW point \in Points, NEW result \in Results,
         NEW messages \in Seq(Message),
         process' = [process EXCEPT ![s].queue = messages, ![s].pc = point,
                                    ![s].result = result]
  PROVE  /\ process' \in [Slots -> Process]
         /\ Moved(s, point, process[s].supervisor_pid, result, messages)
  <1> DEFINE r == [process[s] EXCEPT !.queue = messages, !.pc = point,
                                      !.result = result]
  <1>1. process' \in [Slots -> Process]
    <2>1. process[s] \in Process
      BY DEF TypeOK
    <2>2. r \in Process
      BY <2>1 DEF Process
    <2>3. process' = [process EXCEPT ![s] = r]
      OBVIOUS
    <2> HIDE DEF r
    <2> QED
      BY <2>2, <2>3 DEF TypeOK
  <1>2. \A u \in Slots : u # s => process'[u] = process[u]
    BY DEF TypeOK
  <1>3. /\ process'[s].role = process[s].role /\ process'[s].conn = process[s].conn
        /\ process'[s].pc = point
        /\ process'[s].supervisor_pid = process[s].supervisor_pid
        /\ process'[s].result = result /\ process'[s].queue = messages
    BY DEF TypeOK, Process
  <1> QED
    BY <1>1, <1>2, <1>3 DEF Moved

LEMMA LinkMoves ==
  ASSUME TypeOK, NEW s \in Slots, NEW d \in Slots \union {ACTOR_INVALID_ID}, LinkTo(s, d)
  PROVE  /\ process' \in [Slots -> Process]
         /\ Moved(s, "loop", IF d = s THEN ACTOR_INVALID_ID ELSE d,
                  process[s].result, process[s].queue)
  <1> DEFINE link == IF d = s THEN ACTOR_INVALID_ID ELSE d
  <1>1. link \in Slots \union {ACTOR_INVALID_ID} /\ "loop" \in Points
    BY DEF Points
  <1>2. process' = [process EXCEPT ![s].pc = "loop", ![s].supervisor_pid = link]
    BY DEF LinkTo
  <1> HIDE DEF link
  <1>3. /\ process' \in [Slots -> Process]
        /\ Moved(s, "loop", link, process[s].result, process[s].queue)
    BY <1>1, <1>2, LinkSet
  <1> QED
    BY <1>3 DEF link

LEMMA ReturnMoves ==
  ASSUME TypeOK, NEW s \in Slots, NEW result \in Results, Returns(s, result)
  PROVE  /\ process' \in [Slots -> Process]
         /\ Moved(s, "end", process[s].supervisor_pid, result, process[s].queue)
  <1>1. "end" \in Points
    BY DEF Points
  <1> QED
    BY <1>1, ResultSet DEF Returns

LEMMA GoesOn ==
  ASSUME TypeOK, NEW s \in Slots, NEW point \in Points,
         process' = [process EXCEPT ![s].pc = point]
  PROVE  /\ process' \in [Slots -> Process]
         /\ Moved(s, point, process[s].supervisor_pid, process[s].result,
                  process[s].queue)
  <1> DEFINE r == [process[s] EXCEPT !.pc = point]
  <1>1. process' \in [Slots -> Process]
    <2>1. process[s] \in Process
      BY DEF TypeOK
    <2>2. r \in Process
      BY <2>1 DEF Process
    <2>3. process' = [process EXCEPT ![s] = r]
      OBVIOUS
    <2> HIDE DEF r
    <2> QED
      BY <2>2, <2>3 DEF TypeOK
  <1>2. \A u \in Slots : u # s => process'[u] = process[u]
    BY DEF TypeOK
  <1>3. /\ process'[s].role = process[s].role /\ process'[s].conn = process[s].conn
        /\ process'[s].pc = point /\ process'[s].supervisor_pid = process[s].supervisor_pid
        /\ process'[s].result = process[s].result
        /\ process'[s].queue = process[s].queue
    BY DEF TypeOK, Process
  <1> QED
    BY <1>1, <1>2, <1>3 DEF Moved

LEMMA TakeMoves ==
  ASSUME TypeOK, NEW s \in Slots, process[s].queue # <<>>,
         process' = [process EXCEPT ![s].queue = Tail(@)]
  PROVE  /\ process' \in [Slots -> Process]
         /\ Moved(s, process[s].pc, process[s].supervisor_pid, process[s].result,
                  Tail(process[s].queue))
  <1> DEFINE r == [process[s] EXCEPT !.queue = Tail(@)]
  <1>1. process' \in [Slots -> Process]
    <2>1. process[s] \in Process
      BY DEF TypeOK
    <2>2. r \in Process
      BY <2>1, QueueTypes DEF Process
    <2>3. process' = [process EXCEPT ![s] = r]
      OBVIOUS
    <2> HIDE DEF r
    <2> QED
      BY <2>2, <2>3 DEF TypeOK
  <1>2. \A u \in Slots : u # s => process'[u] = process[u]
    BY DEF TypeOK
  <1>3. /\ process'[s].role = process[s].role /\ process'[s].conn = process[s].conn
        /\ process'[s].pc = process[s].pc /\ process'[s].supervisor_pid = process[s].supervisor_pid
        /\ process'[s].result = process[s].result
        /\ process'[s].queue = Tail(process[s].queue)
    BY DEF TypeOK, Process
  <1> QED
    BY <1>1, <1>2, <1>3 DEF Moved

LEMMA TakeGoesOn ==
  ASSUME TypeOK, NEW s \in Slots, NEW point \in Points, process[s].queue # <<>>,
         process' = [process EXCEPT ![s].queue = Tail(@), ![s].pc = point]
  PROVE  /\ process' \in [Slots -> Process]
         /\ Moved(s, point, process[s].supervisor_pid, process[s].result,
                  Tail(process[s].queue))
  <1> DEFINE r == [process[s] EXCEPT !.queue = Tail(@), !.pc = point]
  <1>1. process' \in [Slots -> Process]
    <2>1. process[s] \in Process
      BY DEF TypeOK
    <2>2. r \in Process
      BY <2>1, QueueTypes DEF Process
    <2>3. process' = [process EXCEPT ![s] = r]
      OBVIOUS
    <2> HIDE DEF r
    <2> QED
      BY <2>2, <2>3 DEF TypeOK
  <1>2. \A u \in Slots : u # s => process'[u] = process[u]
    BY DEF TypeOK
  <1>3. /\ process'[s].role = process[s].role /\ process'[s].conn = process[s].conn
        /\ process'[s].pc = point /\ process'[s].supervisor_pid = process[s].supervisor_pid
        /\ process'[s].result = process[s].result
        /\ process'[s].queue = Tail(process[s].queue)
    BY DEF TypeOK, Process
  <1> QED
    BY <1>1, <1>2, <1>3 DEF Moved

LEMMA TakeReturnMoves ==
  ASSUME TypeOK, NEW s \in Slots, NEW result \in Results, process[s].queue # <<>>,
         TakesAndReturns(s, result)
  PROVE  /\ process' \in [Slots -> Process]
         /\ Moved(s, "end", process[s].supervisor_pid, result,
                  Tail(process[s].queue))
  <1>1. "end" \in Points /\ Tail(process[s].queue) \in Seq(Message)
    BY QueueTypes DEF Points
  <1>2. process' = [process EXCEPT ![s].queue = Tail(process[s].queue), ![s].pc = "end",
                                   ![s].result = result]
    BY DEF TakesAndReturns
  <1> QED
    BY <1>1, <1>2, QueueResultSet

LEMMA FreeSlotIsFree ==
  ASSUME TypeOK, FreeSlots # {}
  PROVE  /\ FreeSlot \in Slots /\ process[FreeSlot] = Free
         /\ FreeSlot + 1 \in 0 .. Size
  <1>1. Size \in Nat /\ FreeSlots \in SUBSET Nat
    BY ConnectionAssumption DEF FreeSlots, Slots
  <1>2. Min(FreeSlots) \in FreeSlots
    <2>1. \E x \in FreeSlots : \A y \in FreeSlots : x <= y
      BY <1>1, LeastNatural
    <2> QED
      BY <2>1 DEF Min
  <1>3. FreeSlot \in FreeSlots
    BY <1>2 DEF FreeSlot
  <1> QED
    BY <1>1, <1>3 DEF FreeSlots, Slots

LEMMA SpawnStarts ==
  ASSUME TypeOK, NEW role \in Roles, NEW c \in Connections \union {NULL},
         NEW point \in Points, Spawn(role, c, point)
  PROVE  /\ FreeSlot \in Slots /\ process[FreeSlot] = Free
         /\ message_queue_pos' = FreeSlot + 1 /\ FreeSlot + 1 \in 0 .. Size
         /\ process' \in [Slots -> Process]
         /\ process' = [process EXCEPT ![FreeSlot] = New(role, c, point)]
  <1>1. New(role, c, point) \in Process
    BY EmptySeq DEF New, Process, Results
  <1>2. process' = [process EXCEPT ![FreeSlot] = New(role, c, point)]
    <2>1. [Free EXCEPT !.role = role, !.conn = c, !.pc = point] = New(role, c, point)
      BY NewFromFree
    <2>2. process' = [process EXCEPT ![FreeSlot] =
                        [Free EXCEPT !.role = role, !.conn = c, !.pc = point]]
      BY DEF Spawn
    <2> QED
      BY <2>1, <2>2
  <1> QED
    BY <1>1, <1>2, FreeSlotIsFree DEF Spawn, TypeOK

\* A message is put to the queue of pid d.
Given(d, m, u) ==
  IF u = d /\ process[u] # Free THEN Append(process[u].queue, m)
                                ELSE process[u].queue

PutIn(d, m, new) ==
  \A u \in Slots :
    /\ new[u].role = process[u].role /\ new[u].conn = process[u].conn
    /\ new[u].pc = process[u].pc /\ new[u].supervisor_pid = process[u].supervisor_pid
    /\ new[u].result = process[u].result /\ new[u].queue = Given(d, m, u)

LEMMA PutMoves ==
  ASSUME TypeOK, NEW d, NEW m \in Message
  PROVE  /\ Put(d, m) \in [Slots -> Process]
         /\ PutIn(d, m, Put(d, m))
  <1>1. CASE ~ (d \in Slots /\ process[d] # Free)
    BY <1>1 DEF Put, TypeOK, PutIn, Given
  <1>2. CASE d \in Slots /\ process[d] # Free
    <2> DEFINE messages == Append(process[d].queue, m)
    <2>1. messages \in Seq(Message)
      BY <1>2, QueueTypes
    <2>2. Put(d, m) = [process EXCEPT ![d].queue = messages]
      BY <1>2 DEF Put
    <2> HIDE DEF messages
    <2>3. /\ Put(d, m) \in [Slots -> Process]
          /\ \A u \in Slots :
               /\ Put(d, m)[u].role = process[u].role
               /\ Put(d, m)[u].conn = process[u].conn
               /\ Put(d, m)[u].pc = process[u].pc
               /\ Put(d, m)[u].supervisor_pid = process[u].supervisor_pid
               /\ Put(d, m)[u].result = process[u].result
               /\ Put(d, m)[u].queue = IF u = d THEN messages ELSE process[u].queue
      <3> DEFINE r == [process[d] EXCEPT !.queue = messages]
                 new == Put(d, m)
      <3>1. process[d] \in Process
        BY <1>2 DEF TypeOK
      <3>2. r \in Process
        BY <2>1, <3>1 DEF Process
      <3>3. new = [process EXCEPT ![d] = r]
        BY <2>2
      <3>4. /\ r.role = process[d].role /\ r.conn = process[d].conn
            /\ r.pc = process[d].pc /\ r.supervisor_pid = process[d].supervisor_pid
            /\ r.result = process[d].result /\ r.queue = messages
        BY <3>1 DEF Process
      <3> HIDE DEF r, new
      <3>5. new \in [Slots -> Process]
        BY <3>2, <3>3 DEF TypeOK
      <3>6. \A u \in Slots : new[u] = IF u = d THEN r ELSE process[u]
        BY <3>3 DEF TypeOK
      <3> QED
        BY <3>4, <3>5, <3>6 DEF new
    <2> QED
      BY <1>2, <2>3 DEF PutIn, Given, messages
  <1> QED
    BY <1>1, <1>2

\* ... by the process in slot s, which goes on.
PutAndOn(s, d, m, point) ==
  \A u \in Slots :
    /\ process'[u].role = process[u].role /\ process'[u].conn = process[u].conn
    /\ process'[u].pc = IF u = s THEN point ELSE process[u].pc
    /\ process'[u].supervisor_pid = process[u].supervisor_pid
    /\ process'[u].result = process[u].result
    /\ process'[u].queue = Given(d, m, u)

LEMMA PutGoesOn ==
  ASSUME TypeOK, NEW d, NEW m \in Message, NEW s \in Slots, NEW point \in Points,
         process' = [Put(d, m) EXCEPT ![s].pc = point]
  PROVE  /\ process' \in [Slots -> Process]
         /\ PutAndOn(s, d, m, point)
  <1> DEFINE new == Put(d, m)
  <1>1. new \in [Slots -> Process] /\ PutIn(d, m, new)
    BY PutMoves
  <1> HIDE DEF new
  <1>2. process' = [new EXCEPT ![s].pc = point]
    BY DEF new
  <1>3. process' \in [Slots -> Process]
    BY <1>1, <1>2 DEF Process
  <1>4. \A u \in Slots :
          /\ process'[u].role = new[u].role /\ process'[u].conn = new[u].conn
          /\ process'[u].pc = IF u = s THEN point ELSE new[u].pc
          /\ process'[u].supervisor_pid = new[u].supervisor_pid
          /\ process'[u].result = new[u].result
          /\ process'[u].queue = new[u].queue
    BY <1>1, <1>2 DEF Process
  <1> QED
    BY <1>1, <1>3, <1>4 DEF PutIn, PutAndOn

\* The messages there are.
LEMMA MessageTypes ==
  /\ Stop \in Message
  /\ \A result \in Results : ErrorMessage(result) \in Message
  /\ \A r \in Nodes : MessageTo(r) \in Message
  BY DEF Stop, ErrorMessage, MessageTo, Message, Results
-----------------------------------------------------------------------------
(* Types, roles and starts.                                                *)

\* A slot that is not free has a process in it.
LEMMA NotFree ==
  ASSUME TypeOK, RoleInv, NEW s \in Slots
  PROVE  /\ process[s] # Free <=> process[s].role # "none"
         /\ process[s].role \notin {"none", "user"} => process[s].conn \in Connections
         /\ process[s].pc # "none" => process[s].role # "none"
  <1>1. Free.role = "none"
    BY DEF Free
  <1>2. RoleOK(s) /\ process[s].conn \in Connections \union {NULL}
    BY ProcessFields DEF RoleInv
  <1> QED
    BY <1>1, <1>2 DEF RoleOK, Place

LEMMA Shift ==
  ASSUME TypeOK, process' \in [Slots -> Process], message_queue_pos' \in 0 .. Size,
         UNCHANGED connVars, races' \subseteq Races
  PROVE  TypeOK'
  BY DEF TypeOK, connVars, startVars

LEMMA LinkType ==
  ASSUME TypeOK, RoleInv, NEW s \in Slots, Link(s) \/ Relink(s)
  PROVE  \E d \in Slots \union {ACTOR_INVALID_ID} :
           /\ LinkTo(s, d)
           /\ \/ d = supervisor[process[s].conn]
              \/ process[s].pc = "relink" /\ Of("supervisor", process[s].conn) = {}
  <1>1. CASE Relink(s)
    BY <1>1 DEF Relink
  <1>2. CASE Link(s)
    <2>1. process[s].conn \in Connections
      BY <1>2, NotFree DEF Link, RoleInv, RoleOK, Place
    <2>2. supervisor[process[s].conn] \in Slots \union {ACTOR_INVALID_ID}
      BY <2>1 DEF TypeOK
    <2> QED
      BY <1>2, <2>2 DEF Link
  <1> QED
    BY <1>1, <1>2

\* What the supervisor does when the sender is to be started again.
LEMMA RestartMoves ==
  ASSUME TypeOK, RoleInv, NEW s \in Slots, NEW results, RestartOn(s, results)
  PROVE  \E f \in Slots :
           /\ process[f] = Free /\ f # s
           /\ process' \in [Slots -> Process]
           /\ \A u \in Slots : u # s /\ u # f => process'[u] = process[u]
           /\ process'[f] = New("sender", process[s].conn, "relink")
           /\ process'[s].role = process[s].role /\ process'[s].conn = process[s].conn
           /\ process'[s].pc = "set" /\ process'[s].queue = Tail(process[s].queue)
           /\ process'[s].supervisor_pid = process[s].supervisor_pid
           /\ process'[s].result = process[s].result
           /\ restarted' = [restarted EXCEPT ![process[s].conn] = f]
           /\ message_queue_pos' = f + 1 /\ f + 1 \in 0 .. Size
  <1> DEFINE c == process[s].conn
             t == Tail(process[s].queue)
             new == [process EXCEPT ![s].queue = t, ![s].pc = "set"]
             n == New("sender", c, "relink")
  <1> PICK f \in Slots : f = FreeSlot /\ process[f] = Free /\ f + 1 \in 0 .. Size
    BY FreeSlotIsFree DEF RestartOn
  <1>1. /\ process[s].role = "supervisor" /\ process[s].queue # <<>>
        /\ c \in Connections /\ f # s
    <2>1. process[s].role = "supervisor" /\ process[s].queue # <<>>
      BY DEF RestartOn, Supervise
    <2>2. Free.role = "none"
      BY DEF Free
    <2> QED
      BY <2>1, <2>2, NotFree
  <1>2. t \in Seq(Message) /\ "set" \in Points
    BY <1>1, QueueTypes DEF Points
  <1>3. n \in Process
    BY <1>1, EmptySeq DEF New, Process, Results, Roles, Points
  <1>4. [Free EXCEPT !.role = "sender", !.conn = c, !.pc = "relink"] = n
    BY NewFromFree
  <1>5. process' = [new EXCEPT ![f] = n]
    BY <1>4 DEF RestartOn
  <1> HIDE DEF t
  <1>6. new \in [Slots -> Process]
    <2> DEFINE r == [process[s] EXCEPT !.queue = t, !.pc = "set"]
    <2>1. process[s] \in Process
      BY DEF TypeOK
    <2>2. r \in Process
      BY <1>2, <2>1 DEF Process
    <2>3. new = [process EXCEPT ![s] = r]
      OBVIOUS
    <2> HIDE DEF r, new
    <2> QED
      BY <2>2, <2>3 DEF TypeOK
  <1>7. /\ \A u \in Slots : u # s => new[u] = process[u]
        /\ new[s].role = process[s].role /\ new[s].conn = process[s].conn
        /\ new[s].pc = "set" /\ new[s].queue = t
        /\ new[s].supervisor_pid = process[s].supervisor_pid
        /\ new[s].result = process[s].result
    BY DEF TypeOK, Process
  <1> HIDE DEF new, n
  <1>8. /\ process' \in [Slots -> Process]
        /\ \A u \in Slots : u # f => process'[u] = new[u]
        /\ process'[f] = n
    BY <1>3, <1>5, <1>6
  <1> QED
    BY <1>1, <1>7, <1>8 DEF RestartOn, t, n

\* What nobody waits for: the steps of a user, and an empty message.
Unforced(s) == UserReceives(s) \/ UserReturns(s) \/ ReceiveEmpty(s)

\* The steps that move one process, and what they do to it.

LEMMA ProcessMoves ==
  ASSUME TypeOK, RoleInv, NEW s \in Slots,
         \/ Link(s) \/ Relink(s) \/ ReceiveClosed(s) \/ SenderTimeout(s)
         \/ SenderStop(s) \/ Transmit(s) \/ TransmitFails(s) \/ Ignore(s)
         \/ RestartFails(s) \/ SetRestarted(s) \/ Break(s) \/ Shutdown(s)
         \/ Invalidate(s) \/ Unforced(s)
  PROVE  /\ process' \in [Slots -> Process] /\ message_queue_pos' = message_queue_pos
         /\ process[s].role # "none"
         /\ UNCHANGED <<start, node, supervisor, sender>>
         /\ \E link \in Slots \union {ACTOR_INVALID_ID} :
              Moved(s, process'[s].pc, link, process'[s].result, process'[s].queue)
  <1> USE DEF connVars, startVars
  <1>0. "NETWORK" \in Results /\ "TIMEOUT" \in Results /\ "SUCCESS" \in Results
        /\ {"set", "shutdown", "loop", "stop"} \subseteq Points
        /\ process[s].supervisor_pid \in Slots \union {ACTOR_INVALID_ID}
    BY ProcessFields DEF Results, Points
  <1>1. ASSUME NEW point, NEW link \in Slots \union {ACTOR_INVALID_ID}, NEW result,
               NEW messages, Moved(s, point, link, result, messages)
        PROVE  \E l \in Slots \union {ACTOR_INVALID_ID} :
                 Moved(s, process'[s].pc, l, process'[s].result, process'[s].queue)
    BY <1>1 DEF Moved
  <1>2. CASE Link(s) \/ Relink(s)
    <2> PICK d \in Slots \union {ACTOR_INVALID_ID} : LinkTo(s, d)
      BY <1>2, LinkType
    <2>1. /\ process' \in [Slots -> Process]
          /\ Moved(s, "loop", IF d = s THEN ACTOR_INVALID_ID ELSE d,
                   process[s].result, process[s].queue)
      BY LinkMoves
    <2>2. (IF d = s THEN ACTOR_INVALID_ID ELSE d) \in Slots \union {ACTOR_INVALID_ID}
      OBVIOUS
    <2>3. process[s].role # "none"
      BY <1>2, NotFree DEF Link, Relink
    <2> QED
      BY <1>1, <2>1, <2>2, <2>3 DEF LinkTo
  <1>3. CASE \/ ReceiveClosed(s) \/ ReceiveEmpty(s) \/ SenderTimeout(s)
             \/ UserReturns(s) \/ Invalidate(s)
    <2>1. \E result \in Results : Returns(s, result)
      BY <1>0, <1>3 DEF ReceiveClosed, ReceiveEmpty, Receiving, SenderTimeout,
                        UserReturns, Invalidate
    <2>2. process[s].role # "none"
      BY <1>3, NotFree DEF ReceiveClosed, ReceiveEmpty, Receiving,
                           SenderTimeout, Sending, UserReturns, Users,
                           Invalidate
    <2>3. /\ UNCHANGED <<message_queue_pos, start, node, supervisor, sender>>
      BY <1>3 DEF ReceiveClosed, ReceiveEmpty, Receiving, SenderTimeout,
                  UserReturns, Invalidate
    <2> QED
      BY <1>0, <1>1, <2>1, <2>2, <2>3, ReturnMoves
  <1>4. CASE SetRestarted(s) \/ Shutdown(s)
    <2>1. \E point \in Points : process' = [process EXCEPT ![s].pc = point]
      BY <1>0, <1>4 DEF SetRestarted, Shutdown
    <2>2. process[s].role # "none"
      BY <1>4, NotFree DEF SetRestarted, Shutdown
    <2>3. /\ UNCHANGED <<message_queue_pos, start, node, supervisor, sender>>
      BY <1>4 DEF SetRestarted, Shutdown
    <2> QED
      BY <1>0, <1>1, <2>1, <2>2, <2>3, GoesOn
  <1>5. CASE Transmit(s) \/ Ignore(s) \/ UserReceives(s)
    <2>1. process' = [process EXCEPT ![s].queue = Tail(@)] /\ process[s].queue # <<>>
      BY <1>5 DEF Transmit, Takes, Ignore, Supervise, UserReceives
    <2>2. process[s].role # "none"
      BY <1>5, NotFree DEF Transmit, Takes, Sending, Ignore, Supervise, UserReceives,
                           Users
    <2>3. /\ UNCHANGED <<message_queue_pos, start, node, supervisor, sender>>
      BY <1>5 DEF Transmit, Ignore, UserReceives
    <2> QED
      BY <1>0, <1>1, <2>1, <2>2, <2>3, TakeMoves
  <1>6. CASE RestartFails(s) \/ Break(s)
    <2>1. /\ \E point \in Points :
               process' = [process EXCEPT ![s].queue = Tail(@), ![s].pc = point]
          /\ process[s].queue # <<>>
      BY <1>0, <1>6 DEF RestartFails, Break, BreakOn, Supervise
    <2>2. process[s].role # "none"
      BY <1>6, NotFree DEF RestartFails, Break, BreakOn, Supervise
    <2>3. /\ UNCHANGED <<message_queue_pos, start, node, supervisor, sender>>
      BY <1>6 DEF RestartFails, Break, BreakOn
    <2> QED
      BY <1>0, <1>1, <2>1, <2>2, <2>3, TakeGoesOn
  <1>7. CASE SenderStop(s) \/ TransmitFails(s)
    <2>1. /\ \E result \in Results : TakesAndReturns(s, result)
          /\ process[s].queue # <<>>
      BY <1>0, <1>7 DEF SenderStop, TransmitFails, Takes
    <2>2. process[s].role # "none"
      BY <1>7, NotFree DEF SenderStop, TransmitFails, Takes, Sending
    <2>3. /\ UNCHANGED <<message_queue_pos, start, node, supervisor, sender>>
      BY <1>7 DEF SenderStop, TransmitFails
    <2> QED
      BY <1>0, <1>1, <2>1, <2>2, <2>3, TakeReturnMoves
  <1> QED
    BY <1>2, <1>3, <1>4, <1>5, <1>6, <1>7 DEF Unforced

LEMMA NotesAreRaces ==
  ASSUME TypeOK
  PROVE  /\ \A d, C : NoteAstray(d, C) => races' \subseteq Races
         /\ \A s : NoteLate(s) => races' \subseteq Races
  BY DEF TypeOK, NoteAstray, NoteLate, Races

LEMMA TypeStep ==
  ASSUME TypeOK, RoleInv, [Next]_vars
  PROVE  TypeOK'
  <1>1. ASSUME NEW c \in Connections, StartStep(c)
        PROVE  TypeOK'
    <2>1. ASSUME NEW role \in Roles, NEW point \in Points, Spawn(role, c, point)
          PROVE  /\ process' \in [Slots -> Process] /\ message_queue_pos' \in 0 .. Size
                 /\ FreeSlot \in Slots
      BY <2>1, SpawnStarts
    <2>2. {"supervisor", "receiver", "sender"} \subseteq Roles
          /\ {"link", "loop"} \subseteq Points
      BY DEF Roles, Points
    <2>3. CASE StartSupervisor(c)
      BY <2>1, <2>2, <2>3 DEF StartSupervisor, StartGoto, TypeOK
    <2>4. CASE StartReceiver(c)
      BY <2>1, <2>2, <2>4 DEF StartReceiver, StartGoto, TypeOK
    <2>5. CASE StartSender(c)
      BY <2>1, <2>2, <2>5 DEF StartSender, StartGoto, TypeOK
    <2>6. CASE StartFails(c) \/ SetEntry(c)
      BY <2>6 DEF StartFails, SetEntry, StartGoto, TypeOK
    <2> QED
      BY <1>1, <2>3, <2>4, <2>5, <2>6 DEF StartStep
  <1>2. ASSUME NEW c \in Connections, PeerCloses(c)
        PROVE  TypeOK'
    BY <1>2 DEF PeerCloses, startVars, TypeOK
  <1>3. ASSUME NEW c \in Connections, NEW r \in Nodes, Accept(c, r)
        PROVE  TypeOK'
    BY <1>3 DEF Accept, TypeOK, Races
  <1>4. ASSUME NEW s \in Slots,
               \/ Link(s) \/ Relink(s) \/ ReceiveClosed(s) \/ SenderTimeout(s)
               \/ SenderStop(s) \/ Transmit(s) \/ TransmitFails(s) \/ Ignore(s)
               \/ RestartFails(s) \/ SetRestarted(s) \/ Break(s) \/ Shutdown(s)
               \/ Invalidate(s) \/ Unforced(s)
        PROVE  TypeOK'
    <2>1. process' \in [Slots -> Process] /\ message_queue_pos' \in 0 .. Size
      BY <1>4, ProcessMoves DEF TypeOK
    <2>2. CASE SetRestarted(s) \/ Shutdown(s) \/ Invalidate(s)
      <3>1. CASE SetRestarted(s)
        <4>1. /\ remote_nodes' \in [Nodes -> Slots \union {ACTOR_INVALID_ID}]
              /\ restarted' \in [Connections -> Slots \union {ACTOR_INVALID_ID}]
          <5>1. process[s].conn \in Connections
            BY <3>1, NotFree DEF SetRestarted, RoleInv, RoleOK, Place
          <5> QED
            BY <3>1, <5>1 DEF SetRestarted, TypeOK
        <4> QED
          BY <2>1, <3>1, <4>1 DEF SetRestarted, startVars, TypeOK
      <3>2. CASE Shutdown(s)
        <4>1. sock' \in [Connections -> {"none", "open", "peer_closed", "shutdown",
                                         "closed"}]
          BY <3>2 DEF Shutdown, TypeOK
        <4> QED
          BY <2>1, <3>2, <4>1 DEF Shutdown, startVars, TypeOK
      <3>3. CASE Invalidate(s)
        <4>1. remote_nodes' \in [Nodes -> Slots \union {ACTOR_INVALID_ID}]
          BY <3>3 DEF Invalidate, TypeOK
        <4> QED
          BY <2>1, <3>3, <4>1 DEF Invalidate, startVars, TypeOK
      <3> QED
        BY <2>2, <3>1, <3>2, <3>3
    <2>3. CASE RestartFails(s) \/ Break(s)
      <3>1. races' \subseteq Races
        <4>1. CASE RestartFails(s)
          BY <4>1 DEF RestartFails, TypeOK, Races
        <4>2. CASE Break(s)
          BY <4>2, NotesAreRaces DEF Break, BreakOn
        <4> QED
          BY <2>3, <4>1, <4>2
      <3> QED
        BY <2>1, <2>3, <3>1, Shift DEF RestartFails, Break, BreakOn
    <2>4. CASE \/ Link(s) \/ Relink(s) \/ ReceiveClosed(s) \/ SenderTimeout(s)
               \/ SenderStop(s) \/ Transmit(s) \/ TransmitFails(s) \/ Ignore(s)
               \/ Unforced(s)
      <3>1. /\ UNCHANGED <<remote_nodes, startVars, sock, restarted, races>>
            /\ doomed' \in {doomed, doomed \union {process[s].conn}}
        BY <2>4 DEF Link, Relink, LinkTo, ReceiveClosed, ReceiveEmpty,
                    Receiving, SenderTimeout, SenderStop, Transmit,
                    TransmitFails, Ignore, Unforced, UserReceives, UserReturns,
                    connVars
      <3>2. UNCHANGED doomed \/ process[s].conn \in Connections
        <4>1. CASE ReceiveEmpty(s) \/ TransmitFails(s)
          BY <4>1, NotFree DEF ReceiveEmpty, Receiving, TransmitFails, Takes, Sending
        <4>2. CASE ~ (ReceiveEmpty(s) \/ TransmitFails(s))
          BY <2>4, <4>2
             DEF Link, Relink, LinkTo, ReceiveClosed, SenderTimeout,
                 SenderStop, Transmit, Ignore, Unforced, UserReceives,
                 UserReturns, connVars
        <4> QED
          BY <4>1, <4>2
      <3>3. doomed' \subseteq Connections
        BY <3>1, <3>2 DEF TypeOK
      <3> QED
        BY <2>1, <3>1, <3>3 DEF startVars, TypeOK
    <2> QED
      BY <1>4, <2>2, <2>3, <2>4
  <1>5. ASSUME NEW s \in Slots, Restart(s)
        PROVE  TypeOK'
    <2>1. /\ process[s].role = "supervisor" /\ races' \subseteq Races
          /\ UNCHANGED <<remote_nodes, startVars, sock, doomed>>
      BY <1>5, NotesAreRaces DEF Restart, RestartOn, Supervise
    <2>2. process[s].conn \in Connections
      BY <2>1, NotFree
    <2> PICK f \in Slots :
          /\ process' \in [Slots -> Process]
          /\ restarted' = [restarted EXCEPT ![process[s].conn] = f]
          /\ message_queue_pos' = f + 1 /\ f + 1 \in 0 .. Size
      BY <1>5, RestartMoves DEF Restart
    <2> QED
      BY <2>1, <2>2 DEF TypeOK, startVars
  <1>6. ASSUME NEW s \in Slots, StopSender(s) \/ End(s)
        PROVE  TypeOK'
    <2>1. process' \in [Slots -> Process]
      <3>1. \E m \in Message, point \in Points : \E d :
              process' = [Put(d, m) EXCEPT ![s].pc = point]
        <4>1. {"invalidate", "release"} \subseteq Points
          BY DEF Points
        <4>2. CASE StopSender(s)
          BY <4>1, <4>2, MessageTypes DEF StopSender
        <4>3. CASE End(s)
          <5>1. ErrorMessage(process[s].result) \in Message
            BY MessageTypes, ProcessFields
          <5> QED
            BY <4>1, <4>3, <5>1 DEF End
        <4> QED
          BY <1>6, <4>2, <4>3
      <3> QED
        BY <3>1, PutGoesOn
    <2>2. races' \subseteq Races
      BY <1>6, NotesAreRaces DEF StopSender, End
    <2> QED
      BY <1>6, <2>1, <2>2, Shift DEF StopSender, End, TypeOK
  <1>7. ASSUME NEW s \in Slots, Release(s)
        PROVE  TypeOK'
    <2>1. Free \in Process
      BY EmptySeq DEF Free, Process, Roles, Points, Results
    <2>2. process' \in [Slots -> Process]
      BY <1>7, <2>1 DEF Release, TypeOK
    <2> QED
      BY <1>7, <2>2, Shift DEF Release, TypeOK
  <1>8. ASSUME NEW r \in Nodes, Send(r) \/ Disconnect(r)
        PROVE  TypeOK'
    <2>1. process' \in [Slots -> Process]
      BY <1>8, PutMoves, MessageTypes DEF Send, Disconnect
    <2>2. races' \subseteq Races
      <3>1. CASE Send(r)
        BY <3>1, NotesAreRaces DEF Send
      <3>2. CASE Disconnect(r)
        BY <3>2 DEF Disconnect, TypeOK, Races
      <3> QED
        BY <1>8, <3>1, <3>2
    <2>3. doomed' \subseteq Connections
      BY <1>8 DEF Send, Disconnect, connVars, TypeOK
    <2> QED
      BY <1>8, <2>1, <2>2, <2>3 DEF Send, Disconnect, connVars, startVars, TypeOK
  <1>9. CASE SpawnUser
    <2>1. "user" \in Roles /\ "loop" \in Points
      BY DEF Roles, Points
    <2>2. process' \in [Slots -> Process] /\ message_queue_pos' \in 0 .. Size
      BY <1>9, <2>1, SpawnStarts DEF SpawnUser
    <2> QED
      BY <1>9, <2>2, Shift DEF SpawnUser, TypeOK
  <1>10. CASE UNCHANGED vars
    BY <1>10 DEF vars, connVars, startVars, TypeOK
  <1> QED
    BY <1>1, <1>2, <1>3, <1>4, <1>5, <1>6, <1>7, <1>8, <1>9, <1>10
       DEF Next, ProcessStep, SenderStep, SupervisorStep, Unforced

\* A connection that has been started does not go back, and keeps its node and
\* the pid of its supervisor.
Begun(c) == start[c] \notin {"idle", "supervisor"}

LEMMA StartsGoOn ==
  ASSUME TypeOK, RoleInv, [Next]_vars
  PROVE  \A c \in Connections :
           /\ start[c] # "idle" => start'[c] # "idle" /\ node'[c] = node[c]
           /\ Begun(c) => Begun(c)' /\ supervisor'[c] = supervisor[c]
  <1> DEFINE Goal == \A c \in Connections :
                       /\ start[c] # "idle" => start'[c] # "idle" /\ node'[c] = node[c]
                       /\ Begun(c) => Begun(c)' /\ supervisor'[c] = supervisor[c]
  <1> SUFFICES Goal
    OBVIOUS
  <1>1. ASSUME UNCHANGED <<start, node, supervisor>>
        PROVE  Goal
    BY <1>1 DEF Begun
  <1>2. ASSUME NEW c \in Connections, StartStep(c)
        PROVE  Goal
    BY <1>2 DEF StartStep, StartSupervisor, StartReceiver, StartSender, StartFails,
                SetEntry, StartGoto, Begun, TypeOK
  <1>3. ASSUME NEW c \in Connections, NEW r \in Nodes, Accept(c, r)
        PROVE  Goal
    BY <1>3 DEF Accept, Begun, TypeOK
  <1> HIDE DEF Goal
  <1>4. ASSUME NEW s \in Slots, ProcessStep(s) \/ Unforced(s)
        PROVE  Goal
    <2>1. CASE End(s) \/ Release(s) \/ StopSender(s)
      BY <1>1, <2>1 DEF End, Release, StopSender, connVars, startVars
    <2>2. CASE Restart(s)
      BY <1>1, <2>2 DEF Restart, RestartOn, startVars
    <2> QED
      BY <1>1, <1>4, <2>1, <2>2, ProcessMoves
         DEF ProcessStep, SenderStep, SupervisorStep
  <1>5. CASE \/ \E c \in Connections : PeerCloses(c)
             \/ \E r \in Nodes : Send(r) \/ Disconnect(r)
             \/ SpawnUser
             \/ UNCHANGED vars
    BY <1>1, <1>5 DEF PeerCloses, Send, Disconnect, SpawnUser, connVars, startVars, vars
  <1> QED
    BY <1>2, <1>3, <1>4, <1>5 DEF Next, Unforced

\* A process that keeps its role and its connection.
LEMMA RoleKept ==
  ASSUME TypeOK, RoleInv, [Next]_vars, NEW s \in Slots,
         process'[s].role = process[s].role, process'[s].conn = process[s].conn,
         process[s].role = "none" => process'[s] = process[s],
         Place(process[s].role, process'[s].pc),
         process[s].role \in {"user", "supervisor"} =>
           process'[s].supervisor_pid = process[s].supervisor_pid,
         process'[s].pc = "end" =>
           /\ process'[s].result # "none"
           /\ process[s].role = "receiver" => process'[s].result = "NETWORK"
  PROVE  RoleOK(s)'
  <1>1. RoleOK(s) /\ process[s].conn \in Connections \union {NULL}
    BY ProcessFields DEF RoleInv
  <1>2. process[s].conn # NULL => Begun(process[s].conn)'
    BY <1>1, StartsGoOn DEF RoleOK, Begun
  <1> QED
    BY <1>1, <1>2 DEF RoleOK, Begun

LEMMA RoleSame ==
  ASSUME TypeOK, RoleInv, [Next]_vars, NEW s \in Slots, process'[s] = process[s]
  PROVE  RoleOK(s)'
  BY RoleKept DEF RoleInv, RoleOK

LEMMA RoleStarted ==
  ASSUME NEW s \in Slots, NEW role \in {"user", "supervisor", "receiver", "sender"},
         NEW c, NEW point, process'[s] = New(role, c, point), Place(role, point),
         c = NULL <=> role = "user", c # NULL => Begun(c)', point # "end"
  PROVE  RoleOK(s)'
  <1>1. /\ process'[s].role = role /\ process'[s].conn = c /\ process'[s].pc = point
        /\ process'[s].supervisor_pid = ACTOR_INVALID_ID
    BY DEF New
  <1> QED
    BY <1>1 DEF RoleOK, Begun

LEMMA RecordsEqual ==
  ASSUME NEW p \in Process, NEW q \in Process,
         p.role = q.role, p.conn = q.conn, p.pc = q.pc,
         p.supervisor_pid = q.supervisor_pid, p.result = q.result, p.queue = q.queue
  PROVE  p = q
  BY DEF Process

LEMMA RolePut ==
  ASSUME TypeOK, TypeOK', RoleInv, [Next]_vars, NEW s \in Slots, NEW d, NEW m,
         process'[s].role = process[s].role, process'[s].conn = process[s].conn,
         process'[s].pc = process[s].pc,
         process'[s].supervisor_pid = process[s].supervisor_pid,
         process'[s].result = process[s].result, process'[s].queue = Given(d, m, s)
  PROVE  RoleOK(s)'
  <1>1. process[s] \in Process /\ process'[s] \in Process
    BY DEF TypeOK
  <1>2. process[s] = Free => process'[s] = process[s]
    <2>1. CASE process[s] = Free
      <3>1. process'[s].queue = process[s].queue
        BY <2>1 DEF Given
      <3> QED
        BY <1>1, <3>1, RecordsEqual
    <2> QED
      BY <2>1
  <1>3. RoleOK(s)
    BY DEF RoleInv
  <1> QED
    BY <1>2, <1>3, RoleKept DEF RoleOK

LEMMA RoleStep ==
  ASSUME TypeOK, RoleInv, [Next]_vars
  PROVE  RoleInv'
  <1>1. TypeOK'
    BY TypeStep
  <1>2. ASSUME NEW s \in Slots, NEW f \in Slots, process[f] = Free,
               NEW role \in {"user", "supervisor", "receiver", "sender"}, NEW c,
               NEW point, process' = [process EXCEPT ![f] = New(role, c, point)],
               Place(role, point), c = NULL <=> role = "user", c # NULL => Begun(c)',
               point # "end"
        PROVE  RoleOK(s)'
    <2>1. process'[s] = IF s = f THEN New(role, c, point) ELSE process[s]
      BY <1>2 DEF TypeOK
    <2> QED
      BY <1>2, <2>1, RoleStarted, RoleSame
  <1>3. ASSUME NEW c \in Connections, StartStep(c), NEW s \in Slots
        PROVE  RoleOK(s)'
    <2>1. /\ {"supervisor", "receiver", "sender"} \subseteq Roles
          /\ {"link", "loop"} \subseteq Points
          /\ c # NULL
      BY ConnectionAssumption DEF Roles, Points
    <2>2. CASE StartSupervisor(c)
      <3>1. Begun(c)' /\ Spawn("supervisor", c, "loop")
        BY <2>2 DEF StartSupervisor, StartGoto, Begun, TypeOK
      <3>2. /\ FreeSlot \in Slots /\ process[FreeSlot] = Free
            /\ process' = [process EXCEPT ![FreeSlot] = New("supervisor", c, "loop")]
        BY <2>1, <3>1, SpawnStarts
      <3> QED
        BY <1>2, <2>1, <3>1, <3>2 DEF Place
    <2>3. CASE StartReceiver(c)
      <3>1. Begun(c)' /\ Spawn("receiver", c, "link")
        BY <2>3 DEF StartReceiver, StartGoto, Begun, TypeOK
      <3>2. /\ FreeSlot \in Slots /\ process[FreeSlot] = Free
            /\ process' = [process EXCEPT ![FreeSlot] = New("receiver", c, "link")]
        BY <2>1, <3>1, SpawnStarts
      <3> QED
        BY <1>2, <2>1, <3>1, <3>2 DEF Place
    <2>4. CASE StartSender(c)
      <3>1. Begun(c)' /\ Spawn("sender", c, "link")
        BY <2>4 DEF StartSender, StartGoto, Begun, TypeOK
      <3>2. /\ FreeSlot \in Slots /\ process[FreeSlot] = Free
            /\ process' = [process EXCEPT ![FreeSlot] = New("sender", c, "link")]
        BY <2>1, <3>1, SpawnStarts
      <3> QED
        BY <1>2, <2>1, <3>1, <3>2 DEF Place
    <2>5. CASE StartFails(c) \/ SetEntry(c)
      BY <2>5, RoleSame DEF StartFails, SetEntry
    <2> QED
      BY <1>3, <2>2, <2>3, <2>4, <2>5 DEF StartStep
  <1>4. ASSUME NEW u \in Slots,
               \/ Link(u) \/ Relink(u) \/ ReceiveClosed(u) \/ SenderTimeout(u)
               \/ SenderStop(u) \/ Transmit(u) \/ TransmitFails(u) \/ Ignore(u)
               \/ RestartFails(u) \/ SetRestarted(u) \/ Break(u) \/ Shutdown(u)
               \/ Invalidate(u) \/ Unforced(u),
               NEW s \in Slots
        PROVE  RoleOK(s)'
    <2>1. /\ process[u].role # "none"
          /\ \A q \in Slots : q # u => process'[q] = process[q]
          /\ process'[u].role = process[u].role /\ process'[u].conn = process[u].conn
      BY <1>4, ProcessMoves DEF Moved
    <2>2. CASE s # u
      BY <2>1, <2>2, RoleSame
    <2>3. RoleOK(u) /\ process[u] \in Process
      BY ProcessFields DEF RoleInv
    <2>4. CASE Link(u) \/ Relink(u)
      <3> PICK d \in Slots \union {ACTOR_INVALID_ID} : LinkTo(u, d)
        BY <2>4, LinkType
      <3>1. process'[u].pc = "loop"
        BY LinkMoves DEF Moved
      <3>2. process[u].role \in {"receiver", "sender"}
        BY <2>3, <2>4 DEF Link, Relink, RoleOK, Place
      <3>3. RoleOK(u)'
        BY <2>1, <3>1, <3>2, RoleKept DEF Place
      <3> QED
        BY <2>2, <3>3
    <2>5. CASE \/ ReceiveClosed(u) \/ ReceiveEmpty(u) \/ SenderTimeout(u)
               \/ Invalidate(u) \/ UserReturns(u)
      <3> PICK result \in {"NETWORK", "TIMEOUT", "SUCCESS"} :
             /\ Returns(u, result)
             /\ process[u].role = "receiver" => result = "NETWORK"
        BY <2>3, <2>5 DEF ReceiveClosed, ReceiveEmpty, Receiving,
                          SenderTimeout, Sending, Invalidate, UserReturns,
                          Users, RoleOK, Place
      <3>1. process'[u].pc = "end" /\ process'[u].result = result
            /\ process'[u].supervisor_pid = process[u].supervisor_pid
        BY ReturnMoves DEF Moved, Results
      <3>2. RoleOK(u)'
        BY <2>1, <3>1, RoleKept DEF Place
      <3> QED
        BY <2>2, <3>2
    <2>6. CASE SenderStop(u) \/ TransmitFails(u)
      <3> PICK result \in {"NETWORK", "SUCCESS"} :
             /\ TakesAndReturns(u, result)
             /\ process[u].role = "sender" /\ process[u].queue # <<>>
        BY <2>6 DEF SenderStop, TransmitFails, Takes, Sending
      <3>1. process'[u].pc = "end" /\ process'[u].result = result
            /\ process'[u].supervisor_pid = process[u].supervisor_pid
        BY TakeReturnMoves DEF Moved, Results
      <3>2. RoleOK(u)'
        BY <2>1, <3>1, RoleKept DEF Place
      <3> QED
        BY <2>2, <3>2
    <2>7. CASE SetRestarted(u) \/ Shutdown(u) \/ RestartFails(u) \/ Break(u)
      <3>1. /\ process[u].role = "supervisor"
            /\ process'[u].pc \in {"loop", "stop", "set", "shutdown"}
            /\ process'[u].supervisor_pid = process[u].supervisor_pid
        BY <2>3, <2>7
           DEF SetRestarted, Shutdown, RestartFails, Break, BreakOn, Supervise, RoleOK,
               Place, TypeOK, Process
      <3>2. RoleOK(u)'
        BY <2>1, <3>1, RoleKept DEF Place
      <3> QED
        BY <2>2, <3>2
    <2>8. CASE Transmit(u) \/ Ignore(u) \/ UserReceives(u)
      <3>1. /\ process' = [process EXCEPT ![u].queue = Tail(@)]
            /\ process[u].queue # <<>> /\ process[u].pc = "loop"
        BY <2>8 DEF Transmit, Takes, Sending, Ignore, Supervise, UserReceives
      <3>2. /\ process'[u].pc = "loop"
            /\ process'[u].supervisor_pid = process[u].supervisor_pid
        BY <3>1, TakeMoves DEF Moved
      <3>3. RoleOK(u)'
        BY <2>1, <2>3, <3>1, <3>2, RoleKept DEF RoleOK
      <3> QED
        BY <2>2, <3>3
    <2> QED
      BY <1>4, <2>4, <2>5, <2>6, <2>7, <2>8 DEF Unforced
  <1>5. ASSUME NEW u \in Slots, Restart(u), NEW s \in Slots
        PROVE  RoleOK(s)'
    <2> PICK f \in Slots :
           /\ process[f] = Free /\ f # u
           /\ \A q \in Slots : q # u /\ q # f => process'[q] = process[q]
           /\ process'[f] = New("sender", process[u].conn, "relink")
           /\ process'[u].role = process[u].role /\ process'[u].conn = process[u].conn
           /\ process'[u].pc = "set"
           /\ process'[u].supervisor_pid = process[u].supervisor_pid
      BY <1>5, RestartMoves DEF Restart
    <2>1. process[u].role = "supervisor" /\ process[u].conn \in Connections
      BY <1>5, NotFree DEF Restart, RestartOn, Supervise
    <2>2. Begun(process[u].conn) /\ process[u].conn # NULL
      BY <2>1, ConnectionAssumption DEF RoleInv, RoleOK, Begun
    <2>3. Begun(process[u].conn)'
      <3> PICK c \in Connections : c = process[u].conn
        BY <2>1
      <3>1. Begun(c)'
        BY <2>2, StartsGoOn
      <3>2. UNCHANGED start
        BY <1>5 DEF Restart, RestartOn, startVars
      <3> QED
        BY <2>2, <3>2 DEF Begun
    <2>4. RoleOK(f)'
      BY <2>2, <2>3, RoleStarted DEF Place
    <2>5. RoleOK(u)'
      BY <2>1, RoleKept DEF Place
    <2> QED
      BY <2>4, <2>5, RoleSame
  <1>6. ASSUME NEW u \in Slots, Release(u), NEW s \in Slots
        PROVE  RoleOK(s)'
    <2>1. process'[s] = IF s = u THEN Free ELSE process[s]
      BY <1>6 DEF Release, TypeOK
    <2>2. CASE s = u
      BY <2>1, <2>2 DEF RoleOK, Free, Place
    <2> QED
      BY <2>1, <2>2, RoleSame
  <1>7. ASSUME NEW u \in Slots, StopSender(u) \/ End(u), NEW s \in Slots
        PROVE  RoleOK(s)'
    <2> PICK d \in {process[u].supervisor_pid, remote_nodes[node[process[u].conn]]},
             m \in Message, point \in {"invalidate", "release"} :
           /\ process' = [Put(d, m) EXCEPT ![u].pc = point]
           /\ process[u].pc \in {"stop", "end"}
           /\ process[u].pc = "stop" => point = "invalidate"
           /\ process[u].pc = "end" => point = "release"
      BY <1>7, MessageTypes, ProcessFields DEF StopSender, End
    <2>1. /\ RoleOK(u) /\ point \in Points
      BY DEF RoleInv, Points
    <2>2. Place(process[u].role, point) /\ process[u].role # "none"
      BY <2>1 DEF RoleOK, Place
    <2>3. PutAndOn(u, d, m, point)
      BY <2>1, PutGoesOn
    <2>4. CASE s = u
      BY <2>2, <2>3, <2>4, RoleKept DEF PutAndOn
    <2>5. CASE s # u
      BY <1>1, <2>3, <2>5, RolePut DEF PutAndOn
    <2> QED
      BY <2>4, <2>5
  <1>8. ASSUME NEW r \in Nodes, Send(r) \/ Disconnect(r), NEW s \in Slots
        PROVE  RoleOK(s)'
    <2>1. \E m \in Message : process' = Put(remote_nodes[r], m)
      BY <1>8, MessageTypes DEF Send, Disconnect
    <2> PICK m \in Message : process' = Put(remote_nodes[r], m)
      BY <2>1
    <2>2. PutIn(remote_nodes[r], m, process')
      BY PutMoves
    <2> QED
      BY <1>1, <2>2, RolePut DEF PutIn
  <1>9. CASE SpawnUser
    <2>1. {"user"} \subseteq Roles /\ {"loop"} \subseteq Points
      BY DEF Roles, Points
    <2>2. /\ FreeSlot \in Slots /\ process[FreeSlot] = Free
          /\ process' = [process EXCEPT ![FreeSlot] = New("user", NULL, "loop")]
      BY <1>9, <2>1, SpawnStarts DEF SpawnUser
    <2>3. ASSUME NEW s \in Slots
          PROVE  RoleOK(s)'
      BY <1>2, <2>2 DEF Place
    <2> QED
      BY <2>3 DEF RoleInv
  <1>10. CASE \/ \E c \in Connections : PeerCloses(c)
              \/ \E c \in Connections, r \in Nodes : Accept(c, r)
              \/ UNCHANGED vars
    <2>1. UNCHANGED process
      BY <1>10 DEF PeerCloses, Accept, vars
    <2> QED
      BY <2>1, RoleSame DEF RoleInv
  <1> QED
    BY <1>3, <1>4, <1>5, <1>6, <1>7, <1>8, <1>9, <1>10
       DEF RoleInv, Next, ProcessStep, SenderStep, SupervisorStep, Unforced

\* The connections are set up properly.
LEMMA StartStepInv ==
  ASSUME TypeOK, RoleInv, StartInv, [Next]_vars
  PROVE  StartInv'
  <1> DEFINE OK(c) == IF start[c] = "idle" THEN node[c] = Local /\ sock[c] = "none"
                                           ELSE node[c] \in Nodes /\ sock[c] # "none"
  <1>1. ASSUME UNCHANGED <<start, node, sock>>
        PROVE  StartInv'
    BY <1>1 DEF StartInv
  <1>2. ASSUME NEW c \in Connections, StartStep(c)
        PROVE  StartInv'
    BY <1>2 DEF StartStep, StartSupervisor, StartReceiver, StartSender, StartFails,
                SetEntry, StartGoto, TypeOK, StartInv
  <1>3. ASSUME NEW c \in Connections, NEW r \in Nodes, Accept(c, r)
        PROVE  StartInv'
    BY <1>3 DEF Accept, TypeOK, StartInv
  <1>4. ASSUME NEW c \in Connections, PeerCloses(c)
        PROVE  StartInv'
    BY <1>4 DEF PeerCloses, startVars, TypeOK, StartInv
  <1>5. ASSUME NEW s \in Slots, Shutdown(s)
        PROVE  StartInv'
    <2>1. process[s].conn \in Connections /\ Begun(process[s].conn)
      BY <1>5, NotFree, ConnectionAssumption
         DEF Shutdown, RoleInv, RoleOK, Place, Begun
    <2>2. \A c \in Connections :
            sock'[c] = IF c # process[s].conn \/ sock[c] = "closed" THEN sock[c]
                                                                    ELSE "shutdown"
      BY <1>5 DEF Shutdown, TypeOK
    <2> QED
      BY <1>5, <2>1, <2>2 DEF Shutdown, startVars, StartInv, Begun
  <1>6. ASSUME NEW s \in Slots, ProcessStep(s) \/ Unforced(s), ~ Shutdown(s)
        PROVE  StartInv'
    <2>1. UNCHANGED <<start, node, sock>>
      BY <1>6 DEF ProcessStep, SenderStep, SupervisorStep, Unforced, Link,
                  Relink, LinkTo, ReceiveClosed, ReceiveEmpty, Receiving,
                  SenderTimeout, SenderStop, Transmit, TransmitFails, Ignore,
                  Restart, RestartOn, RestartFails, SetRestarted, Break,
                  BreakOn, StopSender, Invalidate, End, Release, UserReceives,
                  UserReturns, connVars, startVars
    <2> QED
      BY <1>1, <2>1
  <1>7. CASE \/ \E r \in Nodes : Send(r) \/ Disconnect(r)
             \/ SpawnUser \/ UNCHANGED vars
    BY <1>1, <1>7 DEF Send, Disconnect, SpawnUser, connVars, startVars, vars
  <1> QED
    BY <1>2, <1>3, <1>4, <1>5, <1>6, <1>7 DEF Next, Unforced
-----------------------------------------------------------------------------
(* What a step can do to one process.                                      *)

\* It goes on, and keeps its supervisor or gets it now.
Stay(s) ==
  /\ process[s].role # "none"
  /\ process'[s].role = process[s].role /\ process'[s].conn = process[s].conn
  /\ \/ /\ process'[s].supervisor_pid = process[s].supervisor_pid
        /\ process'[s].pc # process[s].pc =>
             /\ process[s].pc \notin {"link", "relink", "release"}
             /\ process[s].pc = "end" => process'[s].pc = "release"
     \/ /\ process[s].pc \in {"link", "relink"} /\ process'[s].pc = "loop"
        /\ \A u \in Slots :
             process[u].role = "supervisor" /\ process[u].conn = process[s].conn
               /\ u = supervisor[process[s].conn] => process'[s].supervisor_pid = u

\* It is started.
Appear(s) ==
  \E role \in {"user", "supervisor", "receiver", "sender"}, point \in Points,
     c \in Connections \union {NULL} :
    /\ process[s] = Free /\ process'[s] = New(role, c, point)
    /\ Place(role, point)
    /\ c = NULL <=> role = "user"
    /\ role = "supervisor" => ~ Begun(c) /\ supervisor'[c] = s
    /\ role \in {"receiver", "sender"} => point \in {"link", "relink"}

SlotStep(s) == Stay(s) \/ Appear(s) \/ process'[s] = Free
LEMMA SameStays ==
  ASSUME TypeOK, RoleInv, NEW s \in Slots, process'[s] = process[s]
  PROVE  SlotStep(s)
  <1>1. process[s] # Free <=> process[s].role # "none"
    BY NotFree
  <1> QED
    BY <1>1 DEF SlotStep, Stay

\* A process in an unchanged place with another result or queue.
LEMMA AlikeStays ==
  ASSUME TypeOK, RoleInv, TypeOK', RoleInv', NEW s \in Slots,
         process'[s].role = process[s].role, process'[s].conn = process[s].conn,
         process'[s].supervisor_pid = process[s].supervisor_pid,
         process'[s].pc # process[s].pc =>
           /\ process[s].pc \notin {"link", "relink", "release"}
           /\ process[s].pc = "end" => process'[s].pc = "release"
  PROVE  SlotStep(s)
  <1>1. process'[s].role = "none" => process'[s] = Free
    BY DEF RoleInv, RoleOK
  <1> QED
    BY <1>1 DEF SlotStep, Stay

LEMMA SlotSteps ==
  ASSUME TypeOK, RoleInv, [Next]_vars, NEW s \in Slots
  PROVE  SlotStep(s)
  <1>0. TypeOK' /\ RoleInv'
    BY TypeStep, RoleStep
  <1>1. ASSUME NEW f \in Slots, process[f] = Free,
               NEW role \in {"user", "supervisor", "receiver", "sender"},
               NEW c \in Connections \union {NULL}, NEW point \in {"link", "relink", "loop"},
               process' = [process EXCEPT ![f] = New(role, c, point)],
               Place(role, point), c = NULL <=> role = "user",
               role = "supervisor" => ~ Begun(c) /\ supervisor'[c] = f,
               role \in {"receiver", "sender"} => point \in {"link", "relink"}
        PROVE  SlotStep(s)
    <2>1. process'[s] = IF s = f THEN New(role, c, point) ELSE process[s]
      BY <1>1 DEF TypeOK
    <2>2. point \in Points
      BY DEF Points
    <2>3. CASE s = f
      <3>1. Appear(f)
        BY <1>1, <2>1, <2>2, <2>3 DEF Appear
      <3> QED
        BY <2>3, <3>1 DEF SlotStep
    <2> QED
      BY <2>1, <2>3, SameStays
  <1>2. ASSUME NEW c \in Connections, StartStep(c)
        PROVE  SlotStep(s)
    <2>1. /\ {"supervisor", "receiver", "sender"} \subseteq Roles
          /\ {"link", "loop"} \subseteq Points
          /\ c # NULL
      BY ConnectionAssumption DEF Roles, Points
    <2>2. CASE StartSupervisor(c)
      <3>1. ~ Begun(c) /\ Spawn("supervisor", c, "loop")
        BY <2>2 DEF StartSupervisor, StartGoto, Begun
      <3>2. /\ FreeSlot \in Slots /\ process[FreeSlot] = Free
            /\ process' = [process EXCEPT ![FreeSlot] = New("supervisor", c, "loop")]
        BY <2>1, <3>1, SpawnStarts
      <3>3. supervisor'[c] = FreeSlot
        BY <2>2 DEF StartSupervisor, TypeOK
      <3> QED
        BY <1>1, <2>1, <3>1, <3>2, <3>3 DEF Place
    <2>3. CASE StartReceiver(c)
      <3>1. /\ FreeSlot \in Slots /\ process[FreeSlot] = Free
            /\ process' = [process EXCEPT ![FreeSlot] = New("receiver", c, "link")]
        BY <2>1, <2>3, SpawnStarts DEF StartReceiver
      <3> QED
        BY <1>1, <2>1, <3>1 DEF Place
    <2>4. CASE StartSender(c)
      <3>1. /\ FreeSlot \in Slots /\ process[FreeSlot] = Free
            /\ process' = [process EXCEPT ![FreeSlot] = New("sender", c, "link")]
        BY <2>1, <2>4, SpawnStarts DEF StartSender
      <3> QED
        BY <1>1, <2>1, <3>1 DEF Place
    <2>5. CASE StartFails(c) \/ SetEntry(c)
      BY <2>5, SameStays DEF StartFails, SetEntry
    <2> QED
      BY <1>2, <2>2, <2>3, <2>4, <2>5 DEF StartStep
  <1>3. ASSUME NEW u \in Slots,
               \/ ReceiveClosed(u) \/ SenderTimeout(u)
               \/ SenderStop(u) \/ Transmit(u) \/ TransmitFails(u) \/ Ignore(u)
               \/ RestartFails(u) \/ SetRestarted(u) \/ Break(u) \/ Shutdown(u)
               \/ Invalidate(u) \/ Unforced(u)
        PROVE  SlotStep(s)
    <2>1. /\ process[u].role # "none"
          /\ \A q \in Slots : q # u => process'[q] = process[q]
          /\ process'[u].role = process[u].role /\ process'[u].conn = process[u].conn
      BY <1>3, ProcessMoves DEF Moved
    <2>2. CASE s # u
      BY <2>1, <2>2, SameStays
    <2>3. process[u].pc \notin {"link", "relink", "release", "end"}
      BY <1>3 DEF ReceiveClosed, ReceiveEmpty, Receiving, SenderTimeout,
                  SenderStop, Transmit, TransmitFails, Takes, Sending, Ignore,
                  RestartFails, SetRestarted, Break, BreakOn, Supervise,
                  Shutdown, Invalidate, Unforced, UserReceives, UserReturns
    <2>4. process'[u].supervisor_pid = process[u].supervisor_pid
      <3>1. CASE \/ ReceiveClosed(u) \/ ReceiveEmpty(u) \/ SenderTimeout(u)
                 \/ Invalidate(u) \/ UserReturns(u)
        BY <3>1, ReturnMoves
           DEF ReceiveClosed, ReceiveEmpty, Receiving, SenderTimeout,
               Invalidate, UserReturns, Results, Moved
      <3>2. CASE SenderStop(u) \/ TransmitFails(u)
        BY <3>2, TakeReturnMoves DEF SenderStop, TransmitFails, Takes, Results, Moved
      <3>3. CASE SetRestarted(u) \/ Shutdown(u)
        BY <3>3, GoesOn DEF SetRestarted, Shutdown, Points, Moved
      <3>4. CASE Transmit(u) \/ Ignore(u) \/ UserReceives(u)
        BY <3>4, TakeMoves DEF Transmit, Takes, Ignore, Supervise, UserReceives, Moved
      <3>5. CASE RestartFails(u) \/ Break(u)
        BY <3>5, TakeGoesOn DEF RestartFails, Break, BreakOn, Supervise, Points, Moved
      <3> QED
        BY <1>3, <3>1, <3>2, <3>3, <3>4, <3>5 DEF Unforced
    <2> QED
      BY <1>0, <2>1, <2>2, <2>3, <2>4, AlikeStays
  <1>4. ASSUME NEW u \in Slots, Link(u) \/ Relink(u)
        PROVE  SlotStep(s)
    <2>1. process[u].pc \in {"link", "relink"} /\ process[u].role \in {"receiver", "sender"}
      BY <1>4 DEF Link, Relink, RoleInv, RoleOK, Place
    <2> PICK d \in Slots \union {ACTOR_INVALID_ID} :
           /\ LinkTo(u, d)
           /\ \/ d = supervisor[process[u].conn]
              \/ process[u].pc = "relink" /\ Of("supervisor", process[u].conn) = {}
      BY <1>4, LinkType
    <2>2. Moved(u, "loop", IF d = u THEN ACTOR_INVALID_ID ELSE d,
                process[u].result, process[u].queue)
      BY LinkMoves
    <2>3. ASSUME NEW q \in Slots, process[q].role = "supervisor",
                 process[q].conn = process[u].conn, q = supervisor[process[u].conn]
          PROVE  process'[u].supervisor_pid = q
      <3>1. q # u /\ q \in Of("supervisor", process[u].conn)
        BY <2>1, <2>3 DEF Of
      <3> QED
        BY <2>2, <2>3, <3>1 DEF Moved
    <2>4. CASE s = u
      BY <2>1, <2>2, <2>3, <2>4 DEF Moved, Stay, SlotStep
    <2>5. CASE s # u
      BY <2>2, <2>5, SameStays DEF Moved
    <2> QED
      BY <2>4, <2>5
  <1>5. ASSUME NEW u \in Slots, Restart(u)
        PROVE  SlotStep(s)
    <2> PICK f \in Slots :
           /\ process[f] = Free /\ f # u
           /\ \A q \in Slots : q # u /\ q # f => process'[q] = process[q]
           /\ process'[f] = New("sender", process[u].conn, "relink")
           /\ process'[u].role = process[u].role /\ process'[u].conn = process[u].conn
           /\ process'[u].pc = "set"
           /\ process'[u].supervisor_pid = process[u].supervisor_pid
      BY <1>5, RestartMoves DEF Restart
    <2>1. /\ process[u].role = "supervisor" /\ process[u].conn \in Connections
          /\ process[u].pc = "loop" /\ process[u].conn # NULL
      BY <1>5, NotFree, ConnectionAssumption DEF Restart, RestartOn, Supervise
    <2>2. CASE s = f
      <3>1. "relink" \in Points
        BY DEF Points
      <3> QED
        BY <2>1, <2>2, <3>1 DEF Appear, SlotStep, Place
    <2>3. CASE s = u
      BY <1>0, <2>1, <2>3, AlikeStays
    <2> QED
      BY <2>2, <2>3, SameStays
  <1>6. ASSUME NEW u \in Slots, Release(u)
        PROVE  SlotStep(s)
    <2>1. process'[s] = IF s = u THEN Free ELSE process[s]
      BY <1>6 DEF Release, TypeOK
    <2> QED
      BY <2>1, SameStays DEF SlotStep
  <1>7. ASSUME NEW u \in Slots, StopSender(u) \/ End(u)
        PROVE  SlotStep(s)
    <2> PICK d \in {process[u].supervisor_pid, remote_nodes[node[process[u].conn]]},
             m \in Message, point \in {"invalidate", "release"} :
           /\ process' = [Put(d, m) EXCEPT ![u].pc = point]
           /\ process[u].pc \in {"stop", "end"}
           /\ process[u].pc = "end" => point = "release"
      BY <1>7, MessageTypes, ProcessFields DEF StopSender, End
    <2>1. PutAndOn(u, d, m, point)
      <3>1. point \in Points
        BY DEF Points
      <3> QED
        BY <3>1, PutGoesOn
    <2> QED
      BY <1>0, <2>1, AlikeStays DEF PutAndOn
  <1>8. ASSUME NEW r \in Nodes, Send(r) \/ Disconnect(r)
        PROVE  SlotStep(s)
    <2>1. \E m \in Message : process' = Put(remote_nodes[r], m)
      BY <1>8, MessageTypes DEF Send, Disconnect
    <2> PICK m \in Message : process' = Put(remote_nodes[r], m)
      BY <2>1
    <2>2. PutIn(remote_nodes[r], m, process')
      BY PutMoves
    <2> QED
      BY <1>0, <2>2, AlikeStays DEF PutIn
  <1>9. CASE SpawnUser
    <2>1. {"user"} \subseteq Roles /\ {"loop"} \subseteq Points
      BY DEF Roles, Points
    <2>2. /\ FreeSlot \in Slots /\ process[FreeSlot] = Free
          /\ process' = [process EXCEPT ![FreeSlot] = New("user", NULL, "loop")]
      BY <1>9, <2>1, SpawnStarts DEF SpawnUser
    <2> QED
      BY <1>1, <2>2 DEF Place
  <1>10. CASE \/ \E c \in Connections : PeerCloses(c)
              \/ \E c \in Connections, r \in Nodes : Accept(c, r)
              \/ UNCHANGED vars
    <2>1. UNCHANGED process
      BY <1>10 DEF PeerCloses, Accept, vars
    <2> QED
      BY <2>1, SameStays
  <1> QED
    BY <1>2, <1>3, <1>4, <1>5, <1>6, <1>7, <1>8, <1>9, <1>10
       DEF Next, ProcessStep, SenderStep, SupervisorStep, Unforced
-----------------------------------------------------------------------------
(* The supervisor of a connection, and who is linked to it.                *)

\* start_connectors knows the slot of the supervisor of a connection, which is
\* the only one; a receiver or a sender that has linked has done so to it, as
\* long as it is there.
SupervisorOK(u) ==
  process[u].role = "supervisor" => u = supervisor[process[u].conn]

Linked(s, u) ==
  /\ process[s].role \in {"receiver", "sender"} /\ process[s].pc \in {"loop", "end"}
  /\ process[u].role = "supervisor" /\ process[u].conn = process[s].conn

LinkOK(s, u) == Linked(s, u) => process[s].supervisor_pid = u

SupervisorInv ==
  /\ \A u \in Slots : SupervisorOK(u)
  /\ \A s, u \in Slots : LinkOK(s, u)

\* A new process of a role, in the slot where it appears.
LEMMA Appeared ==
  ASSUME TypeOK, [Next]_vars, NEW s \in Slots, Appear(s)
  PROVE  /\ process[s] = Free /\ process[s].role = "none"
         /\ process'[s].conn \in Connections \union {NULL}
         /\ process'[s].role # "none" /\ process'[s].queue = <<>>
         /\ process'[s].conn = NULL <=> process'[s].role = "user"
         /\ Place(process'[s].role, process'[s].pc)
         /\ process'[s].role = "supervisor" =>
              ~ Begun(process'[s].conn) /\ supervisor'[process'[s].conn] = s
         /\ process'[s].role \in {"receiver", "sender"} =>
              process'[s].pc \in {"link", "relink"}
  <1>1. PICK role \in {"user", "supervisor", "receiver", "sender"}, point \in Points,
              c \in Connections \union {NULL} :
          /\ process[s] = Free /\ process'[s] = New(role, c, point)
          /\ Place(role, point)
          /\ c = NULL <=> role = "user"
          /\ role = "supervisor" => ~ Begun(c) /\ supervisor'[c] = s
          /\ role \in {"receiver", "sender"} => point \in {"link", "relink"}
    BY DEF Appear
  <1>2. process[s] = Free /\ process[s].role = "none"
    BY <1>1 DEF Free
  <1>3. /\ process'[s].role = role /\ process'[s].conn = c /\ process'[s].pc = point
        /\ process'[s].queue = <<>>
    BY <1>1 DEF New
  <1>4. /\ Place(process'[s].role, process'[s].pc)
        /\ process'[s].role = "supervisor" =>
             ~ Begun(process'[s].conn) /\ supervisor'[process'[s].conn] = s
    BY <1>1, <1>3
  <1> QED
    BY <1>1, <1>2, <1>3, <1>4

LEMMA SupervisorOKStep ==
  ASSUME TypeOK, RoleInv, SupervisorInv, [Next]_vars, NEW u \in Slots
  PROVE  SupervisorOK(u)'
  <1>1. CASE Stay(u)
    <2>1. CASE process[u].role = "supervisor"
      <3>1. process[u].conn \in Connections /\ Begun(process[u].conn)
        BY <2>1, NotFree, ConnectionAssumption DEF RoleInv, RoleOK, Begun
      <3>2. supervisor'[process[u].conn] = supervisor[process[u].conn]
        BY <3>1, StartsGoOn
      <3> QED
        BY <1>1, <2>1, <3>2 DEF SupervisorInv, SupervisorOK, Stay
    <2> QED
      BY <1>1, <2>1 DEF SupervisorOK, Stay
  <1>2. CASE Appear(u)
    BY <1>2, Appeared DEF SupervisorOK
  <1>3. CASE process'[u] = Free
    BY <1>3 DEF SupervisorOK, Free
  <1> QED
    BY <1>1, <1>2, <1>3, SlotSteps DEF SlotStep

LEMMA LinkStep ==
  ASSUME TypeOK, RoleInv, SupervisorInv, [Next]_vars, NEW s \in Slots, NEW u \in Slots
  PROVE  LinkOK(s, u)'
  <1> SUFFICES ASSUME Linked(s, u)'
               PROVE  process'[s].supervisor_pid = u
    BY DEF LinkOK
  <1> USE DEF Linked
  <1>1. Free.role = "none"
    BY DEF Free
  <1>2. Stay(s)
    BY <1>1, SlotSteps, Appeared DEF SlotStep
  <1>3. process[s].conn \in Connections /\ Begun(process[s].conn)
    BY <1>2, NotFree, ConnectionAssumption DEF Stay, RoleInv, RoleOK, Begun
  <1>4. Stay(u)
    BY <1>1, <1>2, <1>3, SlotSteps, Appeared DEF SlotStep, Stay
  <1>5. u = supervisor[process[s].conn]
    BY <1>2, <1>4 DEF SupervisorInv, SupervisorOK, Stay
  <1>6. CASE process'[s].supervisor_pid # process[s].supervisor_pid
    BY <1>2, <1>4, <1>5, <1>6 DEF Stay
  <1>7. CASE /\ process'[s].supervisor_pid = process[s].supervisor_pid
             /\ process'[s].pc # process[s].pc =>
                  /\ process[s].pc \notin {"link", "relink", "release"}
                  /\ process[s].pc = "end" => process'[s].pc = "release"
    <2>1. Place(process[s].role, process[s].pc)
      BY DEF RoleInv, RoleOK
    <2>2. process[s].pc \in {"loop", "end"} /\ process[s].role \in {"receiver", "sender"}
      BY <1>2, <1>7, <2>1 DEF Stay, Place
    <2>3. Linked(s, u)
      BY <1>2, <1>4, <2>2 DEF Stay
    <2> QED
      BY <1>7, <2>3 DEF SupervisorInv, LinkOK
  <1> QED
    BY <1>2, <1>4, <1>5, <1>6, <1>7 DEF Stay
-----------------------------------------------------------------------------
(* Who acts, and what each action does to the process that acts.           *)

\* The process in slot s is where it was; at most a message was put to its
\* queue.
Bystander(s) ==
  /\ process'[s].role = process[s].role /\ process'[s].conn = process[s].conn
  /\ process'[s].pc = process[s].pc
  /\ process'[s].supervisor_pid = process[s].supervisor_pid
  /\ process'[s].result = process[s].result
  /\ \/ process'[s].queue = process[s].queue
     \/ /\ process[s].role # "none"
        /\ \E m \in Message : process'[s].queue = Append(process[s].queue, m)

OwnStep(s) == ProcessStep(s) \/ Unforced(s) \/ Appear(s) \/ Bystander(s)

LEMMA GivenStandsBy ==
  ASSUME TypeOK, RoleInv, NEW s \in Slots, NEW d, NEW m \in Message,
         process'[s].role = process[s].role, process'[s].conn = process[s].conn,
         process'[s].pc = process[s].pc,
         process'[s].supervisor_pid = process[s].supervisor_pid,
         process'[s].result = process[s].result, process'[s].queue = Given(d, m, s)
  PROVE  Bystander(s)
  <1>1. process[s] # Free <=> process[s].role # "none"
    BY NotFree
  <1>2. CASE s = d /\ process[s] # Free
    BY <1>1, <1>2 DEF Bystander, Given
  <1>3. CASE ~ (s = d /\ process[s] # Free)
    BY <1>3 DEF Bystander, Given
  <1> QED
    BY <1>2, <1>3

LEMMA Owner ==
  ASSUME TypeOK, RoleInv, [Next]_vars, NEW s \in Slots
  PROVE  OwnStep(s)
  <1>0. process'[s] = process[s] => OwnStep(s)
    BY DEF OwnStep, Bystander
  <1>1. CASE Appear(s)
    BY <1>1 DEF OwnStep
  <1>2. ASSUME NEW f \in Slots, process[f] = Free, NEW role, NEW c, NEW point,
               process' = [process EXCEPT ![f] = New(role, c, point)], ~ Appear(s),
               role # "none"
        PROVE  OwnStep(s)
    <2>1. process'[s] = IF s = f THEN New(role, c, point) ELSE process[s]
      BY <1>2 DEF TypeOK
    <2>2. CASE s = f
      <3>1. process[s].role = "none" /\ process'[s].role # "none" /\ process'[s] # Free
        BY <1>2, <2>1, <2>2 DEF Free, New
      <3> QED
        BY <1>2, <3>1, SlotSteps DEF SlotStep, Stay
    <2> QED
      BY <1>0, <2>1, <2>2
  <1>3. ASSUME NEW c \in Connections, StartStep(c), ~ Appear(s)
        PROVE  OwnStep(s)
    <2>1. /\ {"supervisor", "receiver", "sender"} \subseteq Roles
          /\ {"link", "loop"} \subseteq Points
      BY DEF Roles, Points
    <2>2. CASE StartSupervisor(c)
      <3>1. /\ FreeSlot \in Slots /\ process[FreeSlot] = Free
            /\ process' = [process EXCEPT ![FreeSlot] = New("supervisor", c, "loop")]
        BY <2>1, <2>2, SpawnStarts DEF StartSupervisor
      <3> QED
        BY <1>2, <1>3, <3>1
    <2>3. CASE StartReceiver(c)
      <3>1. /\ FreeSlot \in Slots /\ process[FreeSlot] = Free
            /\ process' = [process EXCEPT ![FreeSlot] = New("receiver", c, "link")]
        BY <2>1, <2>3, SpawnStarts DEF StartReceiver
      <3> QED
        BY <1>2, <1>3, <3>1
    <2>4. CASE StartSender(c)
      <3>1. /\ FreeSlot \in Slots /\ process[FreeSlot] = Free
            /\ process' = [process EXCEPT ![FreeSlot] = New("sender", c, "link")]
        BY <2>1, <2>4, SpawnStarts DEF StartSender
      <3> QED
        BY <1>2, <1>3, <3>1
    <2>5. CASE StartFails(c) \/ SetEntry(c)
      BY <1>0, <2>5 DEF StartFails, SetEntry
    <2> QED
      BY <1>3, <2>2, <2>3, <2>4, <2>5 DEF StartStep
  <1>4. ASSUME NEW u \in Slots, u # s,
               \/ Link(u) \/ Relink(u) \/ ReceiveClosed(u) \/ SenderTimeout(u)
               \/ SenderStop(u) \/ Transmit(u) \/ TransmitFails(u) \/ Ignore(u)
               \/ RestartFails(u) \/ SetRestarted(u) \/ Break(u) \/ Shutdown(u)
               \/ Invalidate(u) \/ Unforced(u)
        PROVE  OwnStep(s)
    <2>1. process'[s] = process[s]
      BY <1>4, ProcessMoves DEF Moved
    <2> QED
      BY <1>0, <2>1
  <1>5. ASSUME NEW u \in Slots, u # s, Restart(u), ~ Appear(s)
        PROVE  OwnStep(s)
    <2> PICK f \in Slots :
           /\ process[f] = Free
           /\ \A q \in Slots : q # u /\ q # f => process'[q] = process[q]
           /\ process'[f] = New("sender", process[u].conn, "relink")
      BY <1>5, RestartMoves DEF Restart
    <2>1. CASE s = f
      <3>1. process[s].role = "none" /\ process'[s].role # "none" /\ process'[s] # Free
        BY <2>1 DEF Free, New
      <3> QED
        BY <1>5, <3>1, SlotSteps DEF SlotStep, Stay
    <2> QED
      BY <1>0, <1>5, <2>1
  <1>6. ASSUME NEW u \in Slots, u # s, Release(u)
        PROVE  OwnStep(s)
    <2>1. process'[s] = process[s]
      BY <1>6 DEF Release, TypeOK
    <2> QED
      BY <1>0, <2>1
  <1>7. ASSUME NEW u \in Slots, u # s, StopSender(u) \/ End(u)
        PROVE  OwnStep(s)
    <2> PICK d \in {process[u].supervisor_pid, remote_nodes[node[process[u].conn]]},
             m \in Message, point \in {"invalidate", "release"} :
           process' = [Put(d, m) EXCEPT ![u].pc = point]
      BY <1>7, MessageTypes, ProcessFields DEF StopSender, End
    <2>1. PutAndOn(u, d, m, point)
      <3>1. point \in Points
        BY DEF Points
      <3> QED
        BY <3>1, PutGoesOn
    <2>2. Bystander(s)
      BY <1>7, <2>1, GivenStandsBy DEF PutAndOn
    <2> QED
      BY <2>2 DEF OwnStep
  <1>8. ASSUME NEW r \in Nodes, Send(r) \/ Disconnect(r)
        PROVE  OwnStep(s)
    <2>1. \E m \in Message : process' = Put(remote_nodes[r], m)
      BY <1>8, MessageTypes DEF Send, Disconnect
    <2> PICK m \in Message : process' = Put(remote_nodes[r], m)
      BY <2>1
    <2>2. PutIn(remote_nodes[r], m, process')
      BY PutMoves
    <2>3. Bystander(s)
      BY <2>2, GivenStandsBy DEF PutIn
    <2> QED
      BY <2>3 DEF OwnStep
  <1>9. CASE SpawnUser /\ ~ Appear(s)
    <2>1. {"user"} \subseteq Roles /\ {"loop"} \subseteq Points
      BY DEF Roles, Points
    <2>2. /\ FreeSlot \in Slots /\ process[FreeSlot] = Free
          /\ process' = [process EXCEPT ![FreeSlot] = New("user", NULL, "loop")]
      BY <1>9, <2>1, SpawnStarts DEF SpawnUser
    <2> QED
      BY <1>2, <1>9, <2>2
  <1>10. CASE \/ \E c \in Connections : PeerCloses(c)
              \/ \E c \in Connections, r \in Nodes : Accept(c, r)
              \/ UNCHANGED vars
    <2>1. UNCHANGED process
      BY <1>10 DEF PeerCloses, Accept, vars
    <2> QED
      BY <1>0, <2>1
  <1>11. ASSUME NEW u \in Slots, ProcessStep(u) \/ Unforced(u)
         PROVE  OwnStep(s)
    <2>1. CASE u = s
      BY <1>11, <2>1 DEF OwnStep
    <2> QED
      BY <1>1, <1>4, <1>5, <1>6, <1>7, <1>11, <2>1
         DEF ProcessStep, SenderStep, SupervisorStep
  <1> QED
    BY <1>1, <1>3, <1>8, <1>9, <1>10, <1>11 DEF Next, Unforced

\* What the process in slot s does to itself.
On(s, point) ==
  Moved(s, point, process[s].supervisor_pid, process[s].result, process[s].queue)

Took(s, point) ==
  Moved(s, point, process[s].supervisor_pid, process[s].result,
        Tail(process[s].queue))

Returned(s, result) ==
  Moved(s, "end", process[s].supervisor_pid, result, process[s].queue)

TookAndReturned(s, result) ==
  Moved(s, "end", process[s].supervisor_pid, result, Tail(process[s].queue))

LEMMA Effects ==
  ASSUME TypeOK, NEW s \in Slots
  PROVE  /\ ReceiveClosed(s) \/ ReceiveEmpty(s) => Returned(s, "NETWORK")
         /\ SenderTimeout(s) => Returned(s, "TIMEOUT")
         /\ Invalidate(s) \/ UserReturns(s) => Returned(s, "SUCCESS")
         /\ SenderStop(s) => TookAndReturned(s, "SUCCESS")
         /\ TransmitFails(s) => TookAndReturned(s, "NETWORK")
         /\ SetRestarted(s) => On(s, "loop")
         /\ Shutdown(s) => On(s, "stop")
         /\ Transmit(s) \/ Ignore(s) \/ UserReceives(s) => Took(s, "loop")
         /\ RestartFails(s) => Took(s, "set")
         /\ Break(s) => Took(s, "shutdown")
  <1>1. /\ {"NETWORK", "TIMEOUT", "SUCCESS"} \subseteq Results
        /\ {"loop", "stop", "set", "shutdown"} \subseteq Points
    BY DEF Results, Points
  <1>2. /\ ReceiveClosed(s) \/ ReceiveEmpty(s) => Returned(s, "NETWORK")
        /\ SenderTimeout(s) => Returned(s, "TIMEOUT")
        /\ Invalidate(s) \/ UserReturns(s) => Returned(s, "SUCCESS")
    BY <1>1, ReturnMoves DEF ReceiveClosed, ReceiveEmpty, Receiving,
                             SenderTimeout, Invalidate, UserReturns, Returned
  <1>3. /\ SenderStop(s) => TookAndReturned(s, "SUCCESS")
        /\ TransmitFails(s) => TookAndReturned(s, "NETWORK")
    BY <1>1, TakeReturnMoves DEF SenderStop, TransmitFails, Takes, TookAndReturned
  <1>4. /\ SetRestarted(s) => On(s, "loop")
        /\ Shutdown(s) => On(s, "stop")
    BY <1>1, GoesOn DEF SetRestarted, Shutdown, On
  <1>5. Transmit(s) \/ Ignore(s) \/ UserReceives(s) => Took(s, "loop")
    <2> SUFFICES ASSUME Transmit(s) \/ Ignore(s) \/ UserReceives(s)
                 PROVE  Took(s, "loop")
      OBVIOUS
    <2>1. /\ process' = [process EXCEPT ![s].queue = Tail(@)]
          /\ process[s].queue # <<>> /\ process[s].pc = "loop"
      BY DEF Transmit, Takes, Sending, Ignore, Supervise, UserReceives
    <2> QED
      BY <2>1, TakeMoves DEF Took
  <1>6. /\ RestartFails(s) => Took(s, "set")
        /\ Break(s) => Took(s, "shutdown")
    BY <1>1, TakeGoesOn DEF RestartFails, Break, BreakOn, Supervise, Took
  <1> QED
    BY <1>2, <1>3, <1>4, <1>5, <1>6

LEMMA RacesGrow ==
  ASSUME TypeOK, [Next]_vars
  PROVE  races \subseteq races'
  <1>1. UNCHANGED races => races \subseteq races'
    OBVIOUS
  <1>2. ASSUME NEW c \in Connections, StartStep(c) \/ PeerCloses(c)
        PROVE  races \subseteq races'
    BY <1>2 DEF StartStep, StartSupervisor, StartReceiver, StartSender, StartFails,
                SetEntry, StartGoto, PeerCloses
  <1>3. ASSUME NEW c \in Connections, NEW r \in Nodes, Accept(c, r)
        PROVE  races \subseteq races'
    BY <1>3 DEF Accept
  <1>4. ASSUME NEW s \in Slots, ProcessStep(s) \/ Unforced(s)
        PROVE  races \subseteq races'
    <2>1. CASE \/ Restart(s) \/ RestartFails(s) \/ Break(s) \/ StopSender(s) \/ End(s)
      BY <2>1 DEF Restart, RestartOn, NoteLate, RestartFails, Break, BreakOn,
                  StopSender, End, NoteAstray
    <2>2. CASE ~ (Restart(s) \/ RestartFails(s) \/ Break(s) \/ StopSender(s) \/ End(s))
      <3>1. UNCHANGED races
        BY <1>4, <2>2
           DEF ProcessStep, SenderStep, SupervisorStep, Unforced, Link, Relink,
               LinkTo, ReceiveClosed, ReceiveEmpty, Receiving, SenderTimeout,
               SenderStop, Transmit, TransmitFails, Ignore, SetRestarted,
               Shutdown, Invalidate, Release, UserReceives, UserReturns
      <3> QED
        BY <3>1
    <2> QED
      BY <2>1, <2>2
  <1>5. ASSUME NEW r \in Nodes, Send(r) \/ Disconnect(r)
        PROVE  races \subseteq races'
    BY <1>5 DEF Send, Disconnect, NoteAstray
  <1>6. CASE SpawnUser \/ UNCHANGED vars
    BY <1>6 DEF SpawnUser, vars
  <1> QED
    BY <1>2, <1>3, <1>4, <1>5, <1>6 DEF Next, Unforced

\* Who sets the entry of a remote node, and to what.
LEMMA EntryChanges ==
  ASSUME TypeOK, RoleInv, StartInv, [Next]_vars, NEW r \in Nodes,
         remote_nodes'[r] # remote_nodes[r]
  PROVE  \/ \E c \in Connections :
              SetEntry(c) /\ node[c] = r /\ remote_nodes'[r] = sender[c]
         \/ \E s \in Slots :
              /\ node[process[s].conn] = r
              /\ \/ SetRestarted(s) /\ remote_nodes'[r] = restarted[process[s].conn]
                 \/ Invalidate(s) /\ remote_nodes'[r] = ACTOR_INVALID_ID
  <1>1. ASSUME NEW c \in Connections, StartStep(c)
        PROVE  SetEntry(c) /\ node[c] = r /\ remote_nodes'[r] = sender[c]
    BY <1>1 DEF StartStep, StartSupervisor, StartReceiver, StartSender, StartFails,
                SetEntry, TypeOK
  <1>2. ASSUME NEW s \in Slots, ProcessStep(s) \/ Unforced(s)
        PROVE  /\ node[process[s].conn] = r
               /\ \/ SetRestarted(s) /\ remote_nodes'[r] = restarted[process[s].conn]
                  \/ Invalidate(s) /\ remote_nodes'[r] = ACTOR_INVALID_ID
    <2>1. CASE SetRestarted(s)
      BY <2>1 DEF SetRestarted, TypeOK
    <2>2. CASE Invalidate(s)
      BY <2>2 DEF Invalidate, TypeOK
    <2>3. CASE ~ SetRestarted(s) /\ ~ Invalidate(s)
      BY <1>2, <2>3
         DEF ProcessStep, SenderStep, SupervisorStep, Unforced, Link, Relink,
             LinkTo, ReceiveClosed, ReceiveEmpty, Receiving, SenderTimeout,
             SenderStop, Transmit, TransmitFails, Ignore, Restart, RestartOn,
             RestartFails, Break, BreakOn, Shutdown, StopSender, End, Release,
             UserReceives, UserReturns, connVars
    <2> QED
      BY <2>1, <2>2, <2>3
  <1>3. \/ \E c \in Connections : StartStep(c)
        \/ \E s \in Slots : ProcessStep(s) \/ Unforced(s)
    BY DEF Next, Unforced, PeerCloses, Accept, Send, Disconnect, SpawnUser,
           connVars, vars
  <1> QED
    BY <1>1, <1>2, <1>3

\* Who starts a connection.
LEMMA StartChanges ==
  ASSUME [Next]_vars, NEW c \in Connections, TypeOK, start'[c] # start[c]
  PROVE  StartStep(c) \/ \E r \in Nodes : Accept(c, r)
  <1>1. \A u \in Connections : StartStep(u) => u = c
    BY DEF StartStep, StartSupervisor, StartReceiver, StartSender, StartFails, SetEntry,
           StartGoto, TypeOK
  <1>2. \A u \in Connections, r \in Nodes : Accept(u, r) => u = c
    BY DEF Accept, TypeOK
  <1>3. ASSUME NEW s \in Slots, ProcessStep(s) \/ Unforced(s)
        PROVE  FALSE
    BY <1>3
       DEF ProcessStep, SenderStep, SupervisorStep, Unforced, Link, Relink,
           LinkTo, ReceiveClosed, ReceiveEmpty, Receiving, SenderTimeout,
           SenderStop, Transmit, TransmitFails, Ignore, Restart, RestartOn,
           RestartFails, SetRestarted, Break, BreakOn, Shutdown, StopSender,
           Invalidate, End, Release, UserReceives, UserReturns, connVars,
           startVars
  <1>4. ~ (\/ \E u \in Connections : PeerCloses(u)
           \/ \E r \in Nodes : Send(r) \/ Disconnect(r)
           \/ SpawnUser \/ UNCHANGED vars)
    BY DEF PeerCloses, Send, Disconnect, SpawnUser, connVars, startVars, vars
  <1> QED
    BY <1>1, <1>2, <1>3, <1>4 DEF Next, Unforced

\* How a supervisor leaves its loop, and its function.
LEMMA SupervisorActs ==
  ASSUME TypeOK, RoleInv, [Next]_vars, NEW s \in Slots, process[s].role = "supervisor"
  PROVE  Bystander(s) \/ SupervisorStep(s) \/ End(s) \/ Release(s)
  <1>1. Place("supervisor", process[s].pc)
    BY DEF RoleInv, RoleOK
  <1>2. ~ Appear(s)
    BY Appeared
  <1>3. ~ (Link(s) \/ ReceiveClosed(s) \/ SenderStep(s) \/ Unforced(s))
    BY <1>1 DEF Place, Link, ReceiveClosed, ReceiveEmpty, Receiving,
                SenderStep, Relink, SenderTimeout, SenderStop, Transmit,
                TransmitFails, Takes, Sending, Unforced, UserReceives,
                UserReturns, Users
  <1> QED
    BY <1>2, <1>3, Owner DEF OwnStep, ProcessStep

LEMMA SupervisorGoesOn ==
  ASSUME TypeOK, RoleInv, [Next]_vars, NEW s \in Slots, process[s].role = "supervisor"
  PROVE  /\ process[s].pc \notin {"end", "release"} =>
              \/ Invalidate(s)
              \/ /\ process'[s].role = "supervisor" /\ process'[s].conn = process[s].conn
                 /\ process'[s].pc \notin {"end", "release"}
         /\ process[s].pc = "loop" =>
              \/ Restart(s) \/ RestartFails(s) \/ Break(s)
              \/ /\ process'[s].role = "supervisor" /\ process'[s].conn = process[s].conn
                 /\ process'[s].pc = "loop"
  <1>1. CASE Bystander(s)
    BY <1>1 DEF Bystander
  <1>2. CASE Ignore(s) \/ RestartFails(s) \/ SetRestarted(s) \/ Break(s) \/ Shutdown(s)
    <2>1. /\ process'[s].role = "supervisor" /\ process'[s].conn = process[s].conn
          /\ process'[s].pc \in {"loop", "set", "shutdown", "stop"}
      BY <1>2, Effects DEF On, Took, Moved
    <2>2. CASE SetRestarted(s) \/ Shutdown(s)
      BY <2>1, <2>2 DEF SetRestarted, Shutdown
    <2>3. CASE Ignore(s)
      BY <2>1, <2>3, Effects DEF Took, Moved
    <2> QED
      BY <1>2, <2>1, <2>2, <2>3
  <1>3. CASE Restart(s)
    <2>1. /\ process'[s].role = "supervisor" /\ process'[s].conn = process[s].conn
          /\ process'[s].pc = "set"
      BY <1>3, RestartMoves DEF Restart
    <2> QED
      BY <1>3, <2>1
  <1>4. CASE StopSender(s)
    <2> PICK d \in {remote_nodes[node[process[s].conn]]} :
          process' = [Put(d, Stop) EXCEPT ![s].pc = "invalidate"]
      BY <1>4 DEF StopSender
    <2>1. PutAndOn(s, d, Stop, "invalidate")
      BY MessageTypes, PutGoesOn DEF Points
    <2> QED
      BY <1>4, <2>1 DEF PutAndOn, StopSender
  <1>5. CASE Invalidate(s) \/ End(s) \/ Release(s)
    BY <1>5 DEF Invalidate, End, Release
  <1> QED
    BY <1>1, <1>2, <1>3, <1>4, <1>5, SupervisorActs DEF SupervisorStep
-----------------------------------------------------------------------------
(* The entries of the remote nodes.                                        *)

\* The supervisor in slot s is that of a connection to node r which stands.
Guards(s, r) ==
  /\ process[s].role = "supervisor" /\ node[process[s].conn] = r
  /\ process[s].pc \notin {"end", "release"}

\* The supervisor in slot s is that of c and has had no reason to act yet.
Watches(s, c) ==
  process[s].role = "supervisor" /\ process[s].conn = c /\ process[s].pc = "loop"

EntryGuarded(r) ==
  remote_nodes[r] # ACTOR_INVALID_ID => \E s \in Slots : Guards(s, r)

StartWatched(c) ==
  start[c] \in {"receiver", "sender", "set"} => \E s \in Slots : Watches(s, c)

\* An entry has a connection; a connection that is being started, and will set
\* the entry when it is, has a supervisor that does nothing yet.
EntryInv ==
  "late" \notin races =>
    (\A r \in Nodes : EntryGuarded(r)) /\ (\A c \in Connections : StartWatched(c))

LEMMA GuardStays ==
  ASSUME TypeOK, RoleInv, [Next]_vars, NEW s \in Slots, NEW r \in Nodes, Guards(s, r),
         ~ Invalidate(s)
  PROVE  Guards(s, r)'
  <1>1. /\ process'[s].role = "supervisor" /\ process'[s].conn = process[s].conn
        /\ process'[s].pc \notin {"end", "release"}
    BY SupervisorGoesOn DEF Guards
  <1>2. process[s].conn \in Connections /\ Begun(process[s].conn)
    BY NotFree, ConnectionAssumption DEF Guards, RoleInv, RoleOK, Begun
  <1>3. node'[process[s].conn] = node[process[s].conn]
    BY <1>2, StartsGoOn DEF Begun
  <1> QED
    BY <1>1, <1>3 DEF Guards

LEMMA EntryGuardedStep ==
  ASSUME TypeOK, RoleInv, StartInv, EntryInv, [Next]_vars, "late" \notin races,
         NEW r \in Nodes
  PROVE  EntryGuarded(r)'
  <1> SUFFICES ASSUME remote_nodes'[r] # ACTOR_INVALID_ID
               PROVE  \E s \in Slots : Guards(s, r)'
    BY DEF EntryGuarded
  <1>1. CASE remote_nodes'[r] = remote_nodes[r]
    <2>1. PICK s \in Slots : Guards(s, r)
      BY <1>1 DEF EntryInv, EntryGuarded
    <2>2. ~ Invalidate(s)
      BY <2>1 DEF Guards, Invalidate, TypeOK
    <2> QED
      BY <2>1, <2>2, GuardStays
  <1>2. ASSUME NEW c \in Connections, SetEntry(c), node[c] = r
        PROVE  \E s \in Slots : Guards(s, r)'
    <2>1. start[c] = "set" /\ UNCHANGED process
      BY <1>2 DEF SetEntry, StartGoto
    <2>2. PICK s \in Slots : Watches(s, c)
      BY <2>1 DEF EntryInv, StartWatched
    <2>3. Guards(s, r)
      BY <1>2, <2>2 DEF Watches, Guards
    <2>4. ~ Invalidate(s)
      BY <2>2 DEF Watches, Invalidate
    <2> QED
      BY <2>3, <2>4, GuardStays
  <1>3. ASSUME NEW s \in Slots, SetRestarted(s), node[process[s].conn] = r
        PROVE  Guards(s, r)'
    <2>1. process[s].pc = "set"
      BY <1>3 DEF SetRestarted
    <2>2. process[s].role = "supervisor"
      BY <2>1 DEF RoleInv, RoleOK, Place
    <2>3. Guards(s, r) /\ ~ Invalidate(s)
      BY <1>3, <2>1, <2>2 DEF Guards, Invalidate
    <2> QED
      BY <2>3, GuardStays
  <1> QED
    BY <1>1, <1>2, <1>3, EntryChanges

LEMMA StartWatchedStep ==
  ASSUME TypeOK, RoleInv, EntryInv, [Next]_vars, "late" \notin races',
         NEW c \in Connections
  PROVE  StartWatched(c)'
  <1> SUFFICES ASSUME start'[c] \in {"receiver", "sender", "set"}
               PROVE  \E s \in Slots : Watches(s, c)'
    BY DEF StartWatched
  <1>1. CASE start[c] \in {"receiver", "sender", "set"}
    <2>1. "late" \notin races
      BY RacesGrow
    <2>2. PICK s \in Slots : Watches(s, c)
      BY <1>1, <2>1 DEF EntryInv, StartWatched
    <2>3. Starting(process[s].conn)
      BY <1>1, <2>2 DEF Watches, Starting
    <2>4. ~ (Restart(s) \/ RestartFails(s) \/ Break(s))
      BY <2>3 DEF Restart, RestartOn, NoteLate, RestartFails, Break, BreakOn
    <2> QED
      BY <2>2, <2>4, SupervisorGoesOn DEF Watches
  <1>2. CASE start[c] \notin {"receiver", "sender", "set"}
    <2>1. StartSupervisor(c)
      <3>1. StartStep(c) \/ \E r \in Nodes : Accept(c, r)
        BY <1>2, StartChanges
      <3> QED
        BY <1>2, <3>1 DEF StartStep, StartReceiver, StartSender, StartFails, SetEntry,
                          StartGoto, Accept, TypeOK
    <2>2. "supervisor" \in Roles /\ "loop" \in Points
      BY DEF Roles, Points
    <2>3. /\ FreeSlot \in Slots
          /\ process' = [process EXCEPT ![FreeSlot] = New("supervisor", c, "loop")]
      BY <2>1, <2>2, SpawnStarts DEF StartSupervisor
    <2>4. process'[FreeSlot] = New("supervisor", c, "loop")
      BY <2>3 DEF TypeOK
    <2> PICK f \in Slots : process'[f] = New("supervisor", c, "loop")
      BY <2>3, <2>4
    <2>5. Watches(f, c)'
      BY DEF Watches, New
    <2> QED
      BY <2>5
  <1> QED
    BY <1>1, <1>2

LEMMA EntryStep ==
  ASSUME TypeOK, RoleInv, StartInv, EntryInv, [Next]_vars
  PROVE  EntryInv'
  BY EntryGuardedStep, StartWatchedStep, RacesGrow DEF EntryInv
-----------------------------------------------------------------------------
(* Two connections to the same node.                                       *)

\* Unless two connections to one node were let in, one of them stands.
Apart(c, u) == Standing(c) /\ Standing(u) /\ node[c] = node[u] => c = u

OverlapInv ==
  "overlap" \notin races => \A c, u \in Connections : Apart(c, u)

\* A connection stands only if it stood before or is let in now.
LEMMA StandingStep ==
  ASSUME TypeOK, RoleInv, [Next]_vars, NEW c \in Connections, Standing(c)',
         ~ \E r \in Nodes : Accept(c, r)
  PROVE  Standing(c) /\ node'[c] = node[c]
  <1>1. CASE Starting(c)'
    <2>1. Starting(c)
      <3>1. CASE start'[c] = start[c]
        BY <1>1, <3>1 DEF Starting
      <3>2. CASE start'[c] # start[c]
        BY <3>2, StartChanges
           DEF StartStep, StartSupervisor, StartReceiver, StartSender,
               StartFails, SetEntry, StartGoto, Starting
      <3> QED
        BY <3>1, <3>2
    <2>2. start[c] # "idle"
      BY <2>1 DEF Starting
    <2> QED
      BY <2>1, <2>2, StartsGoOn DEF Standing
  <1>2. CASE ~ Starting(c)'
    <2>1. PICK s \in Slots : /\ process'[s].role = "supervisor" /\ process'[s].conn = c
                             /\ process'[s].pc \notin {"end", "release"}
      BY <1>2 DEF Standing, Of
    <2>2. CASE Stay(s)
      <3>1. s \in Of("supervisor", c)
        BY <2>1, <2>2 DEF Stay, Of
      <3>2. process[s].pc \notin {"end", "release"}
        BY <2>1, <2>2 DEF Stay
      <3>3. start[c] # "idle"
        BY <2>1, <2>2, ConnectionAssumption DEF Stay, RoleInv, RoleOK
      <3> QED
        BY <3>1, <3>2, <3>3, StartsGoOn DEF Standing
    <2>3. CASE Appear(s)
      <3>1. ~ Begun(c)
        BY <2>1, <2>3, Appeared
      <3>2. Begun(c)'
        BY <2>1, RoleStep, ConnectionAssumption DEF RoleInv, RoleOK, Begun
      <3>3. start[c] = "supervisor"
        BY <3>1, <3>2, StartChanges
           DEF StartStep, StartSupervisor, StartReceiver, StartSender,
               StartFails, SetEntry, StartGoto, Begun
      <3> QED
        BY <3>3, StartsGoOn DEF Standing, Starting
    <2>4. CASE process'[s] = Free
      BY <2>1, <2>4 DEF Free
    <2> QED
      BY <2>2, <2>3, <2>4, SlotSteps DEF SlotStep
  <1> QED
    BY <1>1, <1>2

LEMMA OverlapStep ==
  ASSUME TypeOK, RoleInv, OverlapInv, [Next]_vars
  PROVE  OverlapInv'
  <1> SUFFICES ASSUME "overlap" \notin races', NEW c \in Connections, NEW u \in Connections,
                      Standing(c)', Standing(u)', node'[c] = node'[u]
               PROVE  c = u
    BY DEF OverlapInv, Apart
  <1>1. "overlap" \notin races
    BY RacesGrow
  <1>2. ASSUME NEW v \in Connections, NEW w \in Connections, NEW r \in Nodes, Accept(v, r),
               w # v, Standing(w)', node'[w] = node'[v]
        PROVE  FALSE
    <2>1. node'[v] = r /\ node'[w] = node[w] /\ UNCHANGED process
          /\ start'[w] = start[w]
      BY <1>2 DEF Accept, TypeOK
    <2>2. Standing(w)
      BY <1>2, <2>1 DEF Standing, Starting, Of
    <2>3. w \in To(r)
      BY <1>2, <2>1 DEF To
    <2> QED
      BY <1>2, <2>2, <2>3 DEF Accept
  <1>3. CASE \E v \in {c, u}, r \in Nodes : Accept(v, r)
    BY <1>2, <1>3
  <1>4. CASE ~ \E v \in {c, u}, r \in Nodes : Accept(v, r)
    BY <1>1, <1>4, StandingStep DEF OverlapInv, Apart
  <1> QED
    BY <1>3, <1>4
-----------------------------------------------------------------------------
(* What is in a queue, and who has put it there.                           *)

\* No message of queue q tells one of these results.
Silent(q, results) == \A i \in 1 .. Len(q) : q[i].error \notin results

\* At most one message of queue q tells a timeout.
OneTimeout(q) ==
  \A i, j \in 1 .. Len(q) : q[i].error = "TIMEOUT" /\ q[j].error = "TIMEOUT" => i = j

LEMMA SilentQueues ==
  ASSUME NEW q \in Seq(Message), NEW results
  PROVE  /\ Silent(<<>>, results)
         /\ q # <<>> /\ Silent(q, results) =>
              Silent(Tail(q), results) /\ Head(q).error \notin results
         /\ \A m \in Message : Silent(q, results) /\ m.error \notin results =>
                                 Silent(Append(q, m), results)
  <1>1. Silent(<<>>, results)
    BY DEF Silent
  <1>2. ASSUME q # <<>>, Silent(q, results)
        PROVE  Silent(Tail(q), results) /\ Head(q).error \notin results
    <2>1. /\ Len(q) \in Nat /\ Len(q) >= 1 /\ Head(q) = q[1]
          /\ Len(Tail(q)) = Len(q) - 1
          /\ \A i \in 1 .. Len(q) - 1 : Tail(q)[i] = q[i + 1]
      BY <1>2, LenProperties, HeadTailProperties, EmptySeq
    <2> QED
      BY <1>2, <2>1 DEF Silent
  <1>3. ASSUME NEW m \in Message, Silent(q, results), m.error \notin results
        PROVE  Silent(Append(q, m), results)
    <2>1. /\ Len(Append(q, m)) = Len(q) + 1 /\ Len(q) \in Nat
          /\ \A i \in 1 .. Len(q) : Append(q, m)[i] = q[i]
          /\ Append(q, m)[Len(q) + 1] = m
      BY AppendProperties, LenProperties
    <2> QED
      BY <1>3, <2>1 DEF Silent
  <1> QED
    BY <1>1, <1>2, <1>3

LEMMA TimeoutQueues ==
  ASSUME NEW q \in Seq(Message)
  PROVE  /\ Silent(q, {"TIMEOUT"}) => OneTimeout(q)
         /\ q # <<>> /\ OneTimeout(q) => OneTimeout(Tail(q))
         /\ q # <<>> /\ OneTimeout(q) /\ Head(q).error = "TIMEOUT" =>
              Silent(Tail(q), {"TIMEOUT"})
         /\ \A m \in Message :
              /\ Silent(q, {"TIMEOUT"}) => OneTimeout(Append(q, m))
              /\ OneTimeout(q) /\ m.error # "TIMEOUT" => OneTimeout(Append(q, m))
  <1>1. Silent(q, {"TIMEOUT"}) => OneTimeout(q)
    BY DEF Silent, OneTimeout
  <1>2. ASSUME q # <<>>, OneTimeout(q)
        PROVE  /\ OneTimeout(Tail(q))
               /\ Head(q).error = "TIMEOUT" => Silent(Tail(q), {"TIMEOUT"})
    <2>1. /\ Len(q) \in Nat /\ Len(q) >= 1 /\ Head(q) = q[1]
          /\ Len(Tail(q)) = Len(q) - 1
          /\ \A i \in 1 .. Len(q) - 1 : Tail(q)[i] = q[i + 1]
      BY <1>2, LenProperties, HeadTailProperties, EmptySeq
    <2> QED
      BY <1>2, <2>1 DEF Silent, OneTimeout
  <1>3. ASSUME NEW m \in Message
        PROVE  /\ Silent(q, {"TIMEOUT"}) => OneTimeout(Append(q, m))
               /\ OneTimeout(q) /\ m.error # "TIMEOUT" => OneTimeout(Append(q, m))
    <2>1. /\ Len(Append(q, m)) = Len(q) + 1 /\ Len(q) \in Nat
          /\ \A i \in 1 .. Len(q) : Append(q, m)[i] = q[i]
          /\ Append(q, m)[Len(q) + 1] = m
      BY AppendProperties, LenProperties
    <2> QED
      BY <2>1 DEF Silent, OneTimeout
  <1> QED
    BY <1>1, <1>2, <1>3

\* What happens to the queue of a process in a step.
Told(u, s) ==
  /\ End(s) /\ process[s].supervisor_pid = u
  /\ process'[u].queue = Append(process[u].queue, ErrorMessage(process[s].result))

Stopped(u, s) ==
  /\ StopSender(s) /\ remote_nodes[node[process[s].conn]] = u
  /\ process'[u].queue = Append(process[u].queue, Stop)

Used(u, r) ==
  /\ remote_nodes[r] = u
  /\ \/ Send(r) /\ process'[u].queue = Append(process[u].queue, MessageTo(r))
     \/ Disconnect(r) /\ process'[u].queue = Append(process[u].queue, Stop)

QueueStep(u) ==
  \/ process'[u].queue = process[u].queue
  \/ process[u].queue # <<>> /\ process'[u].queue = Tail(process[u].queue)
  \/ process'[u] = Free
  \/ \E s \in Slots : Told(u, s) \/ Stopped(u, s)
  \/ \E r \in Nodes : Used(u, r)

LEMMA Queues ==
  ASSUME TypeOK, RoleInv, [Next]_vars, NEW u \in Slots, process[u].role # "none"
  PROVE  QueueStep(u)
  <1> USE DEF QueueStep
  <1>0. process[u] # Free
    BY NotFree
  <1>1. ASSUME NEW s \in Slots, End(s)
        PROVE  QueueStep(u)
    <2> PICK d \in Slots \union {ACTOR_INVALID_ID} : d = process[s].supervisor_pid
      BY ProcessFields
    <2>1. PutAndOn(s, d, ErrorMessage(process[s].result), "release")
      <3>1. "release" \in Points /\ ErrorMessage(process[s].result) \in Message
        BY MessageTypes, ProcessFields DEF Points
      <3>2. process' = [Put(d, ErrorMessage(process[s].result)) EXCEPT ![s].pc = "release"]
        BY <1>1 DEF End
      <3> QED
        BY <3>1, <3>2, PutGoesOn
    <2>2. process'[u].queue = Given(d, ErrorMessage(process[s].result), u)
      BY <2>1 DEF PutAndOn
    <2> QED
      BY <1>0, <1>1, <2>2 DEF Given, Told
  <1>2. ASSUME NEW s \in Slots, StopSender(s)
        PROVE  QueueStep(u)
    <2> DEFINE d == remote_nodes[node[process[s].conn]]
    <2>1. PutAndOn(s, d, Stop, "invalidate")
      <3>1. "invalidate" \in Points /\ Stop \in Message
        BY MessageTypes DEF Points
      <3>2. process' = [Put(d, Stop) EXCEPT ![s].pc = "invalidate"]
        BY <1>2 DEF StopSender
      <3> HIDE DEF d
      <3> QED
        BY <3>1, <3>2, PutGoesOn
    <2>2. process'[u].queue = Given(d, Stop, u)
      BY <2>1 DEF PutAndOn
    <2> QED
      BY <1>0, <1>2, <2>2 DEF Given, Stopped
  <1>3. ASSUME NEW r \in Nodes, Send(r) \/ Disconnect(r)
        PROVE  QueueStep(u)
    <2>1. ASSUME NEW m \in Message, process' = Put(remote_nodes[r], m)
          PROVE  process'[u].queue = Given(remote_nodes[r], m, u)
      <3>1. PutIn(remote_nodes[r], m, process')
        BY <2>1, PutMoves
      <3> QED
        BY <3>1 DEF PutIn
    <2>2. CASE Send(r)
      <3>1. process'[u].queue = Given(remote_nodes[r], MessageTo(r), u)
        BY <2>1, <2>2, MessageTypes DEF Send
      <3> QED
        BY <1>0, <2>2, <3>1 DEF Given, Used
    <2>3. CASE Disconnect(r)
      <3>1. process'[u].queue = Given(remote_nodes[r], Stop, u)
        BY <2>1, <2>3, MessageTypes DEF Disconnect
      <3> QED
        BY <1>0, <2>3, <3>1 DEF Given, Used
    <2> QED
      BY <1>3, <2>2, <2>3
  <1>4. CASE ProcessStep(u) \/ Unforced(u)
    <2>1. CASE Link(u) \/ Relink(u)
      <3> PICK d \in Slots \union {ACTOR_INVALID_ID} : LinkTo(u, d)
        BY <2>1, LinkType
      <3> QED
        BY LinkMoves DEF Moved
    <2>2. CASE \/ ReceiveClosed(u) \/ ReceiveEmpty(u) \/ SenderTimeout(u)
               \/ Invalidate(u) \/ UserReturns(u) \/ SetRestarted(u) \/ Shutdown(u)
      BY <2>2, Effects DEF Returned, On, Moved
    <2>3. CASE \/ SenderStop(u) \/ TransmitFails(u) \/ Transmit(u) \/ Ignore(u)
               \/ UserReceives(u) \/ RestartFails(u) \/ Break(u)
      <3>1. process[u].queue # <<>>
        BY <2>3 DEF SenderStop, TransmitFails, Transmit, Takes, Ignore, Supervise,
                    UserReceives, RestartFails, Break, BreakOn
      <3>2. process'[u].queue = Tail(process[u].queue)
        BY <2>3, Effects DEF Took, TookAndReturned, Moved
      <3> QED
        BY <3>1, <3>2
    <2>4. CASE Restart(u)
      BY <2>4, RestartMoves DEF Restart, RestartOn, Supervise
    <2>5. CASE Release(u)
      BY <2>5 DEF Release, TypeOK
    <2> QED
      BY <1>1, <1>2, <1>4, <2>1, <2>2, <2>3, <2>4, <2>5
         DEF ProcessStep, SenderStep, SupervisorStep, Unforced
  <1>5. ASSUME process'[u] = process[u]
        PROVE  QueueStep(u)
    BY <1>5
  <1>6. ASSUME NEW s \in Slots, s # u, ProcessStep(s) \/ Unforced(s)
        PROVE  QueueStep(u)
    <2>1. CASE Restart(s)
      <3>1. process'[u] = process[u]
        BY <1>0, <1>6, <2>1, RestartMoves DEF Restart
      <3> QED
        BY <3>1
    <2>2. CASE Release(s)
      <3>1. process'[u] = process[u]
        BY <1>6, <2>2 DEF Release, TypeOK
      <3> QED
        BY <3>1
    <2>3. CASE ~ (Restart(s) \/ Release(s) \/ End(s) \/ StopSender(s))
      <3>1. process'[u] = process[u]
        BY <1>6, <2>3, ProcessMoves DEF Moved, ProcessStep, SenderStep, SupervisorStep
      <3> QED
        BY <3>1
    <2> QED
      BY <1>1, <1>2, <2>1, <2>2, <2>3
  <1>7. ASSUME NEW role \in Roles, NEW c \in Connections \union {NULL}, NEW point \in Points,
               Spawn(role, c, point)
        PROVE  QueueStep(u)
    <2>1. /\ FreeSlot \in Slots /\ process[FreeSlot] = Free
          /\ process' = [process EXCEPT ![FreeSlot] = New(role, c, point)]
      BY <1>7, SpawnStarts
    <2>2. process'[u] = process[u]
      BY <1>0, <2>1 DEF TypeOK
    <2> QED
      BY <2>2
  <1>8. CASE \/ \E c \in Connections : StartStep(c) \/ PeerCloses(c)
             \/ \E c \in Connections, r \in Nodes : Accept(c, r)
             \/ SpawnUser \/ UNCHANGED vars
    <2>1. /\ {"user", "supervisor", "receiver", "sender"} \subseteq Roles
          /\ {"link", "loop"} \subseteq Points
      BY DEF Roles, Points
    <2>2. CASE \/ \E c \in Connections :
                    StartFails(c) \/ SetEntry(c) \/ PeerCloses(c)
               \/ \E c \in Connections, r \in Nodes : Accept(c, r)
               \/ UNCHANGED vars
      BY <2>2 DEF StartFails, SetEntry, PeerCloses, Accept, vars
    <2>3. CASE \/ \E c \in Connections :
                    StartSupervisor(c) \/ StartReceiver(c) \/ StartSender(c)
               \/ SpawnUser
      BY <1>7, <2>1, <2>3 DEF StartSupervisor, StartReceiver, StartSender, SpawnUser
    <2> QED
      BY <1>8, <2>2, <2>3 DEF StartStep
  <1> QED
    BY <1>3, <1>4, <1>6, <1>8 DEF Next, Unforced
-----------------------------------------------------------------------------
(* One sender: what keeps a connection going is one sender, or one report  *)
(* that it has timed out.                                                  *)

\* The process in slot s is a sender that works, or has timed out and has not
\* said so yet.
Live(s) ==
  /\ process[s].role = "sender"
  /\ \/ process[s].pc \in {"link", "relink", "loop"}
     \/ process[s].pc = "end" /\ process[s].result = "TIMEOUT"

\* How a sender comes into slot s: with its connection, or by the supervisor in
\* slot w.
Begins(s) ==
  /\ StartSender(process'[s].conn)
  /\ \A q \in Slots : q # s => process'[q] = process[q]

BeginsAgain(s, w) ==
  /\ Restart(w) /\ w # s /\ process[w].conn = process'[s].conn
  /\ process'[w].role = process[w].role /\ process'[w].conn = process[w].conn
  /\ process'[w].queue = Tail(process[w].queue)
  /\ \A q \in Slots : q # s /\ q # w => process'[q] = process[q]

LEMMA SenderComes ==
  ASSUME TypeOK, RoleInv, [Next]_vars, NEW s \in Slots,
         process[s].role = "none", process'[s].role = "sender"
  PROVE  Begins(s) \/ \E w \in Slots : BeginsAgain(s, w)
  <1>1. ASSUME NEW role \in Roles, NEW c \in Connections \union {NULL}, NEW point \in Points,
               Spawn(role, c, point)
        PROVE  /\ role = "sender" /\ process'[s].conn = c
               /\ \A q \in Slots : q # s => process'[q] = process[q]
    <2>1. /\ FreeSlot \in Slots /\ process[FreeSlot] = Free
          /\ process' = [process EXCEPT ![FreeSlot] = New(role, c, point)]
      BY <1>1, SpawnStarts
    <2> PICK f \in Slots : process' = [process EXCEPT ![f] = New(role, c, point)]
      BY <2>1
    <2>2. \A q \in Slots :
            process'[q] = IF q = f THEN New(role, c, point) ELSE process[q]
      BY DEF TypeOK
    <2>3. s = f
      BY <2>2
    <2>4. process'[s].role = role /\ process'[s].conn = c
      BY <2>2, <2>3 DEF New
    <2> QED
      BY <2>2, <2>3, <2>4
  <1>2. /\ {"user", "supervisor", "receiver", "sender"} \subseteq Roles
        /\ {"link", "loop"} \subseteq Points
    BY DEF Roles, Points
  <1>3. ASSUME NEW c \in Connections, StartStep(c)
        PROVE  Begins(s)
    <2>1. ~ (StartFails(c) \/ SetEntry(c))
      BY DEF StartFails, SetEntry
    <2>2. ~ (StartSupervisor(c) \/ StartReceiver(c))
      BY <1>1, <1>2 DEF StartSupervisor, StartReceiver
    <2>3. StartSender(c)
      BY <1>3, <2>1, <2>2 DEF StartStep
    <2> QED
      BY <1>1, <1>2, <2>3 DEF StartSender, Begins
  <1>4. ~ SpawnUser
    BY <1>1, <1>2 DEF SpawnUser
  <1>5. ASSUME NEW w \in Slots, Restart(w)
        PROVE  BeginsAgain(s, w)
    <2> PICK f \in Slots :
           /\ process[f] = Free /\ f # w
           /\ \A u \in Slots : u # w /\ u # f => process'[u] = process[u]
           /\ process'[f] = New("sender", process[w].conn, "relink")
           /\ process'[w].role = process[w].role /\ process'[w].conn = process[w].conn
           /\ process'[w].queue = Tail(process[w].queue)
      BY <1>5, RestartMoves DEF Restart
    <2>1. s = f
      OBVIOUS
    <2>2. process'[s].conn = process[w].conn
      BY <2>1 DEF New
    <2> QED
      BY <1>5, <2>1, <2>2 DEF BeginsAgain
  <1>6. ASSUME NEW w \in Slots, ProcessStep(w) \/ Unforced(w)
        PROVE  BeginsAgain(s, w)
    <2>1. CASE Release(w)
      <3>1. process'[s] = IF s = w THEN Free ELSE process[s]
        BY <2>1 DEF Release, TypeOK
      <3> QED
        BY <3>1 DEF Free
    <2>2. CASE StopSender(w) \/ End(w)
      <3> PICK d \in {process[w].supervisor_pid, remote_nodes[node[process[w].conn]]},
               m \in Message, point \in {"invalidate", "release"} :
             process' = [Put(d, m) EXCEPT ![w].pc = point]
        BY <2>2, MessageTypes, ProcessFields DEF StopSender, End
      <3>1. PutAndOn(w, d, m, point)
        <4>1. point \in Points
          BY DEF Points
        <4> QED
          BY <4>1, PutGoesOn
      <3> QED
        BY <3>1 DEF PutAndOn
    <2>3. CASE ~ (Release(w) \/ StopSender(w) \/ End(w) \/ Restart(w))
      <3>1. \A q \in Slots : process'[q].role = process[q].role
        BY <1>6, <2>3, ProcessMoves DEF Moved, ProcessStep, SenderStep, SupervisorStep
      <3> QED
        BY <3>1
    <2> QED
      BY <1>5, <2>1, <2>2, <2>3
  <1>7. ~ \E r \in Nodes : Send(r) \/ Disconnect(r)
    <2> SUFFICES ASSUME NEW r \in Nodes, Send(r) \/ Disconnect(r)
                 PROVE  FALSE
      OBVIOUS
    <2>1. \E m \in Message : process' = Put(remote_nodes[r], m)
      BY MessageTypes DEF Send, Disconnect
    <2> PICK m \in Message : process' = Put(remote_nodes[r], m)
      BY <2>1
    <2>2. PutIn(remote_nodes[r], m, process')
      BY PutMoves
    <2> QED
      BY <2>2 DEF PutIn
  <1>8. ~ (\/ \E c \in Connections : PeerCloses(c)
           \/ \E c \in Connections, r \in Nodes : Accept(c, r)
           \/ UNCHANGED vars)
    BY DEF PeerCloses, Accept, vars
  <1> QED
    BY <1>3, <1>4, <1>6, <1>7, <1>8 DEF Next, Unforced

\* What is live was live, or has just begun.
LEMMA LiveStep ==
  ASSUME TypeOK, RoleInv, [Next]_vars, NEW s \in Slots, Live(s)'
  PROVE  \/ Live(s) /\ process[s].conn = process'[s].conn
         \/ Begins(s)
         \/ \E w \in Slots : BeginsAgain(s, w)
  <1>1. process'[s].role = "sender" /\ process'[s] # Free
    BY DEF Live, Free
  <1>2. CASE process[s].role = "none"
    BY <1>1, <1>2, SenderComes
  <1>3. CASE process[s].role # "none"
    <2>1. Stay(s)
      BY <1>1, <1>3, SlotSteps, Appeared DEF SlotStep
    <2>2. process[s].role = "sender" /\ process[s].conn = process'[s].conn
      BY <1>1, <2>1 DEF Stay
    <2>3. Place("sender", process[s].pc)
      BY <2>2 DEF RoleInv, RoleOK
    <2>4. process[s].pc \notin {"end", "release"} => Live(s)
      BY <2>2, <2>3 DEF Live, Place
    <2>5. CASE process[s].pc = "release"
      BY <2>1, <2>5 DEF Stay, Live
    <2>6. CASE process[s].pc = "end"
      <3>1. process'[s].pc \in {"end", "release"}
        BY <2>1, <2>6 DEF Stay
      <3>2. CASE Bystander(s)
        BY <2>2, <2>6, <3>2 DEF Bystander, Live
      <3>3. CASE ~ Bystander(s)
        <4>1. End(s)
          <5>1. ~ Appear(s)
            BY <1>3, Appeared
          <5> QED
            BY <2>2, <2>6, <3>3, <5>1, Owner
               DEF OwnStep, ProcessStep, Link, ReceiveClosed, ReceiveEmpty,
                   Receiving, SenderStep, Relink, SenderTimeout, SenderStop,
                   Transmit, TransmitFails, Takes, Sending, SupervisorStep,
                   Ignore, Restart, RestartOn, RestartFails, SetRestarted,
                   Break, BreakOn, Supervise, Shutdown, StopSender, Invalidate,
                   Release, Unforced, UserReceives, UserReturns
        <4>2. process'[s].pc = "release"
          <5> PICK d \in {process[s].supervisor_pid}, m \in Message :
                 process' = [Put(d, m) EXCEPT ![s].pc = "release"]
            BY <4>1, MessageTypes, ProcessFields DEF End
          <5>1. PutAndOn(s, d, m, "release")
            BY PutGoesOn DEF Points
          <5> QED
            BY <5>1 DEF PutAndOn
        <4> QED
          BY <4>2 DEF Live
      <3> QED
        BY <3>2, <3>3
    <2> QED
      BY <2>2, <2>4, <2>5, <2>6
  <1> QED
    BY <1>2, <1>3

OneLive(s, u) ==
  Live(s) /\ Live(u) /\ process[s].conn = process[u].conn => s = u

OneReport(u) == process[u].role = "supervisor" => OneTimeout(process[u].queue)

LiveOrReport(s, u) ==
  Live(s) /\ process[u].role = "supervisor" /\ process[s].conn = process[u].conn
    => Silent(process[u].queue, {"TIMEOUT"})

NotYet(s) ==
  process[s].conn # NULL
    /\ start[process[s].conn] \in {"idle", "supervisor", "receiver", "sender"} =>
      /\ ~ Live(s)
      /\ process[s].role = "supervisor" => Silent(process[s].queue, {"TIMEOUT"})

TokenInv ==
  "misdirected" \notin races =>
    /\ \A s, u \in Slots : OneLive(s, u) /\ LiveOrReport(s, u)
    /\ \A u \in Slots : OneReport(u) /\ NotYet(u)

\* Who tells a process of its end, if nothing goes astray: a receiver or a sender
\* of its connection, which is not live any more.
LEMMA Teller ==
  ASSUME TypeOK, RoleInv, [Next]_vars, "misdirected" \notin races',
         NEW u \in Slots, process[u].conn # NULL, NEW s \in Slots, Told(u, s)
  PROVE  /\ process[s].role \in {"receiver", "sender"} /\ process[s].pc = "end"
         /\ process[s].conn = process[u].conn /\ process[s].supervisor_pid = u
         /\ process[s].result = "TIMEOUT" => Live(s)
         /\ ~ Live(s)'
  <1>1. process[s].pc = "end" /\ process[s].supervisor_pid = u
    BY DEF Told, End
  <1>2. u # ACTOR_INVALID_ID
    BY DEF Slots, ACTOR_INVALID_ID
  <1>3. /\ process[s].role \in {"receiver", "sender"}
        /\ process[s].role = "receiver" => process[s].result = "NETWORK"
    <2>1. RoleOK(s) /\ process[s].role \in Roles
      BY ProcessFields DEF RoleInv
    <2> QED
      BY <1>1, <1>2, <2>1 DEF RoleOK, Place, Roles
  <1>4. process[u].conn \in {process[s].conn, NULL}
    <2>1. NoteAstray(u, {process[s].conn})
      BY <1>1 DEF Told, End
    <2> QED
      BY <2>1 DEF NoteAstray, Astray
  <1>6. ~ Live(s)'
    <2> PICK m \in Message : process' = [Put(u, m) EXCEPT ![s].pc = "release"]
      BY <1>1, MessageTypes, ProcessFields DEF Told, End
    <2>1. PutAndOn(s, u, m, "release")
      BY PutGoesOn DEF Points
    <2> QED
      BY <2>1 DEF PutAndOn, Live
  <1> QED
    BY <1>1, <1>3, <1>4, <1>6 DEF Live

\* What a step does to the reports of timeouts in the queue of a supervisor.
LEMMA Reports ==
  ASSUME TypeOK, RoleInv, [Next]_vars, "misdirected" \notin races',
         NEW u \in Slots, process[u].role = "supervisor",
         process'[u].role = "supervisor"
  PROVE  \/ /\ Silent(process[u].queue, {"TIMEOUT"}) =>
                 Silent(process'[u].queue, {"TIMEOUT"})
            /\ OneTimeout(process[u].queue) => OneTimeout(process'[u].queue)
         \/ /\ \E s \in Slots : /\ Live(s) /\ ~ Live(s)'
                                /\ process[s].conn = process[u].conn
            /\ Silent(process[u].queue, {"TIMEOUT"}) => OneTimeout(process'[u].queue)
  <1> DEFINE q == process[u].queue
  <1>1. q \in Seq(Message)
    BY ProcessFields
  <1>2. ASSUME NEW m \in Message, process'[u].queue = Append(q, m), m.error # "TIMEOUT"
        PROVE  /\ Silent(q, {"TIMEOUT"}) => Silent(process'[u].queue, {"TIMEOUT"})
               /\ OneTimeout(q) => OneTimeout(process'[u].queue)
    BY <1>1, <1>2, SilentQueues, TimeoutQueues
  <1>3. CASE process'[u].queue = q
    BY <1>3
  <1>4. CASE q # <<>> /\ process'[u].queue = Tail(q)
    BY <1>1, <1>4, SilentQueues, TimeoutQueues
  <1>5. ASSUME NEW s \in Slots, Told(u, s)
        PROVE  \/ /\ Silent(q, {"TIMEOUT"}) => Silent(process'[u].queue, {"TIMEOUT"})
                  /\ OneTimeout(q) => OneTimeout(process'[u].queue)
               \/ /\ Live(s) /\ ~ Live(s)' /\ process[s].conn = process[u].conn
                  /\ Silent(q, {"TIMEOUT"}) => OneTimeout(process'[u].queue)
    <2> PICK m \in Message : m = ErrorMessage(process[s].result)
      BY MessageTypes, ProcessFields
    <2>1. process'[u].queue = Append(q, m) /\ m.error = process[s].result
      BY <1>5 DEF Told, ErrorMessage
    <2>2. CASE process[s].result # "TIMEOUT"
      BY <1>2, <2>1, <2>2
    <2>3. CASE process[s].result = "TIMEOUT"
      <3>1. Live(s) /\ ~ Live(s)' /\ process[s].conn = process[u].conn
        <4>1. process[u].conn # NULL
          BY DEF RoleInv, RoleOK
        <4> QED
          BY <1>5, <2>3, <4>1, Teller
      <3>2. Silent(q, {"TIMEOUT"}) => OneTimeout(process'[u].queue)
        BY <1>1, <2>1, TimeoutQueues
      <3> QED
        BY <3>1, <3>2
    <2> QED
      BY <2>2, <2>3
  <1>6. CASE \/ \E s \in Slots : Stopped(u, s)
             \/ \E r \in Nodes : Used(u, r)
    <2>1. \E m \in Message : process'[u].queue = Append(q, m) /\ m.error # "TIMEOUT"
      <3>1. Stop.error # "TIMEOUT" /\ \A r \in Nodes : MessageTo(r).error # "TIMEOUT"
        BY DEF Stop, MessageTo
      <3> QED
        BY <1>6, <3>1, MessageTypes DEF Stopped, Used
    <2> QED
      BY <1>2, <2>1
  <1>7. process'[u] # Free
    BY DEF Free
  <1> QED
    BY <1>3, <1>4, <1>5, <1>6, <1>7, Queues DEF QueueStep

LEMMA OneLiveStep ==
  ASSUME TypeOK, RoleInv, SupervisorInv, TokenInv, [Next]_vars,
         "misdirected" \notin races', NEW s \in Slots, NEW u \in Slots
  PROVE  OneLive(s, u)'
  <1> SUFFICES ASSUME Live(s)', Live(u)', process'[s].conn = process'[u].conn, s # u
               PROVE  FALSE
    BY DEF OneLive
  <1>1. "misdirected" \notin races
    BY RacesGrow
  <1>2. ASSUME NEW x \in Slots, NEW y \in Slots, x # y, Live(y)', Begins(x),
               process'[x].conn = process'[y].conn
        PROVE  FALSE
    <2>1. Live(y) /\ process[y].conn = process'[x].conn
      BY <1>2 DEF Begins, Live
    <2>2. start[process'[x].conn] = "sender"
      BY <1>2 DEF Begins, StartSender, StartGoto
    <2>3. process[y].conn # NULL
      BY <2>1 DEF Live, RoleInv, RoleOK
    <2> QED
      BY <1>1, <2>1, <2>2, <2>3 DEF TokenInv, NotYet
  <1>3. ASSUME NEW x \in Slots, NEW y \in Slots, NEW w \in Slots, x # y, Live(y)',
               BeginsAgain(x, w), process'[x].conn = process'[y].conn
        PROVE  FALSE
    <2>1. process[w].role = "supervisor" /\ process[w].queue # <<>>
          /\ Head(process[w].queue).error = "TIMEOUT"
      BY <1>3 DEF BeginsAgain, Restart, RestartOn, Supervise
    <2>2. y # w
      BY <1>3, <2>1 DEF BeginsAgain, Live
    <2>3. Live(y) /\ process[y].conn = process[w].conn
      BY <1>3, <2>2 DEF BeginsAgain, Live
    <2>4. Silent(process[w].queue, {"TIMEOUT"})
      BY <1>1, <2>1, <2>3 DEF TokenInv, LiveOrReport
    <2>5. Head(process[w].queue).error \notin {"TIMEOUT"}
      BY <2>1, <2>4, ProcessFields, SilentQueues
    <2> QED
      BY <2>1, <2>5
  <1>4. CASE /\ Live(s) /\ process[s].conn = process'[s].conn
             /\ Live(u) /\ process[u].conn = process'[u].conn
    BY <1>1, <1>4 DEF TokenInv, OneLive
  <1> QED
    BY <1>2, <1>3, <1>4, LiveStep

\* The supervisor of a connection is one, and a queue that is there stays the
\* queue of it.
LEMMA SupervisorStays ==
  ASSUME TypeOK, RoleInv, [Next]_vars, NEW u \in Slots, process'[u].role = "supervisor"
  PROVE  \/ process[u].role = "supervisor" /\ process[u].conn = process'[u].conn
         \/ process[u].role = "none" /\ process'[u].queue = <<>> /\ ~ Begun(process'[u].conn)
  <1>1. process'[u] # Free
    BY DEF Free
  <1> QED
    BY <1>1, SlotSteps, Appeared DEF SlotStep, Stay

LEMMA OneReportStep ==
  ASSUME TypeOK, RoleInv, TokenInv, [Next]_vars, "misdirected" \notin races',
         NEW u \in Slots
  PROVE  OneReport(u)'
  <1> SUFFICES ASSUME process'[u].role = "supervisor"
               PROVE  OneTimeout(process'[u].queue)
    BY DEF OneReport
  <1>1. "misdirected" \notin races
    BY RacesGrow
  <1>2. CASE process'[u].queue = <<>>
    BY <1>2 DEF OneTimeout
  <1>3. CASE process[u].role = "supervisor"
    <2>1. OneTimeout(process[u].queue)
      BY <1>1, <1>3 DEF TokenInv, OneReport
    <2>2. ASSUME NEW s \in Slots, Live(s), process[s].conn = process[u].conn
          PROVE  Silent(process[u].queue, {"TIMEOUT"})
      BY <1>1, <1>3, <2>2 DEF TokenInv, LiveOrReport
    <2> QED
      BY <1>3, <2>1, <2>2, Reports
  <1> QED
    BY <1>2, <1>3, SupervisorStays

LEMMA LiveOrReportStep ==
  ASSUME TypeOK, RoleInv, SupervisorInv, TokenInv, [Next]_vars,
         "misdirected" \notin races', NEW s \in Slots, NEW u \in Slots
  PROVE  LiveOrReport(s, u)'
  <1> SUFFICES ASSUME Live(s)', process'[u].role = "supervisor",
                      process'[s].conn = process'[u].conn
               PROVE  Silent(process'[u].queue, {"TIMEOUT"})
    BY DEF LiveOrReport
  <1>1. "misdirected" \notin races /\ s # u
    BY RacesGrow DEF Live
  <1>2. CASE process'[u].queue = <<>>
    BY <1>2 DEF Silent
  <1>3. ASSUME process[u].role = "supervisor", process[u].conn = process'[u].conn,
               Live(s), process[s].conn = process'[s].conn
        PROVE  Silent(process'[u].queue, {"TIMEOUT"})
    <2>1. Silent(process[u].queue, {"TIMEOUT"})
      BY <1>1, <1>3 DEF TokenInv, LiveOrReport
    <2>2. ~ \E x \in Slots : Live(x) /\ ~ Live(x)' /\ process[x].conn = process[u].conn
      BY <1>1, <1>3 DEF TokenInv, OneLive
    <2> QED
      BY <1>3, <2>1, <2>2, Reports
  <1>4. ASSUME process[u].role = "supervisor", process[u].conn = process'[u].conn,
               Begins(s)
        PROVE  Silent(process'[u].queue, {"TIMEOUT"})
    <2>1. process'[u] = process[u] /\ start[process'[s].conn] = "sender"
      BY <1>1, <1>4 DEF Begins, StartSender, StartGoto
    <2>2. process[u].conn # NULL
      BY <1>4 DEF RoleInv, RoleOK
    <2> QED
      BY <1>1, <1>4, <2>1, <2>2 DEF TokenInv, NotYet
  <1>5. ASSUME process[u].role = "supervisor", process[u].conn = process'[u].conn,
               NEW w \in Slots, BeginsAgain(s, w)
        PROVE  Silent(process'[u].queue, {"TIMEOUT"})
    <2>1. /\ process[w].role = "supervisor" /\ process[w].queue # <<>>
          /\ Head(process[w].queue).error = "TIMEOUT"
      BY <1>5 DEF BeginsAgain, Restart, RestartOn, Supervise
    <2>2. u = w
      BY <1>5, <2>1 DEF BeginsAgain, SupervisorInv, SupervisorOK
    <2>3. OneTimeout(process[w].queue)
      BY <1>1, <2>1 DEF TokenInv, OneReport
    <2>4. process'[u].queue = Tail(process[u].queue)
      BY <1>5, <2>2 DEF BeginsAgain
    <2> QED
      BY <2>1, <2>2, <2>3, <2>4, ProcessFields, TimeoutQueues
  <1> QED
    BY <1>2, <1>3, <1>4, <1>5, SupervisorStays, LiveStep

\* start_connectors does not go back.
LEMMA StartsBefore ==
  ASSUME TypeOK, [Next]_vars, NEW c \in Connections,
         start'[c] \in {"idle", "supervisor", "receiver", "sender"}
  PROVE  start[c] \in {"idle", "supervisor", "receiver", "sender"}
  <1>1. CASE start'[c] = start[c]
    BY <1>1
  <1>2. CASE start'[c] # start[c]
    BY <1>2, StartChanges
       DEF StartStep, StartSupervisor, StartReceiver, StartSender, StartFails, SetEntry,
           StartGoto, Accept, TypeOK
  <1> QED
    BY <1>1, <1>2

LEMMA NotYetStep ==
  ASSUME TypeOK, RoleInv, SupervisorInv, TokenInv, [Next]_vars,
         "misdirected" \notin races', NEW s \in Slots
  PROVE  NotYet(s)'
  <1> SUFFICES ASSUME process'[s].conn # NULL,
                      start'[process'[s].conn] \in {"idle", "supervisor", "receiver", "sender"}
               PROVE  /\ ~ Live(s)'
                      /\ process'[s].role = "supervisor" =>
                           Silent(process'[s].queue, {"TIMEOUT"})
    BY DEF NotYet
  <1>1. "misdirected" \notin races
    BY RacesGrow
  <1> PICK c \in Connections : c = process'[s].conn
    <2>1. TypeOK'
      BY TypeStep
    <2>2. process'[s].conn \in Connections \union {NULL}
      BY <2>1 DEF TypeOK, Process
    <2> QED
      BY <2>2
  <1>2. start[c] \in {"idle", "supervisor", "receiver", "sender"} /\ c # NULL
    BY StartsBefore, ConnectionAssumption
  <1>3. ~ Live(s)'
    <2>1. CASE Live(s) /\ process[s].conn = process'[s].conn
      BY <1>1, <1>2, <2>1 DEF TokenInv, NotYet
    <2>2. CASE Begins(s)
      BY <2>2 DEF Begins, StartSender, StartGoto, TypeOK
    <2>3. ASSUME NEW w \in Slots, BeginsAgain(s, w)
          PROVE  FALSE
      <3>1. /\ process[w].role = "supervisor" /\ process[w].queue # <<>>
            /\ Head(process[w].queue).error = "TIMEOUT" /\ process[w].conn = c
        BY <2>3 DEF BeginsAgain, Restart, RestartOn, Supervise
      <3>2. Silent(process[w].queue, {"TIMEOUT"})
        BY <1>1, <1>2, <3>1 DEF TokenInv, NotYet
      <3>3. Head(process[w].queue).error \notin {"TIMEOUT"}
        BY <3>1, <3>2, ProcessFields, SilentQueues
      <3> QED
        BY <3>1, <3>3
    <2> QED
      BY <2>1, <2>2, <2>3, LiveStep
  <1>4. ASSUME process'[s].role = "supervisor"
        PROVE  Silent(process'[s].queue, {"TIMEOUT"})
    <2>1. CASE process'[s].queue = <<>>
      BY <2>1 DEF Silent
    <2>2. CASE process[s].role = "supervisor" /\ process[s].conn = process'[s].conn
      <3>1. Silent(process[s].queue, {"TIMEOUT"})
        BY <1>1, <1>2, <2>2 DEF TokenInv, NotYet
      <3>2. ~ \E x \in Slots : Live(x) /\ process[x].conn = process[s].conn
        BY <1>1, <1>2, <2>2 DEF TokenInv, NotYet
      <3> QED
        BY <1>4, <2>2, <3>1, <3>2, Reports
    <2> QED
      BY <1>4, <2>1, <2>2, SupervisorStays
  <1> QED
    BY <1>3, <1>4

LEMMA TokenStep ==
  ASSUME TypeOK, RoleInv, SupervisorInv, TokenInv, [Next]_vars
  PROVE  TokenInv'
  BY OneLiveStep, OneReportStep, LiveOrReportStep, NotYetStep DEF TokenInv
-----------------------------------------------------------------------------
(* A connection is shut down only when somebody has asked for it.          *)

\* The peer has closed c, its sender was told to stop, an empty message went
\* over it, or it could not be started in full.
Justified(c) == c \in doomed \/ sock[c] = "closed"

\* No message of queue q is for this node itself.
Foreign(q) == \A i \in 1 .. Len(q) : q[i].nid # Local

SockOK(c) == sock[c] \in {"peer_closed", "shutdown"} => c \in doomed

\* The supervisor in slot s has not been told that a process has ended for good.
Calm(s) ==
  /\ process[s].role = "supervisor" /\ process[s].pc \in {"loop", "set"}
  /\ Silent(process[s].queue, {"SUCCESS", "NETWORK"})

Watched(c) ==
  Begun(c) /\ ~ Justified(c) => \E s \in Slots : Calm(s) /\ process[s].conn = c

Unhurt(s) ==
  process[s].conn # NULL /\ ~ Justified(process[s].conn) =>
    /\ process[s].role \in {"receiver", "sender"} /\ process[s].pc = "end" =>
         process[s].result = "TIMEOUT"
    /\ process[s].role = "sender" => Foreign(process[s].queue)

JustInv ==
  "misdirected" \notin races =>
    /\ \A c \in Connections : SockOK(c) /\ Watched(c)
    /\ \A s \in Slots : Unhurt(s)

LEMMA ForeignQueues ==
  ASSUME NEW q \in Seq(Message)
  PROVE  /\ q # <<>> /\ Foreign(q) => Foreign(Tail(q)) /\ Head(q).nid # Local
         /\ \A m \in Message : Foreign(q) /\ m.nid # Local => Foreign(Append(q, m))
  <1>1. ASSUME q # <<>>, Foreign(q)
        PROVE  Foreign(Tail(q)) /\ Head(q).nid # Local
    <2>1. /\ Len(q) \in Nat /\ Len(q) >= 1 /\ Head(q) = q[1]
          /\ Len(Tail(q)) = Len(q) - 1
          /\ \A i \in 1 .. Len(q) - 1 : Tail(q)[i] = q[i + 1]
      BY <1>1, LenProperties, HeadTailProperties, EmptySeq
    <2> QED
      BY <1>1, <2>1 DEF Foreign
  <1>2. ASSUME NEW m \in Message, Foreign(q), m.nid # Local
        PROVE  Foreign(Append(q, m))
    <2>1. /\ Len(Append(q, m)) = Len(q) + 1 /\ Len(q) \in Nat
          /\ \A i \in 1 .. Len(q) : Append(q, m)[i] = q[i]
          /\ Append(q, m)[Len(q) + 1] = m
      BY AppendProperties, LenProperties
    <2> QED
      BY <1>2, <2>1 DEF Foreign
  <1> QED
    BY <1>1, <1>2

\* Who changes the socket of a connection.
LEMMA SockChanges ==
  ASSUME TypeOK, RoleInv, [Next]_vars, NEW c \in Connections, sock'[c] # sock[c]
  PROVE  \/ StartFails(c) /\ sock'[c] = "closed"
         \/ start[c] = "idle" /\ sock'[c] = "open"
         \/ sock[c] = "open" /\ sock'[c] = "peer_closed" /\ c \in doomed'
         \/ \E s \in Slots : /\ Shutdown(s) /\ process[s].conn = c
                             /\ sock[c] # "closed" /\ sock'[c] = "shutdown"
  <1>1. ASSUME NEW u \in Connections, StartStep(u)
        PROVE  StartFails(c) /\ sock'[c] = "closed"
    <2>1. StartFails(u)
      BY <1>1 DEF StartStep, StartSupervisor, StartReceiver, StartSender, SetEntry
    <2>2. sock' = [sock EXCEPT ![u] = "closed"]
      BY <2>1 DEF StartFails
    <2> QED
      BY <2>1, <2>2 DEF TypeOK
  <1>2. ASSUME NEW u \in Connections, NEW r \in Nodes, Accept(u, r)
        PROVE  start[c] = "idle" /\ sock'[c] = "open"
    BY <1>2 DEF Accept, TypeOK
  <1>3. ASSUME NEW u \in Connections, PeerCloses(u)
        PROVE  sock[c] = "open" /\ sock'[c] = "peer_closed" /\ c \in doomed'
    BY <1>3 DEF PeerCloses, TypeOK
  <1>4. ASSUME NEW s \in Slots, Shutdown(s)
        PROVE  /\ process[s].conn = c
               /\ sock[c] # "closed" /\ sock'[c] = "shutdown"
    BY <1>4 DEF Shutdown, TypeOK
  <1>5. ASSUME NEW s \in Slots, ProcessStep(s) \/ Unforced(s)
        PROVE  Shutdown(s)
    BY <1>5 DEF ProcessStep, SenderStep, SupervisorStep, Unforced, Link,
                Relink, LinkTo, ReceiveClosed, ReceiveEmpty, Receiving,
                SenderTimeout, SenderStop, Transmit, TransmitFails, Ignore,
                Restart, RestartOn, RestartFails, SetRestarted, Break, BreakOn,
                StopSender, Invalidate, End, Release, UserReceives,
                UserReturns, connVars, startVars
  <1>6. ~ (\E r \in Nodes : Send(r) \/ Disconnect(r)) /\ ~ SpawnUser /\ ~ UNCHANGED vars
    BY DEF Send, Disconnect, SpawnUser, connVars, startVars, vars
  <1> QED
    BY <1>1, <1>2, <1>3, <1>4, <1>5, <1>6 DEF Next, Unforced

LEMMA DoomedGrow ==
  ASSUME TypeOK, [Next]_vars
  PROVE  doomed \subseteq doomed'
  <1>1. ASSUME NEW s \in Slots, ProcessStep(s) \/ Unforced(s)
        PROVE  doomed \subseteq doomed'
    BY <1>1 DEF ProcessStep, SenderStep, SupervisorStep, Unforced, Link,
                Relink, LinkTo, ReceiveClosed, ReceiveEmpty, Receiving,
                SenderTimeout, SenderStop, Transmit, TransmitFails, Ignore,
                Restart, RestartOn, RestartFails, SetRestarted, Break, BreakOn,
                Shutdown, StopSender, Invalidate, End, Release, UserReceives,
                UserReturns, connVars, startVars
  <1>2. ASSUME NEW c \in Connections, StartStep(c) \/ PeerCloses(c)
        PROVE  doomed \subseteq doomed'
    BY <1>2 DEF StartStep, StartSupervisor, StartReceiver, StartSender,
                StartFails, SetEntry, StartGoto, PeerCloses
  <1>3. ASSUME NEW r \in Nodes, Send(r) \/ Disconnect(r)
        PROVE  doomed \subseteq doomed'
    BY <1>3 DEF Send, Disconnect, connVars
  <1>4. CASE \/ \E c \in Connections, r \in Nodes : Accept(c, r)
             \/ SpawnUser \/ UNCHANGED vars
    BY <1>4 DEF Accept, SpawnUser, connVars, vars
  <1> QED
    BY <1>1, <1>2, <1>3, <1>4 DEF Next, Unforced

LEMMA JustifiedStays ==
  ASSUME TypeOK, RoleInv, StartInv, [Next]_vars, NEW c \in Connections, Justified(c)
  PROVE  Justified(c)'
  <1>1. CASE c \in doomed
    BY <1>1, DoomedGrow DEF Justified
  <1>2. CASE sock[c] = "closed"
    <2>1. sock'[c] = "closed"
      BY <1>2, SockChanges DEF StartInv
    <2> QED
      BY <2>1 DEF Justified
  <1> QED
    BY <1>1, <1>2 DEF Justified

\* A supervisor of a connection that nobody has asked to end is calm.
LEMMA CalmSupervisor ==
  ASSUME TypeOK, RoleInv, SupervisorInv, JustInv, "misdirected" \notin races,
         NEW s \in Slots, process[s].role = "supervisor", ~ Justified(process[s].conn)
  PROVE  Calm(s)
  <1>1. process[s].conn \in Connections /\ Begun(process[s].conn)
    BY NotFree, ConnectionAssumption DEF RoleInv, RoleOK, Begun
  <1>2. PICK u \in Slots : Calm(u) /\ process[u].conn = process[s].conn
    BY <1>1 DEF JustInv, Watched
  <1>3. u = s
    BY <1>2 DEF Calm, SupervisorInv, SupervisorOK
  <1> QED
    BY <1>2, <1>3

LEMMA SockStep ==
  ASSUME TypeOK, RoleInv, StartInv, SupervisorInv, JustInv, [Next]_vars,
         "misdirected" \notin races', NEW c \in Connections
  PROVE  SockOK(c)'
  <1>1. "misdirected" \notin races
    BY RacesGrow
  <1>2. CASE sock'[c] = sock[c]
    BY <1>1, <1>2, DoomedGrow DEF JustInv, SockOK
  <1>3. ASSUME NEW s \in Slots, Shutdown(s), process[s].conn = c, sock[c] # "closed"
        PROVE  c \in doomed
    <2>1. process[s].role = "supervisor" /\ process[s].pc = "shutdown"
      BY <1>3 DEF Shutdown, RoleInv, RoleOK, Place
    <2>2. Justified(c)
      BY <1>1, <1>3, <2>1, CalmSupervisor DEF Calm
    <2> QED
      BY <1>3, <2>2 DEF Justified
  <1> QED
    BY <1>2, <1>3, SockChanges, DoomedGrow DEF SockOK

\* A calm supervisor stays so, or the end of its connection is justified.
LEMMA CalmStays ==
  ASSUME TypeOK, RoleInv, SupervisorInv, JustInv, [Next]_vars,
         "misdirected" \notin races', NEW s \in Slots, Calm(s),
         ~ Justified(process[s].conn)
  PROVE  Calm(s)' /\ process'[s].conn = process[s].conn
  <1> DEFINE q == process[s].queue
  <1>1. /\ process[s].role = "supervisor" /\ process[s].pc \in {"loop", "set"}
        /\ Silent(q, {"SUCCESS", "NETWORK"}) /\ q \in Seq(Message)
        /\ process[s].conn # NULL
    BY ProcessFields DEF Calm, RoleInv, RoleOK
  <1>2. "misdirected" \notin races
    BY RacesGrow
  <1>3. ~ Break(s)
    BY <1>1, SilentQueues DEF Break, BreakOn, Supervise
  <1>4. /\ process'[s].role = "supervisor" /\ process'[s].pc \in {"loop", "set"}
        /\ process'[s].conn = process[s].conn
    <2>1. CASE Bystander(s)
      BY <1>1, <2>1 DEF Bystander
    <2>2. CASE Ignore(s) \/ RestartFails(s) \/ SetRestarted(s)
      BY <1>1, <2>2, Effects DEF On, Took, Moved
    <2>3. CASE Restart(s)
      BY <1>1, <2>3, RestartMoves DEF Restart
    <2>4. ~ (Shutdown(s) \/ StopSender(s) \/ Invalidate(s) \/ End(s) \/ Release(s))
      BY <1>1 DEF Shutdown, StopSender, Invalidate, End, Release
    <2> QED
      BY <1>1, <1>3, <2>1, <2>2, <2>3, <2>4, SupervisorActs DEF SupervisorStep
  <1>5. Silent(process'[s].queue, {"SUCCESS", "NETWORK"})
    <2>1. CASE process'[s].queue = q
      BY <1>1, <2>1
    <2>2. CASE q # <<>> /\ process'[s].queue = Tail(q)
      BY <1>1, <2>2, SilentQueues
    <2>3. ASSUME NEW m \in Message, process'[s].queue = Append(q, m),
                 m.error \notin {"SUCCESS", "NETWORK"}
          PROVE  Silent(process'[s].queue, {"SUCCESS", "NETWORK"})
      BY <1>1, <2>3, SilentQueues
    <2>4. ASSUME NEW x \in Slots, Told(s, x)
          PROVE  Silent(process'[s].queue, {"SUCCESS", "NETWORK"})
      <3>1. /\ process[x].role \in {"receiver", "sender"} /\ process[x].pc = "end"
            /\ process[x].conn = process[s].conn
        BY <1>1, <2>4, Teller
      <3>2. process[x].result = "TIMEOUT"
        BY <1>1, <1>2, <3>1 DEF JustInv, Unhurt
      <3>3. ErrorMessage(process[x].result).error \notin {"SUCCESS", "NETWORK"}
            /\ ErrorMessage(process[x].result) \in Message
        BY <3>2, ProcessFields, MessageTypes DEF ErrorMessage
      <3> QED
        BY <2>3, <2>4, <3>3 DEF Told
    <2>5. CASE \/ \E x \in Slots : Stopped(s, x)
               \/ \E r \in Nodes : Used(s, r)
      <3>1. /\ Stop.error \notin {"SUCCESS", "NETWORK"}
            /\ \A r \in Nodes : MessageTo(r).error \notin {"SUCCESS", "NETWORK"}
        BY DEF Stop, MessageTo
      <3> QED
        BY <2>3, <2>5, <3>1, MessageTypes DEF Stopped, Used
    <2>6. process'[s] # Free
      BY <1>4 DEF Free
    <2> QED
      BY <1>1, <2>1, <2>2, <2>4, <2>5, <2>6, Queues DEF QueueStep
  <1> QED
    BY <1>4, <1>5 DEF Calm

LEMMA WatchedStep ==
  ASSUME TypeOK, RoleInv, StartInv, SupervisorInv, JustInv, [Next]_vars,
         "misdirected" \notin races', NEW c \in Connections
  PROVE  Watched(c)'
  <1> SUFFICES ASSUME Begun(c)', ~ Justified(c)'
               PROVE  \E s \in Slots : Calm(s)' /\ process'[s].conn = c
    BY DEF Watched
  <1>1. "misdirected" \notin races /\ ~ Justified(c)
    BY RacesGrow, JustifiedStays
  <1>2. CASE Begun(c)
    <2>1. PICK s \in Slots : Calm(s) /\ process[s].conn = c
      BY <1>1, <1>2 DEF JustInv, Watched
    <2> QED
      BY <1>1, <2>1, CalmStays
  <1>3. CASE ~ Begun(c)
    <2>1. ~ StartFails(c)
      BY DEF StartFails, Justified, TypeOK
    <2>2. StartSupervisor(c)
      BY <1>3, <2>1, StartChanges
         DEF StartStep, StartReceiver, StartSender, SetEntry, StartGoto, Accept, Begun,
             TypeOK
    <2>3. "supervisor" \in Roles /\ "loop" \in Points
      BY DEF Roles, Points
    <2>4. /\ FreeSlot \in Slots
          /\ process' = [process EXCEPT ![FreeSlot] = New("supervisor", c, "loop")]
      BY <2>2, <2>3, SpawnStarts DEF StartSupervisor
    <2>5. process'[FreeSlot] = New("supervisor", c, "loop")
      BY <2>4 DEF TypeOK
    <2> PICK f \in Slots : process'[f] = New("supervisor", c, "loop")
      BY <2>4, <2>5
    <2>6. Calm(f)' /\ process'[f].conn = c
      BY DEF Calm, New, Silent
    <2> QED
      BY <2>6
  <1> QED
    BY <1>2, <1>3

\* A receiver or a sender of a connection whose end is not justified ends with a
\* timeout.
LEMMA EndsWithTimeout ==
  ASSUME TypeOK, RoleInv, StartInv, SupervisorInv, JustInv, [Next]_vars,
         "misdirected" \notin races, NEW s \in Slots, Stay(s),
         NEW c \in Connections, process[s].conn = c,
         ~ Justified(c), ~ Justified(c)',
         process[s].role \in {"receiver", "sender"}, process'[s].pc = "end"
  PROVE  process'[s].result = "TIMEOUT"
  <1>0. c # NULL /\ Unhurt(s) /\ SockOK(c)
    BY ConnectionAssumption DEF JustInv
  <1>1. CASE Bystander(s)
    BY <1>0, <1>1 DEF Bystander, Unhurt
  <1>2. ~ ReceiveClosed(s) /\ ~ ReceiveEmpty(s)
    BY <1>0 DEF ReceiveClosed, ReceiveEmpty, SockOK, Justified
  <1>3. SenderTimeout(s) => process'[s].result = "TIMEOUT"
    BY Effects DEF Returned, Moved
  <1>4. ~ SenderStop(s)
    <2> SUFFICES ASSUME SenderStop(s)
                 PROVE  FALSE
      OBVIOUS
    <2>1. /\ process[s].role = "sender" /\ process[s].queue # <<>>
          /\ Head(process[s].queue).nid = Local
      BY DEF SenderStop, Takes, Sending
    <2>2. Foreign(process[s].queue)
      BY <1>0, <2>1 DEF Unhurt
    <2> QED
      BY <2>1, <2>2, ProcessFields, ForeignQueues
  <1>5. ~ TransmitFails(s)
    <2> SUFFICES ASSUME TransmitFails(s)
                 PROVE  FALSE
      OBVIOUS
    <2>1. sock[c] # "open"
      BY DEF TransmitFails, Justified
    <2>2. start[c] # "idle"
      BY <1>0 DEF RoleInv, RoleOK
    <2>3. sock[c] \in {"none", "open", "peer_closed", "shutdown", "closed"} /\ sock[c] # "none"
      BY <2>2 DEF StartInv, TypeOK
    <2> QED
      BY <1>0, <2>1, <2>3 DEF SockOK, Justified
  <1>6. ~ (Link(s) \/ Relink(s) \/ Transmit(s))
    <2>1. Transmit(s) => process'[s].pc = "loop"
      BY Effects DEF Took, Moved
    <2>2. ~ (Link(s) \/ Relink(s))
      <3> SUFFICES ASSUME Link(s) \/ Relink(s)
                   PROVE  FALSE
        OBVIOUS
      <3> PICK d \in Slots \union {ACTOR_INVALID_ID} : LinkTo(s, d)
        BY LinkType
      <3> QED
        BY LinkMoves DEF Moved
    <2> QED
      BY <2>1, <2>2
  <1>7. ~ (SupervisorStep(s) \/ Unforced(s) \/ Appear(s))
    <2>1. Place(process[s].role, process[s].pc)
      BY DEF RoleInv, RoleOK
    <2>2. ~ Appear(s)
      BY Appeared
    <2> QED
      BY <1>2, <2>1, <2>2
         DEF Place, SupervisorStep, Ignore, Restart, RestartOn, RestartFails,
             SetRestarted, Break, BreakOn, Supervise, Shutdown, StopSender, Invalidate,
             Unforced, UserReceives, UserReturns, Users
  <1>8. ~ (End(s) \/ Release(s))
    <2>1. CASE End(s)
      <3>1. process[s].pc = "end"
        BY <2>1 DEF End
      <3> PICK d \in {process[s].supervisor_pid}, m \in Message :
             process' = [Put(d, m) EXCEPT ![s].pc = "release"]
        BY <2>1, MessageTypes, ProcessFields DEF End
      <3>2. PutAndOn(s, d, m, "release")
        BY PutGoesOn DEF Points
      <3> QED
        BY <3>2 DEF PutAndOn
    <2>2. CASE Release(s)
      BY <2>2 DEF Release, TypeOK, Free
    <2> QED
      BY <2>1, <2>2
  <1> QED
    BY <1>1, <1>2, <1>3, <1>4, <1>5, <1>6, <1>7, <1>8, Owner
       DEF OwnStep, ProcessStep, SenderStep

\* Nobody tells a sender of such a connection anything but what to transmit.
LEMMA StaysForeign ==
  ASSUME TypeOK, RoleInv, StartInv, SupervisorInv, JustInv, [Next]_vars,
         "misdirected" \notin races', NEW s \in Slots, Stay(s),
         process[s].conn \in Connections, ~ Justified(process[s].conn)',
         process[s].role = "sender"
  PROVE  Foreign(process'[s].queue)
  <1> DEFINE q == process[s].queue
  <1>0. PICK c \in Connections : c = process[s].conn
    OBVIOUS
  <1>1. c # NULL /\ "misdirected" \notin races /\ ~ Justified(c)' /\ ~ Justified(c)
    <2>1. ~ Justified(c)'
      BY <1>0 DEF Justified, Stay
    <2> QED
      BY <2>1, ConnectionAssumption, RacesGrow, JustifiedStays
  <1>2. Foreign(q) /\ q \in Seq(Message)
    BY <1>0, <1>1, ProcessFields DEF JustInv, Unhurt
  <1>3. ASSUME NEW x \in Slots, Told(s, x)
        PROVE  FALSE
    <2>1. /\ process[x].role \in {"receiver", "sender"} /\ process[x].pc = "end"
          /\ process[x].conn = c /\ process[x].supervisor_pid = s
      BY <1>0, <1>1, <1>3, Teller
    <2>2. Begun(c)
      BY <1>0, <1>1 DEF RoleInv, RoleOK, Begun
    <2>3. PICK u \in Slots : Calm(u) /\ process[u].conn = c
      BY <1>1, <2>2 DEF JustInv, Watched
    <2>4. process[x].supervisor_pid = u
      BY <2>1, <2>3 DEF Calm, SupervisorInv, LinkOK, Linked
    <2> QED
      BY <2>1, <2>3, <2>4 DEF Calm
  <1>4. ASSUME NEW x \in Slots, Stopped(s, x)
        PROVE  FALSE
    <2>1. /\ process[x].pc = "stop" /\ process[x].role = "supervisor"
          /\ process[x].conn # NULL
      BY <1>4 DEF Stopped, StopSender, RoleInv, RoleOK, Place
    <2>2. NoteAstray(s, {process[x].conn})
      BY <1>4 DEF Stopped, StopSender
    <2>3. process[x].conn = c
      BY <1>0, <1>1, <2>2 DEF NoteAstray, Astray
    <2>4. Calm(x)
      BY <1>1, <2>1, <2>3, CalmSupervisor
    <2> QED
      BY <2>1, <2>4 DEF Calm
  <1>5. ASSUME NEW r \in Nodes, Used(s, r)
        PROVE  Foreign(process'[s].queue)
    <2>1. CASE Send(r) /\ process'[s].queue = Append(q, MessageTo(r))
      <3>1. MessageTo(r).nid # Local /\ MessageTo(r) \in Message
        BY MessageTypes, ConnectionAssumption DEF MessageTo
      <3> QED
        BY <1>2, <2>1, <3>1, ForeignQueues
    <2>2. CASE Disconnect(r)
      <3>1. s \in Of("sender", c)
        BY <1>0 DEF Of
      <3>2. c \in doomed'
        BY <1>5, <2>2, <3>1 DEF Used, Disconnect
      <3> QED
        BY <1>1, <3>2 DEF Justified
    <2> QED
      BY <1>5, <2>1, <2>2 DEF Used
  <1>6. process'[s] # Free
    BY DEF Stay, Free
  <1>7. CASE \/ process'[s].queue = q
             \/ q # <<>> /\ process'[s].queue = Tail(q)
    BY <1>2, <1>7, ForeignQueues
  <1> QED
    BY <1>3, <1>4, <1>5, <1>6, <1>7, Queues DEF QueueStep

LEMMA UnhurtStep ==
  ASSUME TypeOK, RoleInv, StartInv, SupervisorInv, JustInv, [Next]_vars,
         "misdirected" \notin races', NEW s \in Slots
  PROVE  Unhurt(s)'
  <1> SUFFICES ASSUME process'[s].conn # NULL, ~ Justified(process[s].conn)'
               PROVE  /\ /\ process'[s].role \in {"receiver", "sender"}
                         /\ process'[s].pc = "end"
                         => process'[s].result = "TIMEOUT"
                      /\ process'[s].role = "sender" => Foreign(process'[s].queue)
    BY DEF Unhurt
  <1>1. "misdirected" \notin races
    BY RacesGrow
  <1>2. CASE Appear(s)
    BY <1>2, Appeared DEF Foreign
  <1>3. CASE Stay(s)
    <2>1. /\ process'[s].role = process[s].role /\ process'[s].conn = process[s].conn
          /\ process[s].conn \in Connections
      BY <1>3, ProcessFields DEF Stay
    <2>2. PICK c \in Connections : c = process[s].conn
      BY <2>1
    <2>3. ~ Justified(c)' /\ ~ Justified(c)
      <3>1. ~ Justified(c)'
        BY <2>1, <2>2 DEF Justified
      <3> QED
        BY <3>1, JustifiedStays
    <2> QED
      BY <1>1, <1>3, <2>1, <2>2, <2>3, EndsWithTimeout, StaysForeign
  <1>4. process'[s] # Free
    BY DEF Free
  <1> QED
    BY <1>2, <1>3, <1>4, SlotSteps DEF SlotStep

LEMMA JustStep ==
  ASSUME TypeOK, RoleInv, StartInv, SupervisorInv, JustInv, [Next]_vars
  PROVE  JustInv'
  <1> SUFFICES ASSUME "misdirected" \notin races'
               PROVE  /\ \A c \in Connections : SockOK(c)' /\ Watched(c)'
                      /\ \A s \in Slots : Unhurt(s)'
    BY DEF JustInv
  <1> QED
    BY SockStep, WatchedStep, UnhurtStep
-----------------------------------------------------------------------------
(* The entry of a remote node names the sender.                            *)

\* The pid d is that of the sender of connection c, or its end is on its way.
NamedBy(c, d) ==
  \/ Senders(c) = {d}
  \/ Senders(c) = {} /\ EndOnTheWay(c)

\* The supervisor in slot u, while it goes on, knows the sender: by the entry, or
\* by the pid it has yet to put there.
Knows(c, u) ==
  process[u].role = "supervisor" /\ process[u].conn = c =>
    /\ process[u].pc = "loop" => NamedBy(c, remote_nodes[node[c]])
    /\ process[u].pc = "set" => NamedBy(c, restarted[c])

Named(c) ==
  /\ start[c] = "set" => NamedBy(c, sender[c])
  /\ start[c] = "done" => \A u \in Slots : Knows(c, u)

NamesInv == races = {} => \A c \in Connections : Named(c)

\* A message in queue q tells the end of a process.
LEMMA NoisyQueues ==
  ASSUME NEW q \in Seq(Message), NEW m \in Message
  PROVE  /\ m.error # "none" => \E i \in DOMAIN Append(q, m) : Append(q, m)[i].error # "none"
         /\ (\E i \in DOMAIN q : q[i].error # "none") =>
              /\ \E i \in DOMAIN Append(q, m) : Append(q, m)[i].error # "none"
              /\ Head(q).error = "none" =>
                   \E i \in DOMAIN Tail(q) : Tail(q)[i].error # "none"
  <1>1. /\ Len(Append(q, m)) = Len(q) + 1 /\ Len(q) \in Nat
        /\ \A i \in 1 .. Len(q) : Append(q, m)[i] = q[i]
        /\ Append(q, m)[Len(q) + 1] = m
        /\ DOMAIN q = 1 .. Len(q) /\ DOMAIN Append(q, m) = 1 .. Len(q) + 1
    BY AppendProperties, LenProperties
  <1>2. ASSUME NEW i \in DOMAIN q, q[i].error # "none", Head(q).error = "none"
        PROVE  \E j \in DOMAIN Tail(q) : Tail(q)[j].error # "none"
    <2>1. /\ q # <<>> /\ Len(q) >= 1 /\ Head(q) = q[1]
          /\ Tail(q) \in Seq(Message) /\ Len(Tail(q)) = Len(q) - 1
          /\ \A j \in 1 .. Len(q) - 1 : Tail(q)[j] = q[j + 1]
      BY <1>1, <1>2, HeadTailProperties, EmptySeq
    <2>2. DOMAIN Tail(q) = 1 .. Len(q) - 1
      BY <2>1, LenProperties
    <2>3. i # 1 /\ i \in 1 .. Len(q)
      BY <1>1, <1>2, <2>1
    <2>4. i - 1 \in 1 .. Len(q) - 1 /\ Tail(q)[i - 1] = q[(i - 1) + 1] /\ (i - 1) + 1 = i
      BY <1>1, <2>1, <2>3
    <2> QED
      BY <1>2, <2>2, <2>4
  <1>3. ASSUME NEW i \in DOMAIN q, q[i].error # "none"
        PROVE  \E j \in DOMAIN Append(q, m) : Append(q, m)[j].error # "none"
    BY <1>1, <1>3
  <1>4. m.error # "none" => \E i \in DOMAIN Append(q, m) : Append(q, m)[i].error # "none"
    BY <1>1
  <1> QED
    BY <1>2, <1>3, <1>4

\* A sender that works has worked, or has just begun.
LEMMA SendersStep ==
  ASSUME TypeOK, RoleInv, [Next]_vars, NEW c \in Connections, NEW x \in Senders(c)'
  PROVE  \/ x \in Senders(c)
         \/ Begins(x)
         \/ \E w \in Slots : BeginsAgain(x, w)
  <1>1. /\ x \in Slots /\ process'[x].role = "sender" /\ process'[x].conn = c
        /\ process'[x].pc \in {"link", "relink", "loop"} /\ process'[x] # Free
    BY DEF Senders, Of, Free
  <1>2. CASE process[x].role = "none"
    BY <1>1, <1>2, SenderComes
  <1>3. CASE process[x].role # "none"
    <2>1. Stay(x)
      BY <1>1, <1>3, SlotSteps, Appeared DEF SlotStep
    <2>2. process[x].role = "sender" /\ process[x].conn = c
      BY <1>1, <2>1 DEF Stay
    <2>3. Place("sender", process[x].pc)
      BY <1>1, <2>2 DEF RoleInv, RoleOK
    <2>4. process[x].pc \in {"link", "relink", "loop"}
      BY <1>1, <2>1, <2>3 DEF Stay, Place
    <2> QED
      BY <1>1, <2>2, <2>4 DEF Senders, Of
  <1> QED
    BY <1>2, <1>3

\* A sender that works goes on, or its end is on its way.
LEMMA SenderGoesOn ==
  ASSUME TypeOK, RoleInv, [Next]_vars, NEW c \in Connections, NEW x \in Senders(c)
  PROVE  x \in Senders(c)' \/ EndOnTheWay(c)'
  <1>1. /\ x \in Slots /\ process[x].role = "sender" /\ process[x].conn = c
        /\ process[x].pc \in {"link", "relink", "loop"}
    BY DEF Senders, Of
  <1>2. CASE Bystander(x)
    BY <1>1, <1>2 DEF Bystander, Senders, Of
  <1>3. CASE Link(x) \/ Relink(x)
    <2> PICK d \in Slots \union {ACTOR_INVALID_ID} : LinkTo(x, d)
      BY <1>1, <1>3, LinkType
    <2>1. /\ process'[x].role = "sender" /\ process'[x].conn = c
          /\ process'[x].pc = "loop"
      BY <1>1, LinkMoves DEF Moved
    <2> QED
      BY <1>1, <2>1 DEF Senders, Of
  <1>4. CASE Transmit(x)
    BY <1>1, <1>4, Effects DEF Took, Moved, Senders, Of
  <1>5. CASE SenderTimeout(x) \/ SenderStop(x) \/ TransmitFails(x)
    <2>1. /\ process'[x].role = "sender" /\ process'[x].conn = c
          /\ process'[x].pc = "end"
      BY <1>1, <1>5, Effects DEF Returned, TookAndReturned, Moved
    <2> QED
      BY <1>1, <2>1 DEF EndOnTheWay
  <1>6. ~ (ReceiveClosed(x) \/ SupervisorStep(x) \/ End(x) \/ Release(x) \/ Unforced(x))
    BY <1>1 DEF ReceiveClosed, ReceiveEmpty, Receiving, SupervisorStep, Ignore,
                Restart, RestartOn, RestartFails, SetRestarted, Break, BreakOn,
                Supervise, Shutdown, StopSender, Invalidate, End, Release,
                Unforced, UserReceives, UserReturns, Users
  <1>7. ~ Appear(x)
    BY <1>1, Appeared
  <1> QED
    BY <1>1, <1>2, <1>3, <1>4, <1>5, <1>6, <1>7, Owner DEF OwnStep,
                                                           ProcessStep,
                                                           SenderStep

\* How a supervisor comes to where it goes on.
LEMMA SupervisorLoop ==
  ASSUME TypeOK, RoleInv, [Next]_vars, "unspawned" \notin races', NEW u \in Slots,
         process[u].role = "supervisor", process'[u].pc \in {"loop", "set"}
  PROVE  \/ /\ Bystander(u) \/ Ignore(u)
            /\ process'[u].pc = process[u].pc
         \/ SetRestarted(u) /\ process[u].pc = "set" /\ process'[u].pc = "loop"
         \/ Restart(u) /\ process[u].pc = "loop" /\ process'[u].pc = "set"
  <1>1. CASE Bystander(u)
    BY <1>1 DEF Bystander
  <1>2. CASE Ignore(u)
    BY <1>2, Effects DEF Took, Moved, Ignore, Supervise
  <1>3. CASE SetRestarted(u)
    BY <1>3, Effects DEF On, Moved, SetRestarted
  <1>4. CASE Restart(u)
    BY <1>4, RestartMoves DEF Restart, RestartOn, Supervise
  <1>5. ~ RestartFails(u)
    BY DEF RestartFails
  <1>6. ~ (Break(u) \/ Shutdown(u) \/ Invalidate(u))
    BY Effects DEF Took, On, Returned, Moved
  <1>7. ~ (StopSender(u) \/ End(u))
    <2> SUFFICES ASSUME StopSender(u) \/ End(u)
                 PROVE  FALSE
      OBVIOUS
    <2> PICK d \in {process[u].supervisor_pid, remote_nodes[node[process[u].conn]]},
             m \in Message, point \in {"invalidate", "release"} :
           process' = [Put(d, m) EXCEPT ![u].pc = point]
      BY MessageTypes, ProcessFields DEF StopSender, End
    <2>1. PutAndOn(u, d, m, point)
      <3>1. point \in Points
        BY DEF Points
      <3> QED
        BY <3>1, PutGoesOn
    <2> QED
      BY <2>1 DEF PutAndOn
  <1>8. ~ Release(u)
    BY DEF Release, TypeOK, Free
  <1> QED
    BY <1>1, <1>2, <1>3, <1>4, <1>5, <1>6, <1>7, <1>8, SupervisorActs DEF SupervisorStep

\* The end of a process of connection c that is on its way to the supervisor in
\* slot u stays so while the supervisor goes on, and starts no sender.
LEMMA EndStaysOnTheWay ==
  ASSUME TypeOK, RoleInv, SupervisorInv, [Next]_vars, NEW c \in Connections, NEW u \in Slots,
         process[u].role = "supervisor", process[u].conn = c,
         process'[u].role = "supervisor", process'[u].conn = c,
         Bystander(u) \/ Ignore(u) \/ SetRestarted(u), EndOnTheWay(c)
  PROVE  EndOnTheWay(c)'
  <1> DEFINE q == process[u].queue
             Noisy(messages) == \E i \in DOMAIN messages : messages[i].error # "none"
  <1>1. q \in Seq(Message) /\ u # ACTOR_INVALID_ID
    BY ProcessFields DEF Slots, ACTOR_INVALID_ID
  <1>2. Noisy(process'[u].queue) => EndOnTheWay(c)'
    BY DEF EndOnTheWay, Of
  <1>3. ASSUME Noisy(q)
        PROVE  Noisy(process'[u].queue)
    <2>1. CASE Bystander(u)
      <3>1. CASE process'[u].queue = q
        BY <1>3, <3>1
      <3>2. ASSUME NEW m \in Message, process'[u].queue = Append(q, m)
            PROVE  Noisy(process'[u].queue)
        BY <1>1, <1>3, <3>2, NoisyQueues
      <3> QED
        BY <2>1, <3>1, <3>2 DEF Bystander
    <2>2. CASE Ignore(u)
      <3>1. Head(q).error = "none" /\ process'[u].queue = Tail(q)
        BY <2>2, Effects DEF Ignore, Supervise, Took, Moved
      <3>2. Stop \in Message
        BY MessageTypes
      <3> QED
        BY <1>1, <1>3, <3>1, <3>2, NoisyQueues
    <2>3. CASE SetRestarted(u)
      BY <1>3, <2>3, Effects DEF On, Moved
    <2> QED
      BY <2>1, <2>2, <2>3
  <1>4. ASSUME NEW x \in Slots, process[x].conn = c, process[x].pc = "end",
               process[x].role \in {"sender", "receiver"}
        PROVE  EndOnTheWay(c)'
    <2>1. CASE Bystander(x)
      BY <1>4, <2>1 DEF Bystander, EndOnTheWay
    <2>2. CASE End(x)
      <3>1. process[x].supervisor_pid = u
        BY <1>4 DEF SupervisorInv, LinkOK, Linked
      <3>2. process[x].result # "none" /\ process[x].result \in Results
        BY <1>4, ProcessFields DEF RoleInv, RoleOK
      <3> PICK m \in Message : m = ErrorMessage(process[x].result)
        BY <3>2, MessageTypes
      <3>3. m.error # "none"
        BY <3>2 DEF ErrorMessage
      <3>4. PutAndOn(x, u, m, "release")
        <4>1. process' = [Put(u, m) EXCEPT ![x].pc = "release"]
          BY <2>2, <3>1 DEF End
        <4> QED
          BY <4>1, PutGoesOn DEF Points
      <3>5. process[u] # Free
        BY NotFree
      <3>6. process'[u].queue = Append(q, m)
        BY <3>4, <3>5 DEF PutAndOn, Given
      <3>7. Noisy(process'[u].queue)
        BY <1>1, <3>3, <3>6, NoisyQueues
      <3> QED
        BY <1>2, <3>7
    <2>3. ~ Appear(x)
      BY <1>4, Appeared
    <2>4. ~ (Link(x) \/ ReceiveClosed(x) \/ SenderStep(x) \/ SupervisorStep(x)
             \/ Release(x) \/ Unforced(x))
      BY <1>4 DEF Link, ReceiveClosed, ReceiveEmpty, Receiving, SenderStep,
                  Relink, SenderTimeout, SenderStop, Transmit, TransmitFails,
                  Takes, Sending, SupervisorStep, Ignore, Restart, RestartOn,
                  RestartFails, SetRestarted, Break, BreakOn, Supervise,
                  Shutdown, StopSender, Invalidate, Release, Unforced,
                  UserReceives, UserReturns
    <2> QED
      BY <2>1, <2>2, <2>3, <2>4, Owner DEF OwnStep, ProcessStep
  <1>5. ASSUME NEW s \in Of("supervisor", c),
               \E i \in DOMAIN process[s].queue : process[s].queue[i].error # "none"
        PROVE  Noisy(q)
    <2>1. s = u
      BY DEF Of, SupervisorInv, SupervisorOK
    <2> QED
      BY <1>5, <2>1
  <1> HIDE DEF Noisy
  <1>6. \/ \E x \in Slots : process[x].conn = c /\ process[x].pc = "end"
                              /\ process[x].role \in {"sender", "receiver"}
        \/ \E s \in Of("supervisor", c) : \E i \in DOMAIN process[s].queue :
             process[s].queue[i].error # "none"
    BY DEF EndOnTheWay
  <1> QED
    BY <1>2, <1>3, <1>4, <1>5, <1>6

\* Who is named stays named while the supervisor goes on.
LEMMA NamedStays ==
  ASSUME TypeOK, RoleInv, SupervisorInv, [Next]_vars, NEW c \in Connections, NEW u \in Slots,
         process[u].role = "supervisor", process[u].conn = c,
         process'[u].role = "supervisor", process'[u].conn = c,
         Bystander(u) \/ Ignore(u) \/ SetRestarted(u), ~ Restart(u),
         start[c] # "sender", NEW d, NamedBy(c, d)
  PROVE  NamedBy(c, d)'
  <1>1. Senders(c)' \subseteq Senders(c)
    <2> SUFFICES ASSUME NEW x \in Senders(c)'
                 PROVE  x \in Senders(c)
      OBVIOUS
    <2>1. process'[x].conn = c
      BY DEF Senders, Of
    <2>2. ~ Begins(x)
      BY <2>1 DEF Begins, StartSender, StartGoto
    <2>3. ASSUME NEW w \in Slots, BeginsAgain(x, w)
          PROVE  FALSE
      <3>1. process[w].role = "supervisor" /\ process[w].conn = c /\ Restart(w)
        BY <2>1, <2>3 DEF BeginsAgain, Restart, RestartOn, Supervise
      <3>2. w = u
        BY <3>1 DEF SupervisorInv, SupervisorOK
      <3> QED
        BY <3>1, <3>2
    <2> QED
      BY <2>2, <2>3, SendersStep
  <1>2. CASE Senders(c) = {d}
    <2>1. d \in Senders(c)' \/ EndOnTheWay(c)'
      BY <1>2, SenderGoesOn
    <2>2. Senders(c)' = {d} \/ Senders(c)' = {}
      BY <1>1, <1>2
    <2> QED
      BY <2>1, <2>2 DEF NamedBy
  <1>3. CASE Senders(c) = {} /\ EndOnTheWay(c)
    <2>1. Senders(c)' = {}
      BY <1>1, <1>3
    <2>2. EndOnTheWay(c)'
      BY <1>3, EndStaysOnTheWay
    <2> QED
      BY <2>1, <2>2 DEF NamedBy
  <1> QED
    BY <1>2, <1>3 DEF NamedBy

\* All that is used here of the other parts of the invariant.
CoreInv ==
  /\ TypeOK
  /\ RoleInv
  /\ StartInv
  /\ SupervisorInv
  /\ TokenInv
  /\ JustInv
  /\ EntryInv
  /\ OverlapInv

\* A new sender is the only one.
LEMMA OnlySender ==
  ASSUME CoreInv, [Next]_vars, "misdirected" \notin races', NEW c \in Connections,
         NEW f \in Slots, process'[f].role = "sender", process'[f].conn = c,
         process'[f].pc \in {"link", "relink", "loop"},
         Begins(f) \/ \E w \in Slots : BeginsAgain(f, w)
  PROVE  Senders(c)' = {f}
  <1>1. "misdirected" \notin races'
    OBVIOUS
  <1>2. TypeOK /\ RoleInv /\ SupervisorInv /\ TokenInv
    BY DEF CoreInv
  <1>3. f \in Senders(c)' /\ Live(f)'
    BY DEF Senders, Of, Live
  <1>4. ASSUME NEW x \in Senders(c)'
        PROVE  x = f
    <2>1. x \in Slots /\ Live(x)' /\ process'[x].conn = c
      BY <1>4 DEF Senders, Of, Live
    <2>2. OneLive(x, f)'
      BY <1>2, <2>1, OneLiveStep
    <2> QED
      BY <1>3, <2>1, <2>2 DEF OneLive
  <1> QED
    BY <1>3, <1>4

\* A connection whose supervisor goes on stands.
LEMMA Stands ==
  ASSUME NEW c \in Connections, NEW u \in Slots, process[u].role = "supervisor",
         process[u].conn = c, process[u].pc \notin {"end", "release"}
  PROVE  Standing(c)
  BY DEF Standing, Of

\* start_connectors names the sender.
LEMMA SetNamed ==
  ASSUME CoreInv, NamesInv, [Next]_vars, races' = {}, NEW c \in Connections,
         start'[c] = "set"
  PROVE  NamedBy(c, sender[c])'
  <1>1. TypeOK /\ RoleInv /\ StartInv /\ SupervisorInv /\ EntryInv /\ races = {}
    BY RacesGrow DEF CoreInv
  <1>2. CASE start[c] = "set"
    <2>1. PICK u \in Slots : Watches(u, c)
      BY <1>1, <1>2 DEF EntryInv, StartWatched
    <2>2. Starting(process[u].conn)
      BY <1>2, <2>1 DEF Watches, Starting
    <2>3. ~ (Restart(u) \/ RestartFails(u) \/ Break(u))
      BY <2>2 DEF Restart, RestartOn, NoteLate, RestartFails, Break, BreakOn
    <2>4. /\ process'[u].role = "supervisor" /\ process'[u].conn = c
          /\ process'[u].pc = "loop"
      BY <1>1, <2>1, <2>3, SupervisorGoesOn DEF Watches
    <2>5. Bystander(u) \/ Ignore(u)
      BY <1>1, <2>1, <2>3, <2>4, SupervisorLoop DEF Watches
    <2>6. PICK d \in Slots \union {ACTOR_INVALID_ID} : d = sender[c]
      BY <1>1 DEF TypeOK
    <2>7. sender'[c] = d
      <3>1. CASE \E v \in Connections : StartStep(v)
        <4> PICK v \in Connections : StartStep(v)
          BY <3>1
        <4>1. v # c
          BY <1>1, <1>2 DEF StartStep, StartSupervisor, StartReceiver,
                            StartSender, StartFails, SetEntry, StartGoto,
                            TypeOK
        <4> QED
          BY <1>1, <2>6, <4>1
             DEF StartStep, StartSupervisor, StartReceiver, StartSender, StartFails,
                 SetEntry, TypeOK
      <3>2. CASE ~ \E v \in Connections : StartStep(v)
        <4>1. UNCHANGED sender
          <5>1. ASSUME NEW s \in Slots, ProcessStep(s) \/ Unforced(s)
                PROVE  UNCHANGED sender
            BY <5>1 DEF ProcessStep, SenderStep, SupervisorStep, Unforced,
                        Link, Relink, LinkTo, ReceiveClosed, ReceiveEmpty,
                        Receiving, SenderTimeout, SenderStop, Transmit,
                        TransmitFails, Ignore, Restart, RestartOn,
                        RestartFails, SetRestarted, Break, BreakOn, Shutdown,
                        StopSender, Invalidate, End, Release, UserReceives,
                        UserReturns, connVars, startVars
          <5>2. ASSUME \/ \E v \in Connections : PeerCloses(v)
                       \/ \E v \in Connections, r \in Nodes : Accept(v, r)
                       \/ \E r \in Nodes : Send(r) \/ Disconnect(r)
                       \/ SpawnUser \/ UNCHANGED vars
                PROVE  UNCHANGED sender
            BY <5>2 DEF PeerCloses, Accept, Send, Disconnect, SpawnUser, connVars,
                        startVars, vars
          <5> QED
            BY <3>2, <5>1, <5>2 DEF Next, Unforced
        <4> QED
          BY <2>6, <4>1
      <3> QED
        BY <3>1, <3>2
    <2>8. NamedBy(c, d)
      BY <1>1, <1>2, <2>6 DEF NamesInv, Named
    <2>9. NamedBy(c, d)'
      BY <1>1, <1>2, <2>1, <2>3, <2>4, <2>5, <2>8, NamedStays DEF Watches
    <2> QED
      BY <2>7, <2>9 DEF NamedBy
  <1>3. CASE start[c] # "set"
    <2>1. StartSender(c)
      <3>1. StartStep(c) \/ \E r \in Nodes : Accept(c, r)
        BY <1>1, <1>3, StartChanges
      <3> QED
        BY <1>1, <1>3, <3>1 DEF StartStep, StartSupervisor, StartReceiver, StartFails,
                                SetEntry, StartGoto, Accept, TypeOK
    <2>2. "sender" \in Roles /\ "link" \in Points
      BY DEF Roles, Points
    <2>3. /\ FreeSlot \in Slots
          /\ process' = [process EXCEPT ![FreeSlot] = New("sender", c, "link")]
      BY <1>1, <2>1, <2>2, SpawnStarts DEF StartSender
    <2> PICK f \in Slots : f = FreeSlot
      BY <2>3
    <2>4. \A q \in Slots :
            process'[q] = IF q = f THEN New("sender", c, "link") ELSE process[q]
      BY <1>1, <2>3 DEF TypeOK
    <2>5. process'[f].role = "sender" /\ process'[f].conn = c /\ process'[f].pc = "link"
      BY <2>4 DEF New
    <2>6. Begins(f)
      BY <2>1, <2>4, <2>5 DEF Begins
    <2>7. Senders(c)' = {f}
      BY <2>5, <2>6, OnlySender
    <2>8. sender'[c] = f
      BY <1>1, <2>1 DEF StartSender, TypeOK
    <2> QED
      BY <2>7, <2>8 DEF NamedBy
  <1> QED
    BY <1>2, <1>3

\* While a connection stands, only its own supervisor sets the entry of its node.
LEMMA EntryKept ==
  ASSUME CoreInv, races = {}, [Next]_vars, NEW c \in Connections, NEW u \in Slots,
         process[u].role = "supervisor", process[u].conn = c, process[u].pc \in {"loop", "set"},
         start[c] = "done", ~ SetRestarted(u)
  PROVE  remote_nodes'[node[c]] = remote_nodes[node[c]]
  <1>1. TypeOK /\ RoleInv /\ StartInv /\ SupervisorInv /\ OverlapInv
    BY DEF CoreInv
  <1>2. PICK r \in Nodes : r = node[c]
    BY <1>1 DEF StartInv
  <1>3. Standing(c)
    BY Stands
  <1>4. ASSUME NEW v \in Connections, Standing(v), node[v] = r
        PROVE  v = c
    BY <1>1, <1>2, <1>3, <1>4 DEF OverlapInv, Apart
  <1>5. ASSUME NEW v \in Connections, SetEntry(v), node[v] = r
        PROVE  FALSE
    <2>1. start[v] = "set"
      BY <1>5 DEF SetEntry, StartGoto
    <2>2. Standing(v)
      BY <2>1 DEF Standing, Starting
    <2> QED
      BY <1>4, <1>5, <2>1, <2>2
  <1>6. ASSUME NEW s \in Slots, SetRestarted(s) \/ Invalidate(s), node[process[s].conn] = r
        PROVE  FALSE
    <2>1. process[s].role = "supervisor" /\ process[s].pc \in {"set", "invalidate"}
      BY <1>1, <1>6 DEF SetRestarted, Invalidate, RoleInv, RoleOK, Place
    <2>2. process[s].conn \in Connections
      BY <1>1, <2>1, NotFree
    <2>3. Standing(process[s].conn)
      BY <2>1, <2>2, Stands
    <2>4. process[s].conn = c
      BY <1>4, <1>6, <2>2, <2>3
    <2>5. s = u
      BY <1>1, <2>1, <2>4 DEF SupervisorInv, SupervisorOK
    <2> QED
      BY <1>6, <2>5 DEF Invalidate
  <1>7. remote_nodes'[r] = remote_nodes[r]
    BY <1>1, <1>5, <1>6, EntryChanges
  <1> QED
    BY <1>2, <1>7

\* Only the supervisor of a connection changes its local variable.
LEMMA RestartedKept ==
  ASSUME TypeOK, RoleInv, SupervisorInv, [Next]_vars, NEW c \in Connections, NEW u \in Slots,
         process[u].role = "supervisor", process[u].conn = c,
         ~ SetRestarted(u), ~ Restart(u)
  PROVE  restarted'[c] = restarted[c]
  <1>1. ASSUME NEW s \in Slots, SetRestarted(s) \/ Restart(s)
        PROVE  restarted'[c] = restarted[c]
    <2>1. process[s].role = "supervisor"
      BY <1>1 DEF SetRestarted, Restart, RestartOn, Supervise, RoleInv, RoleOK, Place
    <2>2. process[s].conn # c
      BY <1>1, <2>1 DEF SupervisorInv, SupervisorOK
    <2>3. CASE SetRestarted(s)
      BY <2>2, <2>3 DEF SetRestarted, TypeOK
    <2>4. CASE Restart(s)
      BY <2>2, <2>4 DEF Restart, RestartOn, TypeOK
    <2> QED
      BY <1>1, <2>3, <2>4
  <1>2. CASE ~ \E s \in Slots : SetRestarted(s) \/ Restart(s)
    <2>1. UNCHANGED restarted
      <3>1. ASSUME NEW s \in Slots, ProcessStep(s) \/ Unforced(s)
            PROVE  UNCHANGED restarted
        BY <1>2, <3>1
           DEF ProcessStep, SenderStep, SupervisorStep, Unforced, Link, Relink,
               LinkTo, ReceiveClosed, ReceiveEmpty, Receiving, SenderTimeout,
               SenderStop, Transmit, TransmitFails, Ignore, RestartFails,
               Break, BreakOn, Shutdown, StopSender, Invalidate, End, Release,
               UserReceives, UserReturns, connVars, startVars
      <3>2. ASSUME \/ \E v \in Connections : StartStep(v) \/ PeerCloses(v)
                   \/ \E v \in Connections, r \in Nodes : Accept(v, r)
                   \/ \E r \in Nodes : Send(r) \/ Disconnect(r)
                   \/ SpawnUser \/ UNCHANGED vars
            PROVE  UNCHANGED restarted
        BY <3>2 DEF StartStep, StartSupervisor, StartReceiver, StartSender,
                    StartFails, SetEntry, StartGoto, PeerCloses, Accept, Send,
                    Disconnect, SpawnUser, connVars, startVars, vars
      <3> QED
        BY <3>1, <3>2 DEF Next, Unforced
    <2> QED
      BY <2>1
  <1> QED
    BY <1>1, <1>2

\* The supervisor of a connection that has been started knows the sender.
LEMMA KnowsStep ==
  ASSUME CoreInv, NamesInv, [Next]_vars, races' = {}, NEW c \in Connections,
         start'[c] = "done", NEW u \in Slots
  PROVE  Knows(c, u)'
  <1> SUFFICES ASSUME process'[u].role = "supervisor", process'[u].conn = c,
                      process'[u].pc \in {"loop", "set"}
               PROVE  /\ process'[u].pc = "loop" => NamedBy(c, remote_nodes[node[c]])'
                      /\ process'[u].pc = "set" => NamedBy(c, restarted[c])'
    BY DEF Knows
  <1>1. /\ TypeOK /\ RoleInv /\ StartInv /\ SupervisorInv /\ EntryInv /\ OverlapInv
        /\ races = {}
    BY RacesGrow DEF CoreInv
  <1>2. start[c] = "done" \/ (start[c] = "set" /\ SetEntry(c))
    <2>1. CASE start'[c] # start[c]
      <3>1. StartStep(c) \/ \E r \in Nodes : Accept(c, r)
        BY <1>1, <2>1, StartChanges
      <3> QED
        BY <1>1, <3>1 DEF StartStep, StartSupervisor, StartReceiver,
                          StartSender, StartFails, SetEntry, StartGoto, Accept,
                          TypeOK
    <2> QED
      BY <2>1
  <1>3. /\ process[u].role = "supervisor" /\ process[u].conn = c /\ node'[c] = node[c]
        /\ node[c] \in Nodes
    <2>1. Begun(c) /\ start[c] # "idle"
      BY <1>2 DEF Begun
    <2> QED
      BY <1>1, <2>1, SupervisorStays, StartsGoOn DEF StartInv
  <1>4. CASE start[c] = "set" /\ SetEntry(c)
    <2>1. UNCHANGED process
      BY <1>4 DEF SetEntry
    <2>2. PICK w \in Slots : Watches(w, c)
      BY <1>1, <1>4 DEF EntryInv, StartWatched
    <2>3. w = u
      BY <1>1, <1>3, <2>2 DEF Watches, SupervisorInv, SupervisorOK
    <2>4. process'[u].pc = "loop"
      BY <2>1, <2>2, <2>3 DEF Watches
    <2>5. remote_nodes'[node[c]] = sender[c]
      BY <1>1, <1>3, <1>4 DEF SetEntry, TypeOK
    <2>6. NamedBy(c, sender[c])
      BY <1>1, <1>4 DEF NamesInv, Named
    <2>7. Senders(c)' = Senders(c) /\ (EndOnTheWay(c) => EndOnTheWay(c)')
      BY <2>1 DEF Senders, Of, EndOnTheWay
    <2>8. NamedBy(c, remote_nodes[node[c]])'
      BY <1>3, <2>5, <2>6, <2>7 DEF NamedBy
    <2> QED
      BY <2>4, <2>8
  <1>5. ASSUME start[c] = "done", Bystander(u) \/ Ignore(u),
               process'[u].pc = process[u].pc
        PROVE  /\ process'[u].pc = "loop" => NamedBy(c, remote_nodes[node[c]])'
               /\ process'[u].pc = "set" => NamedBy(c, restarted[c])'
    <2>1. ~ SetRestarted(u) /\ ~ Restart(u)
      <3>1. SetRestarted(u) => process[u].pc = "set" /\ process'[u].pc = "loop"
        BY <1>1, Effects DEF SetRestarted, On, Moved
      <3>2. Restart(u) => process[u].pc = "loop" /\ process'[u].pc = "set"
        BY <1>1, RestartMoves DEF Restart, RestartOn, Supervise
      <3> QED
        BY <1>5, <3>1, <3>2
    <2>2. ASSUME NEW d, NamedBy(c, d)
          PROVE  NamedBy(c, d)'
      BY <1>1, <1>3, <1>5, <2>1, <2>2, NamedStays
    <2>3. Knows(c, u)
      BY <1>1, <1>5 DEF NamesInv, Named
    <2>4. CASE process[u].pc = "loop"
      <3>1. PICK d \in Slots \union {ACTOR_INVALID_ID} : d = remote_nodes[node[c]]
        BY <1>1, <1>3 DEF TypeOK
      <3>2. remote_nodes'[node[c]] = d
        BY <1>1, <1>3, <1>5, <2>1, <2>4, <3>1, EntryKept
      <3>3. NamedBy(c, d)
        BY <1>3, <2>3, <2>4, <3>1 DEF Knows
      <3>4. NamedBy(c, d)'
        BY <2>2, <3>3
      <3>5. NamedBy(c, remote_nodes[node[c]])'
        BY <1>3, <3>2, <3>4 DEF NamedBy
      <3> QED
        BY <1>5, <2>4, <3>5
    <2>5. CASE process[u].pc = "set"
      <3>1. PICK d \in Slots \union {ACTOR_INVALID_ID} : d = restarted[c]
        BY <1>1 DEF TypeOK
      <3>2. restarted'[c] = d
        BY <1>1, <1>3, <2>1, <3>1, RestartedKept
      <3>3. NamedBy(c, d)
        BY <1>3, <2>3, <2>5, <3>1 DEF Knows
      <3>4. NamedBy(c, d)'
        BY <2>2, <3>3
      <3>5. NamedBy(c, restarted[c])'
        BY <3>2, <3>4 DEF NamedBy
      <3> QED
        BY <1>5, <2>5, <3>5
    <2> QED
      BY <1>5, <2>4, <2>5
  <1>6. ASSUME start[c] = "done", SetRestarted(u), process[u].pc = "set",
               process'[u].pc = "loop"
        PROVE  NamedBy(c, remote_nodes[node[c]])'
    <2>1. PICK d \in Slots \union {ACTOR_INVALID_ID} : d = restarted[c]
      BY <1>1 DEF TypeOK
    <2>2. remote_nodes'[node[c]] = d
      BY <1>1, <1>3, <1>6, <2>1 DEF SetRestarted, TypeOK
    <2>3. NamedBy(c, d)
      <3>1. Knows(c, u)
        BY <1>1, <1>6 DEF NamesInv, Named
      <3> QED
        BY <1>3, <1>6, <2>1, <3>1 DEF Knows
    <2>4. ~ Restart(u)
      BY <1>6 DEF Restart, RestartOn, Supervise
    <2>5. NamedBy(c, d)'
      BY <1>1, <1>3, <1>6, <2>3, <2>4, NamedStays
    <2> QED
      BY <1>3, <2>2, <2>5 DEF NamedBy
  <1>7. ASSUME start[c] = "done", Restart(u)
        PROVE  NamedBy(c, restarted[c])'
    <2> PICK f \in Slots :
          /\ f # u
          /\ \A q \in Slots : q # u /\ q # f => process'[q] = process[q]
          /\ process'[f] = New("sender", process[u].conn, "relink")
          /\ process'[u].queue = Tail(process[u].queue)
          /\ restarted' = [restarted EXCEPT ![process[u].conn] = f]
      BY <1>1, <1>7, RestartMoves DEF Restart
    <2>1. process'[f].role = "sender" /\ process'[f].conn = c /\ process'[f].pc = "relink"
      BY <1>3 DEF New
    <2>2. BeginsAgain(f, u)
      BY <1>3, <1>7, <2>1 DEF BeginsAgain
    <2>3. Senders(c)' = {f}
      BY <2>1, <2>2, OnlySender
    <2>4. restarted'[c] = f
      BY <1>1, <1>3 DEF TypeOK
    <2> QED
      BY <2>3, <2>4 DEF NamedBy
  <1>8. "unspawned" \notin races'
    OBVIOUS
  <1> QED
    BY <1>1, <1>2, <1>3, <1>4, <1>5, <1>6, <1>7, <1>8, SupervisorLoop

LEMMA NamesStep ==
  ASSUME CoreInv, NamesInv, [Next]_vars
  PROVE  NamesInv'
  BY SetNamed, KnowsStep DEF NamesInv, Named
-----------------------------------------------------------------------------
(* The inductive invariant and what follows from it.                       *)

IndInv == CoreInv /\ NamesInv

LEMMA Initially ==
  ASSUME Init
  PROVE  IndInv
  <1> USE DEF Init
  <1>1. \A s \in Slots : process[s] = Free
    OBVIOUS
  <1>2. TypeOK
    <2>1. Free \in Process
      BY EmptySeq DEF Free, Process, Roles, Points, Results
    <2>2. Size \in Nat
      BY ConnectionAssumption
    <2> QED
      BY <2>1, <2>2 DEF TypeOK, Races
  <1>3. RoleInv
    BY <1>1 DEF RoleInv, RoleOK, Place, Free
  <1>4. StartInv
    BY DEF StartInv
  <1>5. SupervisorInv
    BY <1>1 DEF SupervisorInv, SupervisorOK, LinkOK, Linked, Free
  <1>6. TokenInv
    BY <1>1 DEF TokenInv, OneLive, OneReport, LiveOrReport, NotYet, Live, Free
  <1>7. JustInv
    BY <1>1 DEF JustInv, SockOK, Watched, Begun, Unhurt, Free
  <1>8. EntryInv
    BY DEF EntryInv, EntryGuarded, StartWatched
  <1>9. OverlapInv
    <2>1. \A c \in Connections : ~ Standing(c)
      BY <1>1 DEF Standing, Starting, Of, Free
    <2> QED
      BY <2>1 DEF OverlapInv, Apart
  <1>10. NamesInv
    BY DEF NamesInv, Named
  <1> QED
    BY <1>2, <1>3, <1>4, <1>5, <1>6, <1>7, <1>8, <1>9, <1>10 DEF IndInv, CoreInv

LEMMA Inductive ==
  ASSUME IndInv, [Next]_vars
  PROVE  IndInv'
  <1>1. CoreInv /\ NamesInv
    BY DEF IndInv
  <1>2. /\ TypeOK /\ RoleInv /\ StartInv /\ SupervisorInv /\ TokenInv /\ JustInv
        /\ EntryInv /\ OverlapInv
    BY <1>1 DEF CoreInv
  <1>3. TypeOK' /\ RoleInv' /\ StartInv'
    BY <1>2, TypeStep, RoleStep, StartStepInv
  <1>4. SupervisorInv'
    BY <1>2, SupervisorOKStep, LinkStep DEF SupervisorInv
  <1>5. TokenInv' /\ JustInv' /\ EntryInv' /\ OverlapInv'
    BY <1>2, TokenStep, JustStep, EntryStep, OverlapStep
  <1>6. NamesInv'
    BY <1>1, NamesStep
  <1> QED
    BY <1>3, <1>4, <1>5, <1>6 DEF IndInv, CoreInv

\* The inductive invariant holds in every state that can be reached.
THEOREM Invariance == Spec => []IndInv
  BY Initially, Inductive, PTL DEF Spec

\* Every variable keeps its type (the slots, pids and results of distributer.c).
THEOREM TypeCorrect == Spec => []TypeOK
  <1>1. IndInv => TypeOK
    BY DEF IndInv, CoreInv
  <1> QED
    BY <1>1, Invariance, PTL

\* A connection never has two senders that take messages (distributer.c:181-194),
\* unless a message of another connection goes astray.
THEOREM OneSenderHolds == Spec => []OneSender
  <1>1. IndInv => OneSender
    <2> SUFFICES ASSUME IndInv, "misdirected" \notin races, NEW c \in Connections
                 PROVE  Cardinality(Senders(c)) <= 1
      BY DEF OneSender
    <2>1. \A s, u \in Slots : OneLive(s, u)
      BY DEF IndInv, CoreInv, TokenInv
    <2>2. \A s, u \in Senders(c) : s = u
      BY <2>1 DEF Senders, Of, OneLive, Live
    <2>3. CASE Senders(c) = {}
      BY <2>3, FS_EmptySet
    <2>4. ASSUME NEW s \in Senders(c)
          PROVE  Cardinality(Senders(c)) <= 1
      <3>1. Senders(c) = {s}
        BY <2>2, <2>4
      <3>2. Cardinality(Senders(c)) = 1
        BY <3>1, FS_Singleton
      <3> QED
        BY <3>2
    <2> QED
      BY <2>3, <2>4
  <1> QED
    BY <1>1, Invariance, PTL

\* While a connection stands, the entry of its node names its sender, or the end
\* of the sender is on its way (distributer.c:193, 273).
THEOREM EntryNamesSenderHolds == Spec => []EntryNamesSender
  <1>1. IndInv => EntryNamesSender
    <2> SUFFICES ASSUME IndInv, races = {}, NEW c \in Connections, start[c] = "done",
                        NEW s \in Of("supervisor", c), process[s].pc = "loop"
                 PROVE  \/ Senders(c) = {remote_nodes[node[c]]}
                        \/ Senders(c) = {} /\ EndOnTheWay(c)
      BY DEF EntryNamesSender
    <2>1. s \in Slots /\ process[s].role = "supervisor" /\ process[s].conn = c
      BY DEF Of
    <2>2. Knows(c, s)
      BY <2>1 DEF IndInv, NamesInv, Named
    <2> QED
      BY <2>1, <2>2 DEF Knows, NamedBy
  <1> QED
    BY <1>1, Invariance, PTL

\* An entry is valid only while a connection to that node stands or is being
\* closed (distributer.c:213).
THEOREM EntryHasConnectionHolds == Spec => []EntryHasConnection
  <1>1. IndInv => EntryHasConnection
    <2> SUFFICES ASSUME IndInv, "late" \notin races, NEW r \in Nodes,
                        remote_nodes[r] # ACTOR_INVALID_ID
                 PROVE  \E c \in To(r) : \E s \in Of("supervisor", c) :
                          process[s].pc \notin {"end", "release"}
      BY DEF EntryHasConnection
    <2>1. TypeOK /\ RoleInv /\ EntryGuarded(r)
      BY DEF IndInv, CoreInv, EntryInv
    <2>2. PICK s \in Slots : Guards(s, r)
      BY <2>1 DEF EntryGuarded
    <2>3. process[s].conn \in Connections
      BY <2>1, <2>2, NotFree DEF Guards
    <2>4. process[s].conn \in To(r) /\ s \in Of("supervisor", process[s].conn)
      BY <2>2, <2>3 DEF Guards, To, Of
    <2> QED
      BY <2>2, <2>4 DEF Guards
  <1> QED
    BY <1>1, Invariance, PTL

\* An idle connection is never shut down by the timeouts of its sender
\* (distributer.c:43, 181).
THEOREM ShutdownJustifiedHolds == Spec => []ShutdownJustified
  <1>1. IndInv => ShutdownJustified
    BY DEF IndInv, CoreInv, JustInv, SockOK, ShutdownJustified
  <1> QED
    BY <1>1, Invariance, PTL
=============================================================================
