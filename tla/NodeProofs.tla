---------------------------- MODULE NodeProofs ------------------------------
(***************************************************************************)
(* Proofs about Node, for any number of processes, messages and slots and  *)
(* any pids.                                                               *)
(***************************************************************************)
EXTENDS Node, Counting, SequenceTheorems, TLAPS

(***************************************************************************)
(* The inductive invariant has two parts.  BaseInv, which keeps the model  *)
(* typed, holds for ever; Intact holds until a slot is taken between its   *)
(* two clears.  In Intact, that nothing sent to a living process is lost   *)
(* hangs on three things: a process keeps its slot, with its pid, until it *)
(* is released (SlotInv), so that a send that was made for it finds it     *)
(* (SendInv); and a message has one holder, who may dispose of it          *)
(* (PlaceInv).                                                             *)
(***************************************************************************)

\* A process that has been spawned has a pid, and a send has got what its next
\* step needs.
BaseInv ==
  \A p \in Processes :
    /\ pc[p] # "unborn" => pid[p] \in Slots
    /\ pc[p] \in Sending => message[p] # NULL /\ destination_pid[p] \in Nat
    /\ pc[p] \in {"send_load", "send_put"} => destination_pid[p] \in Slots
    /\ pc[p] = "send_put" => target[p] # NULL

\* The processes that have a slot.
Here(p) == pc[p] \notin {"unborn", "clear_again", "gone"}

\* Where each process is tells what it holds.
LifeInv ==
  \A p \in Processes :
    /\ p \in returned => pc[p] \in Sending \union Releasing \union {"gone"}
    /\ pc[p] \in Releasing \union {"gone"} => p \in returned
    /\ p \in allocated <=> pc[p] \notin {"unborn", "clear", "clear_again", "gone"}
    /\ message[p] # NULL <=> pc[p] \in Sending \union {"received"}
    /\ target[p] # NULL <=> pc[p] \in {"send_put", "free"}
    /\ target[p] # NULL => pc[target[p]] # "unborn"
    /\ pc[p] = "free" => target[p] = p

\* A slot points to the process that has its pid, and to none between its two
\* clears.
SlotInv ==
  /\ \A p \in Processes : Here(p) => message_queues[pid[p]] = p
  /\ \A p \in Processes : pc[p] = "clear_again" => message_queues[pid[p]] = NULL
  /\ \A s \in Slots : message_queues[s] # NULL =>
       Here(message_queues[s]) /\ pid[message_queues[s]] = s

\* What OnePlace and NothingLostToTheLiving say before that.
OnePlaced ==
  /\ \A p, u \in Processes : message[p] # NULL /\ message[p] = message[u]
                               => p = u
  /\ \A p, u \in Processes : message[p] \notin Queued(u)
  /\ \A p, u \in Processes : p # u => Queued(p) \intersect Queued(u) = {}
  /\ \A u \in Processes : \A i, j \in DOMAIN queue[u] :
       queue[u][i] = queue[u][j] => i = j

NoneLost ==
  \A m \in heap :
    LET v == content[m].meant
    IN  v # NULL /\ Alive(v) =>
          \/ m \in Queued(v)
          \/ \E p \in {content[m].from, v} : message[p] = m

\* A message that is held or queued is allocated, and in one place.
PlaceInv ==
  /\ OnePlaced
  /\ \A p \in Processes : message[p] # NULL => message[p] \in heap
  /\ \A p \in Processes : Queued(p) \subseteq heap

\* A message was meant for a process that had been spawned.
MeantInv ==
  \A m \in heap : content[m].meant # NULL => pc[content[m].meant] # "unborn"

\* A process sends its own messages, to the pid of the process it means, and
\* finds that process as long as it has its slot.
OnCourse(p) ==
  LET c == content[message[p]]
  IN  /\ c.from = p
      /\ c.meant # NULL => pid[c.meant] = destination_pid[p]
      /\ pc[p] = "send_put" =>
           c.meant \in {NULL, target[p]} \/ pc[c.meant] = "gone"

SendInv == \A p \in Processes : pc[p] \in Sending => OnCourse(p)

Intact ==
  /\ TypeOK
  /\ BaseInv
  /\ LifeInv
  /\ SlotInv
  /\ PlaceInv
  /\ MeantInv
  /\ SendInv
  /\ NoneLost

IndInv ==
  /\ TypeOK
  /\ BaseInv
  /\ ~ reused => Intact
-----------------------------------------------------------------------------
(* What the steps are made of.                                             *)

\* The search for a free slot finds one, if there is one.
LEMMA FreeSlotIsFree ==
  ASSUME TypeOK, FreeSlots # {}
  PROVE  FreeSlot \in Slots /\ message_queues[FreeSlot] = NULL
  <1>1. Size \in Nat /\ FreeSlots \in SUBSET Nat
    BY NodeAssumption DEF FreeSlots, Slots
  <1>2. Min(FreeSlots) \in FreeSlots
    <2>1. \E x \in FreeSlots : \A y \in FreeSlots : x <= y
      BY <1>1, LeastNatural
    <2> QED
      BY <2>1 DEF Min
  <1>3. FreeSlot \in FreeSlots
    BY <1>2 DEF FreeSlot
  <1> QED
    BY <1>3 DEF FreeSlots

\* A message added to a queue or taken from it.
LEMMA QueueTypes ==
  ASSUME TypeOK, NEW p \in Processes
  PROVE  /\ queue[p] \in Seq(Messages)
         /\ \A m \in Messages : Append(queue[p], m) \in Seq(Messages)
         /\ queue[p] # <<>> =>
              Head(queue[p]) \in Messages /\ Tail(queue[p]) \in Seq(Messages)
  <1>1. queue[p] \in Seq(Messages)
    BY DEF TypeOK
  <1> QED
    BY <1>1, AppendProperties, HeadTailProperties

\* A send that returns, and a message that is made.
LEMMA SendReturnsTypes ==
  ASSUME TypeOK, NEW p \in Processes, SendReturns(p)
  PROVE  /\ pc' \in [Processes -> Points]
         /\ message' \in [Processes -> Messages \union {NULL}]
         /\ destination_pid' \in [Processes -> Pids \union {ACTOR_INVALID_ID}]
  BY DEF TypeOK, SendReturns, Points, Releasing

LEMMA NewMessageTypes ==
  ASSUME TypeOK, NEW p \in Processes, NEW m \in Messages,
         NEW type \in {"user", "error"}, NEW d \in Pids, NewMessage(p, m, type, d)
  PROVE  /\ heap' \subseteq Messages
         /\ content' \in [Messages -> Content]
         /\ content'[m].meant \in Processes \union {NULL}
         /\ message' \in [Processes -> Messages \union {NULL}]
         /\ destination_pid' \in [Processes -> Pids \union {ACTOR_INVALID_ID}]
  <1> DEFINE u == IF d \in Slots THEN message_queues[d] ELSE NULL
             c == [type |-> type, from |-> p, meant |-> u]
  <1>1. u \in Processes \union {NULL}
    BY DEF TypeOK
  <1>2. c \in Content /\ c.meant = u
    BY <1>1 DEF Content
  <1>3. content' = [content EXCEPT ![m] = c]
    BY DEF NewMessage
  <1> HIDE DEF c, u
  <1>4. content' \in [Messages -> Content] /\ content'[m] = c
    BY <1>2, <1>3 DEF TypeOK
  <1> QED
    BY <1>1, <1>2, <1>4 DEF TypeOK, NewMessage

LEMMA TypeStep ==
  ASSUME TypeOK, BaseInv, [Next]_vars
  PROVE  TypeOK'
  <1>1. ASSUME NEW p \in Processes, NEW c \in Processes, Spawn(p, c)
        PROVE  TypeOK'
    <2>1. FreeSlot \in Slots /\ FreeSlot + 1 \in 0 .. Size
      BY <1>1, FreeSlotIsFree, NodeAssumption DEF Spawn, Slots
    <2>2. /\ message_queues' = [message_queues EXCEPT ![FreeSlot] = c]
          /\ message_queue_pos' = FreeSlot + 1
          /\ allocated' = allocated \union {c}
          /\ pid' = [pid EXCEPT ![c] = FreeSlot]
          /\ reused' \in BOOLEAN
      BY <1>1 DEF Spawn, TypeOK
    <2>3. /\ message_queues' \in [Slots -> Processes \union {NULL}]
          /\ pid' \in [Processes -> Slots \union {ACTOR_INVALID_ID}]
          /\ message_queue_pos' \in 0 .. Size
          /\ allocated' \subseteq Processes
          /\ reused' \in BOOLEAN
      BY <2>1, <2>2 DEF TypeOK
    <2>4. pc' \in [Processes -> Points]
      <3>1. "running" \in Points /\ "set_pid" \in Points
        BY DEF Points
      <3>2. \/ pc' = [pc EXCEPT ![c] = "running", ![p] = "set_pid"]
            \/ pc' = [pc EXCEPT ![c] = "running"]
        BY <1>1 DEF Spawn
      <3> QED
        BY <3>1, <3>2 DEF TypeOK
    <2>5. child' \in [Processes -> Processes \union {NULL}]
      <3>1. child' = [child EXCEPT ![p] = c] \/ child' = child
        BY <1>1 DEF Spawn
      <3> QED
        BY <3>1 DEF TypeOK
    <2> QED
      BY <1>1, <2>3, <2>4, <2>5 DEF Spawn, TypeOK, messageVars, sendVars
  <1>2. ASSUME NEW p \in Processes, SetPid(p) \/ LookUp(p) \/ Free(p)
        PROVE  TypeOK'
    BY <1>2 DEF SetPid, LookUp, Free, Goto, TypeOK, tableVars, messageVars, sendVars,
                lifeVars, Points, Sending, Releasing
  <1>3. ASSUME NEW p \in Processes, (\E s \in Pids : Link(p, s)) \/ Unlink(p)
        PROVE  TypeOK'
    <2>1. supervisor_pid' \in [Processes -> Pids \union {ACTOR_INVALID_ID}]
      BY <1>3 DEF Link, Unlink, TypeOK
    <2> QED
      BY <1>3, <2>1 DEF Link, Unlink, TypeOK, tableVars, messageVars, sendVars
  <1>4. ASSUME NEW p \in Processes, NEW m \in Messages, NEW d \in Pids, Send(p, m, d)
        PROVE  TypeOK'
    <2>1. NewMessage(p, m, "user", d)
      BY <1>4 DEF Send
    <2> QED
      BY <1>4, <2>1, NewMessageTypes
         DEF Send, TypeOK, tableVars, lifeVars, Points, Sending
  <1>5. ASSUME NEW p \in Processes, LookUpFails(p) \/ LoadNull(p) \/ PutFreed(p)
        PROVE  TypeOK'
    <2>1. SendReturns(p)
      BY <1>5 DEF LookUpFails, LoadNull, PutFreed
    <2> QED
      BY <1>5, <2>1, SendReturnsTypes
         DEF LookUpFails, LoadNull, PutFreed, TypeOK, tableVars, lifeVars
  <1>6. ASSUME NEW p \in Processes, Load(p)
        PROVE  TypeOK'
    <2>1. message_queues[destination_pid[p]] \in Processes \union {NULL}
      <3>1. destination_pid[p] \in Slots
        BY <1>6 DEF Load, Goto, BaseInv
      <3> QED
        BY <3>1 DEF TypeOK
    <2> QED
      BY <1>6, <2>1 DEF Load, Goto, TypeOK, tableVars, messageVars, lifeVars, Points,
                        Sending
  <1>7. ASSUME NEW p \in Processes, Put(p)
        PROVE  TypeOK'
    <2>1. SendReturns(p)
      BY <1>7 DEF Put
    <2>2. target[p] \in Processes /\ message[p] \in Messages
      BY <1>7 DEF Put, TypeOK, BaseInv, Sending
    <2>3. Append(queue[target[p]], message[p]) \in Seq(Messages)
      BY <2>2, QueueTypes
    <2>4. queue' \in [Processes -> Seq(Messages)]
      BY <1>7, <2>2, <2>3 DEF Put, TypeOK
    <2>5. target' \in [Processes -> Processes \union {NULL}]
      BY <1>7 DEF Put, TypeOK
    <2> QED
      BY <1>7, <2>1, <2>4, <2>5, SendReturnsTypes DEF Put, TypeOK, tableVars, lifeVars
  <1>8. ASSUME NEW p \in Processes, Receive(p)
        PROVE  TypeOK'
    <2>1. /\ Head(queue[p]) \in Messages /\ Tail(queue[p]) \in Seq(Messages)
          /\ content[Head(queue[p])] \in Content
      BY <1>8, QueueTypes DEF Receive, TypeOK
    <2>2. owed' \in [Processes -> Processes \union {NULL}]
      BY <1>8 DEF Receive, TypeOK
    <2> QED
      BY <1>8, <2>1, <2>2 DEF Receive, TypeOK, tableVars, sendVars, lifeVars, Points
  <1>9. ASSUME NEW p \in Processes, Dispose(p)
        PROVE  TypeOK'
    BY <1>9 DEF Dispose, Goto, TypeOK, tableVars, sendVars, lifeVars, Points
  <1>10. ASSUME NEW p \in Processes, NEW m \in Messages, Return(p, m)
         PROVE  TypeOK'
    <2>1. supervisor_pid[p] \in Pids
      BY <1>10 DEF Return, TypeOK
    <2>2. NewMessage(p, m, "error", supervisor_pid[p])
      BY <1>10 DEF Return
    <2>3. owed' \in [Processes -> Processes \union {NULL}]
      BY <1>10, <2>1, <2>2, NewMessageTypes DEF Return, TypeOK
    <2> QED
      BY <1>10, <2>1, <2>2, <2>3, NewMessageTypes
         DEF Return, TypeOK, tableVars, Points, Sending
  <1>11. ASSUME NEW p \in Processes, ReturnUnheard(p)
         PROVE  TypeOK'
    BY <1>11 DEF ReturnUnheard, TypeOK, tableVars, messageVars, sendVars, Points,
                 Releasing
  <1>12. ASSUME NEW p \in Processes, Drain(p)
         PROVE  TypeOK'
    <2>1. Found(p) \in Processes
      <3>1. pid[p] \in Slots
        BY <1>12 DEF Drain, Goto, BaseInv
      <3> QED
        BY <1>12, <3>1 DEF Drain, Found, TypeOK
    <2>2. target' \in [Processes -> Processes \union {NULL}]
      BY <1>12, <2>1 DEF Drain, TypeOK
    <2>3. queue' \in [Processes -> Seq(Messages)] /\ heap' \subseteq Messages
      BY <1>12, <2>1, QueueTypes DEF Drain, TypeOK
    <2> QED
      BY <1>12, <2>2, <2>3
         DEF Drain, Goto, TypeOK, tableVars, lifeVars, Points, Releasing
  <1>13. ASSUME NEW p \in Processes, DrainNull(p) \/ Clear(p) \/ ClearAgain(p)
         PROVE  TypeOK'
    BY <1>13 DEF DrainNull, Clear, ClearAgain, ClearSlot, Goto, TypeOK, tableVars,
                 messageVars, sendVars, lifeVars, Points, Releasing
  <1>14. CASE UNCHANGED vars
    BY <1>14 DEF vars, TypeOK
  <1> QED
    BY <1>1, <1>2, <1>3, <1>4, <1>5, <1>6, <1>7, <1>8, <1>9, <1>10, <1>11, <1>12,
       <1>13, <1>14
       DEF Next, UserStep, SendStep, ReleaseStep

\* Where a process and the one it spawns go on.
LEMMA SpawnPoints ==
  ASSUME TypeOK, NEW p \in Processes, NEW c \in Processes, Spawn(p, c)
  PROVE  /\ pc[p] = "running" /\ pc[c] = "unborn" /\ p \notin returned
         /\ \A q \in Processes :
              pc'[q] = IF q = c THEN "running" ELSE IF q = p THEN pc'[p] ELSE pc[q]
         /\ pc'[p] \in {"running", "set_pid"}
  <1>1. pc[p] = "running" /\ pc[c] = "unborn" /\ p \notin returned
    BY DEF Spawn, Running
  <1>2. \/ pc' = [pc EXCEPT ![c] = "running", ![p] = "set_pid"]
        \/ pc' = [pc EXCEPT ![c] = "running"]
    BY DEF Spawn
  <1>3. pc \in [Processes -> Points]
    BY DEF TypeOK
  <1> QED
    BY <1>1, <1>2, <1>3

\* The actions that leave the slots, the lives and the messages as they are.
Idle(p) ==
  \/ \E s \in Pids : Link(p, s)
  \/ Unlink(p)

\* The types hold whoever takes a slot between its two clears.
LEMMA BaseStep ==
  ASSUME TypeOK, BaseInv, [Next]_vars
  PROVE  BaseInv'
  <1> USE DEF BaseInv, TypeOK
  <1>1. ASSUME NEW p \in Processes, NEW c \in Processes, Spawn(p, c)
        PROVE  BaseInv'
    <2>1. /\ pc[p] = "running" /\ pc[c] = "unborn"
          /\ \A q \in Processes :
               pc'[q] = IF q = c THEN "running" ELSE IF q = p THEN pc'[p] ELSE pc[q]
          /\ pc'[p] \in {"running", "set_pid"}
      BY <1>1, SpawnPoints
    <2> PICK f \in Slots : f = FreeSlot
      BY <1>1, FreeSlotIsFree DEF Spawn
    <2>2. /\ pid' = [pid EXCEPT ![c] = f]
          /\ UNCHANGED <<message, destination_pid, target>>
      BY <1>1 DEF Spawn, messageVars, sendVars
    <2> QED
      BY <2>1, <2>2 DEF Sending
  <1>2. ASSUME NEW p \in Processes,
               SetPid(p) \/ ReturnUnheard(p) \/ DrainNull(p) \/ Clear(p) \/ ClearAgain(p)
        PROVE  BaseInv'
    BY <1>2 DEF SetPid, ReturnUnheard, DrainNull, Clear, ClearAgain, ClearSlot, Goto,
                Running, tableVars, messageVars, sendVars, Sending
  <1>3. ASSUME NEW p \in Processes, Idle(p)
        PROVE  BaseInv'
    BY <1>3 DEF Idle, Link, Unlink, tableVars, messageVars, sendVars
  <1>4. ASSUME NEW p \in Processes, NEW m \in Messages, NEW type, NEW d \in Pids,
               NewMessage(p, m, type, d), pc[p] = "running",
               pc' = [pc EXCEPT ![p] = "send_lookup"], UNCHANGED <<pid, target>>
        PROVE  BaseInv'
    <2>1. d \in Nat /\ m # NULL
      BY NodeAssumption
    <2> QED
      BY <1>4, <2>1 DEF NewMessage, Sending
  <1>5. ASSUME NEW p \in Processes, NEW m \in Messages, NEW d \in Pids, Send(p, m, d)
        PROVE  BaseInv'
    BY <1>4, <1>5 DEF Send, Running, tableVars
  <1>6. ASSUME NEW p \in Processes, NEW m \in Messages, Return(p, m)
        PROVE  BaseInv'
    <2>1. supervisor_pid[p] \in Pids
      BY <1>6 DEF Return
    <2> QED
      BY <1>4, <1>6, <2>1 DEF Return, Running, tableVars
  <1>7. ASSUME NEW p \in Processes, LookUp(p)
        PROVE  BaseInv'
    <2>1. destination_pid[p] \in Slots
      BY <1>7, NodeAssumption DEF LookUp, Goto, Slots, Sending
    <2> QED
      BY <1>7, <2>1 DEF LookUp, Goto, tableVars, messageVars, sendVars, Sending
  <1>8. ASSUME NEW p \in Processes, Load(p)
        PROVE  BaseInv'
    BY <1>8 DEF Load, Goto, tableVars, messageVars, Sending
  <1>9. ASSUME NEW p \in Processes,
               LookUpFails(p) \/ LoadNull(p) \/ Put(p) \/ PutFreed(p)
        PROVE  BaseInv'
    <2>1. /\ SendReturns(p) /\ UNCHANGED pid
          /\ \A q \in Processes : q # p => target'[q] = target[q]
      BY <1>9 DEF LookUpFails, LoadNull, Put, PutFreed, tableVars
    <2>2. /\ pc'[p] \in {"drain", "running"} /\ pid'[p] = pid[p] /\ pc[p] # "unborn"
          /\ \A q \in Processes : q # p =>
               UNCHANGED <<pc[q], pid[q], message[q], destination_pid[q], target[q]>>
      BY <1>9, <2>1 DEF SendReturns, LookUpFails, LoadNull, Put, PutFreed
    <2> QED
      BY <2>2 DEF Sending
  <1>10. ASSUME NEW p \in Processes, Receive(p)
         PROVE  BaseInv'
    BY <1>10 DEF Receive, Running, tableVars, sendVars, Sending
  <1>11. ASSUME NEW p \in Processes, Dispose(p)
         PROVE  BaseInv'
    BY <1>11 DEF Dispose, Goto, tableVars, sendVars, Sending
  <1>12. ASSUME NEW p \in Processes, Drain(p)
         PROVE  BaseInv'
    BY <1>12 DEF Drain, Goto, tableVars, Sending
  <1>13. ASSUME NEW p \in Processes, Free(p)
         PROVE  BaseInv'
    BY <1>13 DEF Free, Goto, messageVars, Sending
  <1>14. CASE UNCHANGED vars
    BY <1>14 DEF vars
  <1> QED
    BY <1>1, <1>2, <1>3, <1>5, <1>6, <1>7, <1>8, <1>9, <1>10, <1>11, <1>12, <1>13, <1>14
       DEF Next, UserStep, SendStep, ReleaseStep, Idle

\* The queue a process releases is its own.
LEMMA FoundIsOwn ==
  ASSUME SlotInv, NEW p \in Processes, pc[p] = "drain"
  PROVE  Found(p) = p /\ ~ DrainNull(p)
  BY NodeAssumption DEF SlotInv, Here, Found, DrainNull

LEMMA DrainOwn ==
  ASSUME SlotInv, NEW p \in Processes, Drain(p)
  PROVE  /\ target' = [target EXCEPT ![p] = p]
         /\ queue[p] = <<>> => UNCHANGED <<queue, heap>>
         /\ queue[p] # <<>> => /\ heap' = heap \ {Head(queue[p])}
                               /\ queue' = [queue EXCEPT ![p] = Tail(@)]
  <1>1. Found(p) = p
    BY FoundIsOwn DEF Drain, Goto
  <1> QED
    BY <1>1 DEF Drain

\* What each process holds goes with where it is.
LEMMA LifeStep ==
  ASSUME TypeOK, BaseInv, LifeInv, SlotInv, [Next]_vars
  PROVE  LifeInv'
  <1> USE DEF LifeInv, TypeOK
  <1>0. \A q \in Processes :
          target[q] # NULL => target[q] \in Processes /\ pc[target[q]] # "unborn"
    OBVIOUS
  <1>1. ASSUME NEW p \in Processes, NEW c \in Processes, Spawn(p, c)
        PROVE  LifeInv'
    <2>1. /\ pc[p] = "running" /\ pc[c] = "unborn"
          /\ \A q \in Processes :
               pc'[q] = IF q = c THEN "running" ELSE IF q = p THEN pc'[p] ELSE pc[q]
          /\ pc'[p] \in {"running", "set_pid"}
      BY <1>1, SpawnPoints
    <2>2. allocated' = allocated \union {c} /\ UNCHANGED <<returned, message, target>>
      BY <1>1 DEF Spawn, messageVars, sendVars
    <2>3. c \notin returned /\ message[c] = NULL /\ target[c] = NULL /\ target[p] = NULL
          /\ message[p] = NULL /\ p \in allocated /\ p # c
      BY <2>1 DEF Sending, Releasing
    <2>4. \A q \in Processes : pc'[q] = "unborn" => pc[q] = "unborn"
      BY <2>1
    <2> SUFFICES ASSUME NEW q \in Processes
                 PROVE  /\ q \in returned' =>
                             pc'[q] \in Sending \union Releasing \union {"gone"}
                        /\ pc'[q] \in Releasing \union {"gone"} => q \in returned'
                        /\ q \in allocated' <=>
                             pc'[q] \notin {"unborn", "clear", "clear_again", "gone"}
                        /\ message'[q] # NULL <=> pc'[q] \in Sending \union {"received"}
                        /\ target'[q] # NULL <=> pc'[q] \in {"send_put", "free"}
                        /\ target'[q] # NULL => pc'[target'[q]] # "unborn"
                        /\ pc'[q] = "free" => target'[q] = q
      BY DEF LifeInv
    <2>5. CASE q = c \/ q = p
      BY <2>1, <2>2, <2>3, <2>5 DEF Sending, Releasing
    <2>6. CASE q # c /\ q # p
      BY <2>1, <2>2, <2>4, <2>6
    <2> QED
      BY <2>5, <2>6
  <1>2. ASSUME NEW p \in Processes, SetPid(p)
        PROVE  LifeInv'
    BY <1>2 DEF SetPid, Goto, tableVars, messageVars, sendVars, Sending, Releasing
  <1>3. ASSUME NEW p \in Processes, Idle(p)
        PROVE  LifeInv'
    BY <1>3 DEF Idle, Link, Unlink, tableVars, messageVars, sendVars
  <1>4. ASSUME NEW p \in Processes, NEW m \in Messages, NEW d \in Pids, Send(p, m, d)
        PROVE  LifeInv'
    BY <1>4, NodeAssumption
       DEF Send, Running, NewMessage, tableVars, lifeVars, Sending, Releasing
  <1>5. ASSUME NEW p \in Processes, LookUp(p)
        PROVE  LifeInv'
    BY <1>5 DEF LookUp, Goto, tableVars, messageVars, sendVars, lifeVars, Sending,
                Releasing
  <1>6. ASSUME NEW p \in Processes,
               LookUpFails(p) \/ LoadNull(p) \/ Put(p) \/ PutFreed(p)
        PROVE  LifeInv'
    <2>1. /\ pc[p] \in Sending
          /\ SendReturns(p)
          /\ target' = [target EXCEPT ![p] = NULL]
          /\ UNCHANGED <<allocated, returned>>
      BY <1>6 DEF LookUpFails, LoadNull, Put, PutFreed, tableVars, lifeVars, Sending
    <2> QED
      BY <2>1 DEF SendReturns, Sending, Releasing
  <1>7. ASSUME NEW p \in Processes, Load(p)
        PROVE  LifeInv'
    <2>1. message_queues[destination_pid[p]] # NULL
          /\ pc[message_queues[destination_pid[p]]] # "unborn"
      <3>1. destination_pid[p] \in Slots
        BY <1>7 DEF Load, Goto, BaseInv
      <3> QED
        BY <1>7, <3>1 DEF Load, SlotInv, Here
    <2>2. /\ pc[p] = "send_load" /\ pc'[p] = "send_put"
          /\ target'[p] \in Processes /\ target'[p] # NULL
          /\ pc[target'[p]] # "unborn"
          /\ \A q \in Processes : q # p => target'[q] = target[q] /\ pc'[q] = pc[q]
          /\ UNCHANGED <<allocated, returned, message>>
      BY <1>7, <2>1 DEF Load, Goto, BaseInv, tableVars, messageVars, lifeVars
    <2>3. \A u \in Processes : pc'[u] = "unborn" => pc[u] = "unborn"
      BY <2>2
    <2> HIDE DEF TypeOK, LifeInv
    <2>4. ASSUME NEW q \in Processes, target'[q] # NULL
          PROVE  pc'[target'[q]] # "unborn"
      <3>1. target'[q] \in Processes /\ pc[target'[q]] # "unborn"
        BY <1>0, <2>2, <2>4
      <3> QED
        BY <2>3, <3>1
    <2> QED
      BY <2>2, <2>4 DEF LifeInv, Sending, Releasing
  <1>8. ASSUME NEW p \in Processes, Receive(p)
        PROVE  LifeInv'
    <2>1. Head(queue[p]) # NULL
      BY <1>8, NodeAssumption, QueueTypes DEF Receive
    <2> QED
      BY <1>8, <2>1
         DEF Receive, Running, tableVars, sendVars, lifeVars, Sending, Releasing
  <1>9. ASSUME NEW p \in Processes, Dispose(p)
        PROVE  LifeInv'
    BY <1>9 DEF Dispose, Goto, tableVars, sendVars, lifeVars, Sending, Releasing
  <1>10. ASSUME NEW p \in Processes, NEW m \in Messages, Return(p, m)
         PROVE  LifeInv'
    BY <1>10, NodeAssumption
       DEF Return, Running, NewMessage, tableVars, Sending, Releasing
  <1>11. ASSUME NEW p \in Processes, ReturnUnheard(p)
         PROVE  LifeInv'
    BY <1>11 DEF ReturnUnheard, Running, tableVars, messageVars, sendVars, Sending,
                 Releasing
  <1>12. ASSUME NEW p \in Processes, Drain(p)
         PROVE  LifeInv'
    <2>1. target' = [target EXCEPT ![p] = p] /\ p # NULL
      BY <1>12, DrainOwn, NodeAssumption
    <2>2. /\ pc[p] = "drain" /\ pc'[p] = "free" /\ target'[p] = p
          /\ \A q \in Processes : q # p => target'[q] = target[q] /\ pc'[q] = pc[q]
          /\ UNCHANGED <<allocated, returned, message>>
      BY <1>12, <2>1 DEF Drain, Goto, tableVars, lifeVars
    <2>3. \A u \in Processes : pc'[u] = "unborn" => pc[u] = "unborn"
      BY <2>2
    <2> HIDE DEF TypeOK, LifeInv
    <2>4. ASSUME NEW q \in Processes, target'[q] # NULL
          PROVE  pc'[target'[q]] # "unborn"
      <3>1. target'[q] \in Processes /\ pc[target'[q]] # "unborn"
        BY <1>0, <2>2, <2>4
      <3> QED
        BY <2>3, <3>1
    <2> QED
      BY <2>1, <2>2, <2>4 DEF LifeInv, Sending, Releasing
  <1>13. ASSUME NEW p \in Processes, Free(p)
         PROVE  LifeInv'
    <2>1. /\ pc[p] = "free" /\ pc'[p] = "clear" /\ target[p] = p
          /\ \A q \in Processes : q # p => target'[q] = target[q] /\ pc'[q] = pc[q]
          /\ target'[p] = NULL /\ allocated' = allocated \ {p}
          /\ UNCHANGED <<returned, message>>
      BY <1>13 DEF Free, Goto, messageVars, lifeVars
    <2> HIDE DEF TypeOK, LifeInv
    <2>2. ASSUME NEW q \in Processes, target'[q] # NULL
          PROVE  pc'[target'[q]] # "unborn"
      BY <1>0, <2>1, <2>2
    <2> QED
      BY <2>1, <2>2 DEF LifeInv, Sending, Releasing
  <1>14. ASSUME NEW p \in Processes, DrainNull(p) \/ Clear(p) \/ ClearAgain(p)
         PROVE  LifeInv'
    <2>1. ~ DrainNull(p)
      BY FoundIsOwn DEF DrainNull, Goto
    <2>2. CASE Clear(p)
      BY <2>2 DEF Clear, ClearSlot, Goto, messageVars, sendVars, lifeVars, Sending,
                  Releasing
    <2>3. CASE ClearAgain(p)
      BY <2>3 DEF ClearAgain, ClearSlot, Goto, messageVars, sendVars, lifeVars, Sending,
                  Releasing
    <2> QED
      BY <1>14, <2>1, <2>2, <2>3
  <1>15. CASE UNCHANGED vars
    BY <1>15 DEF vars
  <1> QED
    BY <1>1, <1>2, <1>3, <1>4, <1>5, <1>6, <1>7, <1>8, <1>9, <1>10, <1>11, <1>12,
       <1>13, <1>14, <1>15
       DEF Next, UserStep, SendStep, ReleaseStep, Idle

\* Only a spawn and the end of a release touch the slots.
LEMMA SlotStep ==
  ASSUME TypeOK, BaseInv, LifeInv, SlotInv, [Next]_vars, ~ reused'
  PROVE  SlotInv'
  <1> USE DEF SlotInv, Here
  <1>1. ASSUME NEW p \in Processes, NEW c \in Processes, Spawn(p, c)
        PROVE  SlotInv'
    <2>1. /\ pc[p] = "running" /\ pc[c] = "unborn"
          /\ \A q \in Processes :
               pc'[q] = IF q = c THEN "running" ELSE IF q = p THEN pc'[p] ELSE pc[q]
          /\ pc'[p] \in {"running", "set_pid"}
      BY <1>1, SpawnPoints
    <2> PICK f \in Slots : f = FreeSlot /\ message_queues[f] = NULL
      BY <1>1, FreeSlotIsFree DEF Spawn
    <2>2. /\ message_queues' = [message_queues EXCEPT ![f] = c]
          /\ pid' = [pid EXCEPT ![c] = f]
          /\ \A u \in Processes : pc[u] = "clear_again" => pid[u] # f
      BY <1>1 DEF Spawn
    <2>3. c # NULL /\ \A q \in Processes : q # NULL
      BY NodeAssumption
    <2>4. \A q \in Processes : pc[q] # "unborn" => pid[q] \in Slots
      BY DEF BaseInv
    <2>5. /\ pc'[c] = "running" /\ pid'[c] = f /\ message_queues'[f] = c
          /\ \A q \in Processes : q # c => pid'[q] = pid[q]
          /\ \A t \in Slots : t # f => message_queues'[t] = message_queues[t]
      BY <2>1, <2>2 DEF TypeOK
    <2>6. \A q \in Processes : q # c =>
            /\ Here(q)' <=> Here(q)
            /\ pc'[q] = "clear_again" <=> pc[q] = "clear_again"
      BY <2>1
    <2>7. \A q \in Processes : q # c /\ Here(q) => pid[q] # f
      BY <2>3
    <2>8. ASSUME NEW q \in Processes, Here(q)'
          PROVE  message_queues'[pid'[q]] = q
      BY <2>4, <2>5, <2>6, <2>7, <2>8
    <2>9. ASSUME NEW q \in Processes, pc'[q] = "clear_again"
          PROVE  message_queues'[pid'[q]] = NULL
      BY <2>2, <2>4, <2>5, <2>6, <2>9
    <2>10. ASSUME NEW t \in Slots, message_queues'[t] # NULL
           PROVE  /\ pc'[message_queues'[t]] \notin {"unborn", "clear_again", "gone"}
                  /\ pid'[message_queues'[t]] = t
      <3>1. CASE t = f
        BY <2>5, <3>1
      <3>2. CASE t # f
        <4>1. message_queues[t] \in Processes /\ Here(message_queues[t])
          BY <2>5, <2>10, <3>2 DEF TypeOK
        <4> QED
          BY <2>1, <2>5, <2>6, <2>10, <3>2, <4>1
      <3> QED
        BY <3>1, <3>2
    <2> QED
      BY <2>8, <2>9, <2>10
  <1>2. ASSUME NEW p \in Processes, Clear(p)
        PROVE  SlotInv'
    <2>1. /\ pc[p] = "clear" /\ pc' = [pc EXCEPT ![p] = "clear_again"]
          /\ message_queues' = [message_queues EXCEPT ![pid[p]] = NULL]
          /\ UNCHANGED pid
      BY <1>2 DEF Clear, ClearSlot, Goto
    <2>2. /\ message_queues[pid[p]] = p
          /\ \A q \in Processes : pc[q] # "unborn" => pid[q] \in Slots
      BY <2>1 DEF BaseInv
    <2> QED
      BY <2>1, <2>2 DEF TypeOK
  <1>12. ASSUME NEW p \in Processes, ClearAgain(p)
         PROVE  SlotInv'
    <2>1. /\ pc[p] = "clear_again" /\ pc' = [pc EXCEPT ![p] = "gone"]
          /\ message_queues' = [message_queues EXCEPT ![pid[p]] = NULL]
          /\ UNCHANGED pid
      BY <1>12 DEF ClearAgain, ClearSlot, Goto
    <2>2. pid[p] \in Slots /\ message_queues[pid[p]] = NULL
      BY <2>1 DEF BaseInv
    <2>3. UNCHANGED message_queues
      BY <2>1, <2>2 DEF TypeOK
    <2> QED
      BY <2>1, <2>3 DEF TypeOK
  <1>3. ASSUME UNCHANGED <<message_queues, pid>>,
               \A q \in Processes :
                 /\ pc'[q] = "unborn" <=> pc[q] = "unborn"
                 /\ pc'[q] = "clear_again" <=> pc[q] = "clear_again"
                 /\ pc'[q] = "gone" <=> pc[q] = "gone"
        PROVE  SlotInv'
    BY <1>3 DEF TypeOK
  <1>4. ASSUME NEW p \in Processes, UNCHANGED <<message_queues, pid>>,
               pc' = [pc EXCEPT ![p] = pc'[p]], Here(p), Here(p)'
        PROVE  SlotInv'
    BY <1>3, <1>4 DEF TypeOK
  <1>5. ASSUME NEW p \in Processes, SetPid(p) \/ LookUp(p) \/ Load(p) \/ Dispose(p)
                                      \/ Drain(p) \/ Free(p)
        PROVE  SlotInv'
    BY <1>4, <1>5 DEF SetPid, LookUp, Load, Dispose, Drain, Free, Goto, tableVars, TypeOK
  <1>11. ASSUME NEW p \in Processes
         PROVE  ~ DrainNull(p)
    BY FoundIsOwn DEF DrainNull, Goto
  <1>6. ASSUME NEW p \in Processes, Idle(p)
        PROVE  SlotInv'
    BY <1>3, <1>6 DEF Idle, Link, Unlink, tableVars
  <1>7. ASSUME NEW p \in Processes,
               \/ \E m \in Messages, d \in Pids : Send(p, m, d)
               \/ \E m \in Messages : Return(p, m)
               \/ ReturnUnheard(p)
               \/ Receive(p)
        PROVE  SlotInv'
    BY <1>4, <1>7 DEF Send, Return, ReturnUnheard, Receive, Running, tableVars, TypeOK
  <1>8. ASSUME NEW p \in Processes,
               LookUpFails(p) \/ LoadNull(p) \/ Put(p) \/ PutFreed(p)
        PROVE  SlotInv'
    BY <1>4, <1>8
       DEF LookUpFails, LoadNull, Put, PutFreed, SendReturns, tableVars, TypeOK
  <1>9. CASE UNCHANGED vars
    BY <1>3, <1>9 DEF vars
  <1> QED
    BY <1>1, <1>2, <1>5, <1>6, <1>7, <1>8, <1>9, <1>11, <1>12
       DEF Next, UserStep, SendStep, ReleaseStep, Idle
-----------------------------------------------------------------------------
(* Where the messages are.                                                 *)

Members(s) == {s[i] : i \in DOMAIN s}
Distinct(s) == \A i, j \in DOMAIN s : s[i] = s[j] => i = j

LEMMA AppendMembers ==
  ASSUME NEW S, NEW s \in Seq(S), NEW x \in S
  PROVE  /\ Members(Append(s, x)) = Members(s) \union {x}
         /\ Distinct(s) /\ x \notin Members(s) => Distinct(Append(s, x))
  <1> DEFINE t == Append(s, x)
  <1>1. /\ Len(s) \in Nat /\ Len(t) = Len(s) + 1
        /\ DOMAIN s = 1 .. Len(s) /\ DOMAIN t = 1 .. Len(s) + 1
        /\ \A i \in 1 .. Len(s) : t[i] = s[i]
        /\ t[Len(s) + 1] = x
    BY AppendProperties, LenProperties
  <1> HIDE DEF t
  <1>2. \A i \in 1 .. Len(s) + 1 : i \in 1 .. Len(s) \/ i = Len(s) + 1
    BY <1>1
  <1>3. Members(t) = Members(s) \union {x}
    BY <1>1, <1>2 DEF Members
  <1>4. ASSUME Distinct(s), x \notin Members(s)
        PROVE  Distinct(t)
    BY <1>1, <1>2, <1>4 DEF Distinct, Members
  <1> QED
    BY <1>3, <1>4 DEF t

LEMMA TailMembers ==
  ASSUME NEW S, NEW s \in Seq(S), s # <<>>, Distinct(s)
  PROVE  /\ Members(Tail(s)) = Members(s) \ {Head(s)}
         /\ Head(s) \in Members(s)
         /\ Distinct(Tail(s))
  <1> DEFINE t == Tail(s)
             h == Head(s)
  <1>1. /\ Len(s) \in Nat /\ Len(s) > 0 /\ h = s[1]
        /\ DOMAIN s = 1 .. Len(s) /\ DOMAIN t = 1 .. Len(s) - 1
        /\ \A i \in 1 .. Len(s) - 1 : t[i] = s[i + 1]
    <2>1. /\ t \in Seq(S) /\ Len(t) = Len(s) - 1
          /\ \A i \in 1 .. Len(t) : t[i] = s[i + 1]
      BY HeadTailProperties
    <2>2. Len(s) \in Nat /\ Len(s) # 0 /\ DOMAIN s = 1 .. Len(s) /\ h = s[1]
      BY LenProperties, EmptySeq
    <2>3. DOMAIN t = 1 .. Len(t)
      BY <2>1, LenProperties
    <2> HIDE DEF t, h
    <2> QED
      BY <2>1, <2>2, <2>3
  <1> HIDE DEF t, h
  <1>2. /\ \A i \in 1 .. Len(s) - 1 : i + 1 \in 1 .. Len(s) /\ i + 1 # 1
        /\ \A i \in 1 .. Len(s) : i = 1 \/ (i - 1 \in 1 .. Len(s) - 1 /\ (i - 1) + 1 = i)
        /\ 1 \in 1 .. Len(s)
    BY <1>1
  <1>3. \A i, j \in 1 .. Len(s) : s[i] = s[j] => i = j
    BY <1>1 DEF Distinct
  <1>4. Members(t) \subseteq Members(s) \ {h}
    <2>1. \A i \in 1 .. Len(s) - 1 : t[i] = s[i + 1] /\ s[i + 1] # h
      BY <1>1, <1>2, <1>3
    <2> QED
      BY <1>1, <1>2, <2>1 DEF Members
  <1>5. Members(s) \ {h} \subseteq Members(t)
    <2>1. \A i \in 1 .. Len(s) : s[i] # h => i - 1 \in 1 .. Len(s) - 1 /\ t[i - 1] = s[i]
      BY <1>1, <1>2
    <2> QED
      BY <1>1, <2>1 DEF Members
  <1>6. Distinct(t)
    <2>1. \A i, j \in 1 .. Len(s) - 1 : t[i] = t[j] => i + 1 = j + 1
      BY <1>1, <1>2, <1>3
    <2> QED
      BY <1>1, <2>1 DEF Distinct
  <1>7. h \in Members(s)
    BY <1>1, <1>2 DEF Members
  <1> QED
    BY <1>4, <1>5, <1>6, <1>7 DEF t, h

\* The queues, as sets of messages.
LEMMA QueuedProperties ==
  ASSUME TypeOK, OnePlaced, NEW u \in Processes
  PROVE  /\ Queued(u) = Members(queue[u]) /\ Distinct(queue[u])
         /\ Queued(u) \subseteq Messages
         /\ NULL \notin Queued(u)
  <1>1. queue[u] \in Seq(Messages)
    BY DEF TypeOK
  <1>2. \A i \in DOMAIN queue[u] : queue[u][i] \in Messages
    BY <1>1, ElementOfSeq, LenProperties
  <1> QED
    BY <1>2, NodeAssumption DEF Queued, Members, OnePlaced, Distinct

\* Who holds a message, in terms of the sets of messages in the queues.
Placed ==
  /\ \A p, u \in Processes : message[p] # NULL /\ message[p] = message[u] => p = u
  /\ \A p, u \in Processes : message[p] \notin Queued(u)
  /\ \A p, u \in Processes : p # u => Queued(p) \intersect Queued(u) = {}
  /\ \A p \in Processes : message[p] # NULL => message[p] \in heap
  /\ \A u \in Processes : Queued(u) \subseteq heap

AllDistinct == \A u \in Processes : Distinct(queue[u])

LEMMA PlaceFacts ==
  ASSUME TypeOK, PlaceInv
  PROVE  /\ Placed
         /\ AllDistinct
         /\ \A u \in Processes : Queued(u) \subseteq Messages /\ NULL \notin Queued(u)
  BY QueuedProperties DEF PlaceInv, OnePlaced, Placed, AllDistinct

LEMMA PlaceFromFacts ==
  (Placed /\ AllDistinct)' => PlaceInv'
  BY DEF PlaceInv, OnePlaced, Placed, AllDistinct, Distinct

\* A queue that gets a message, and one that gives its first.
LEMMA QueuePut ==
  ASSUME TypeOK, OnePlaced, NEW u \in Processes, NEW m \in Messages,
         m \notin Queued(u),
         queue' = [queue EXCEPT ![u] = Append(@, m)]
  PROVE  /\ Queued(u)' = Queued(u) \union {m}
         /\ \A q \in Processes : q # u => Queued(q)' = Queued(q)
         /\ AllDistinct'
  <1>1. queue[u] \in Seq(Messages) /\ queue'[u] = Append(queue[u], m)
    BY DEF TypeOK
  <1>2. \A q \in Processes : q # u => queue'[q] = queue[q]
    BY DEF TypeOK
  <1>3. \A q \in Processes : Queued(q)' = Members(queue'[q])
    BY DEF Queued, Members
  <1>4. \A q \in Processes : Queued(q) = Members(queue[q]) /\ Distinct(queue[q])
    BY QueuedProperties
  <1>5. /\ Members(queue'[u]) = Members(queue[u]) \union {m}
        /\ Distinct(queue'[u])
    BY <1>1, <1>4, AppendMembers
  <1>6. AllDistinct'
    BY <1>2, <1>4, <1>5 DEF AllDistinct
  <1> QED
    BY <1>2, <1>3, <1>4, <1>5, <1>6

LEMMA QueueGet ==
  ASSUME TypeOK, OnePlaced, NEW u \in Processes, queue[u] # <<>>,
         queue' = [queue EXCEPT ![u] = Tail(@)]
  PROVE  /\ Head(queue[u]) \in Queued(u)
         /\ Queued(u)' = Queued(u) \ {Head(queue[u])}
         /\ \A q \in Processes : q # u => Queued(q)' = Queued(q)
         /\ AllDistinct'
  <1>1. queue[u] \in Seq(Messages) /\ queue'[u] = Tail(queue[u])
    BY DEF TypeOK
  <1>2. \A q \in Processes : q # u => queue'[q] = queue[q]
    BY DEF TypeOK
  <1>3. \A q \in Processes : Queued(q)' = Members(queue'[q])
    BY DEF Queued, Members
  <1>4. \A q \in Processes : Queued(q) = Members(queue[q]) /\ Distinct(queue[q])
    BY QueuedProperties
  <1>5. /\ Members(queue'[u]) = Members(queue[u]) \ {Head(queue[u])}
        /\ Head(queue[u]) \in Members(queue[u])
        /\ Distinct(queue'[u])
    BY <1>1, <1>4, TailMembers
  <1>6. AllDistinct'
    BY <1>2, <1>4, <1>5 DEF AllDistinct
  <1> QED
    BY <1>2, <1>3, <1>4, <1>5, <1>6

\* A message is made, passed on, received or disposed of, by one process.
LEMMA PlaceStep ==
  ASSUME Intact, [Next]_vars
  PROVE  PlaceInv'
  <1>1. /\ TypeOK /\ OnePlaced
        /\ \A p \in Processes :
             message[p] # NULL <=> pc[p] \in Sending \union {"received"}
    BY DEF Intact, PlaceInv, LifeInv
  <1>2. /\ Placed /\ AllDistinct
        /\ \A u \in Processes : Queued(u) \subseteq Messages /\ NULL \notin Queued(u)
    BY PlaceFacts DEF Intact
  <1>3. message \in [Processes -> Messages \union {NULL}] /\ heap \subseteq Messages
    BY <1>1 DEF TypeOK
  <1>4. ASSUME UNCHANGED <<queue, heap, message>>
        PROVE  PlaceInv'
    <2>1. PlaceInv
      BY DEF Intact
    <2> QED
      BY <1>4, <2>1 DEF PlaceInv, OnePlaced, Queued
  <1>5. ASSUME NEW p \in Processes, NEW m \in Messages, m \notin heap,
               heap' = heap \union {m}, message' = [message EXCEPT ![p] = m],
               UNCHANGED queue
        PROVE  PlaceInv'
    <2>1. \A u \in Processes : Queued(u)' = Queued(u)
      BY <1>5 DEF Queued
    <2>2. \A q \in Processes : message'[q] = IF q = p THEN m ELSE message[q]
      BY <1>3, <1>5
    <2>3. AllDistinct'
      BY <1>2, <1>5 DEF AllDistinct
    <2>4. Placed'
      BY <1>2, <1>5, <2>1, <2>2 DEF Placed
    <2> QED
      BY <2>3, <2>4, PlaceFromFacts
  <1>6. ASSUME NEW p \in Processes, heap' \in {heap, heap \ {message[p]}},
               message' = [message EXCEPT ![p] = NULL], UNCHANGED queue
        PROVE  PlaceInv'
    <2>1. \A u \in Processes : Queued(u)' = Queued(u)
      BY <1>6 DEF Queued
    <2>2. \A q \in Processes : message'[q] = IF q = p THEN NULL ELSE message[q]
      BY <1>3, <1>6
    <2>3. AllDistinct'
      BY <1>2, <1>6 DEF AllDistinct
    <2>4. Placed'
      BY <1>2, <1>6, <2>1, <2>2 DEF Placed
    <2> QED
      BY <2>3, <2>4, PlaceFromFacts
  <1>7. ASSUME NEW p \in Processes, Put(p)
        PROVE  PlaceInv'
    <2> PICK u \in Processes, m \in Messages : u = target[p] /\ m = message[p]
      BY <1>1, <1>7 DEF Put, Intact, BaseInv, LifeInv, TypeOK, Sending
    <2>1. /\ queue' = [queue EXCEPT ![u] = Append(@, m)]
          /\ message' = [message EXCEPT ![p] = NULL]
          /\ UNCHANGED heap
          /\ m # NULL
      BY <1>7, NodeAssumption DEF Put, SendReturns
    <2>2. m \notin Queued(u)
      BY <1>2 DEF Placed
    <2>3. /\ Queued(u)' = Queued(u) \union {m}
          /\ \A q \in Processes : q # u => Queued(q)' = Queued(q)
          /\ AllDistinct'
      BY <1>1, <2>1, <2>2, QueuePut
    <2>4. \A q \in Processes : message'[q] = IF q = p THEN NULL ELSE message[q]
      BY <1>3, <2>1
    <2>5. Placed'
      BY <1>2, <2>1, <2>3, <2>4 DEF Placed
    <2> QED
      BY <2>3, <2>5, PlaceFromFacts
  <1>8. ASSUME NEW p \in Processes, queue[p] # <<>>,
               queue' = [queue EXCEPT ![p] = Tail(@)],
               \/ /\ message[p] = NULL
                  /\ message' = [message EXCEPT ![p] = Head(queue[p])]
                  /\ UNCHANGED heap
               \/ UNCHANGED message /\ heap' = heap \ {Head(queue[p])}
        PROVE  PlaceInv'
    <2>1. /\ Head(queue[p]) \in Queued(p)
          /\ Queued(p)' = Queued(p) \ {Head(queue[p])}
          /\ \A q \in Processes : q # p => Queued(q)' = Queued(q)
          /\ AllDistinct'
      BY <1>1, <1>8, QueueGet
    <2>2. CASE /\ message' = [message EXCEPT ![p] = Head(queue[p])]
               /\ UNCHANGED heap
      <3>1. \A q \in Processes :
              message'[q] = IF q = p THEN Head(queue[p]) ELSE message[q]
        BY <1>3, <2>2
      <3>2. Placed'
        BY <1>2, <2>1, <2>2, <3>1 DEF Placed
      <3> QED
        BY <2>1, <3>2, PlaceFromFacts
    <2>3. CASE UNCHANGED message /\ heap' = heap \ {Head(queue[p])}
      <3>1. Placed'
        BY <1>2, <2>1, <2>3 DEF Placed
      <3> QED
        BY <2>1, <3>1, PlaceFromFacts
    <2> QED
      BY <1>8, <2>2, <2>3
  <1>9. ASSUME NEW p \in Processes, UserStep(p)
        PROVE  PlaceInv'
    <2>1. ASSUME NEW m \in Messages, NEW d \in Pids, Send(p, m, d)
          PROVE  PlaceInv'
      BY <1>5, <2>1 DEF Send, NewMessage
    <2>2. ASSUME NEW m \in Messages, Return(p, m)
          PROVE  PlaceInv'
      BY <1>5, <2>2 DEF Return, NewMessage
    <2>3. CASE \/ \E c \in Processes : Spawn(p, c)
               \/ \E s \in Pids : Link(p, s)
               \/ Unlink(p)
               \/ ReturnUnheard(p)
      BY <1>4, <2>3 DEF Spawn, Link, Unlink, ReturnUnheard, messageVars
    <2> QED
      BY <1>9, <2>1, <2>2, <2>3 DEF UserStep
  <1>10. ASSUME NEW p \in Processes, SendStep(p) \/ Dispose(p)
         PROVE  PlaceInv'
    <2>1. CASE LookUp(p) \/ Load(p)
      BY <1>4, <2>1 DEF LookUp, Load, messageVars
    <2>2. CASE LookUpFails(p) \/ LoadNull(p) \/ PutFreed(p) \/ Dispose(p)
      BY <1>6, <2>2 DEF LookUpFails, LoadNull, PutFreed, Dispose, SendReturns
    <2> QED
      BY <1>7, <1>10, <2>1, <2>2 DEF SendStep
  <1>11. ASSUME NEW p \in Processes, Receive(p) \/ ReleaseStep(p)
         PROVE  PlaceInv'
    <2>1. CASE Receive(p)
      <3>1. message[p] = NULL
        BY <1>1, <2>1 DEF Receive, Running, Sending
      <3> QED
        BY <1>8, <2>1, <3>1 DEF Receive
    <2>2. CASE Drain(p)
      <3>1. /\ UNCHANGED message
            /\ queue[p] = <<>> => UNCHANGED <<queue, heap>>
            /\ queue[p] # <<>> => /\ heap' = heap \ {Head(queue[p])}
                                  /\ queue' = [queue EXCEPT ![p] = Tail(@)]
        BY <2>2, DrainOwn DEF Drain, Intact
      <3> QED
        BY <1>4, <1>8, <3>1
    <2>3. CASE DrainNull(p) \/ Free(p) \/ Clear(p) \/ ClearAgain(p)
      BY <1>4, <2>3 DEF DrainNull, Free, Clear, ClearAgain, ClearSlot, messageVars
    <2> QED
      BY <1>11, <2>1, <2>2, <2>3 DEF ReleaseStep
  <1>12. CASE (\E p \in Processes : SetPid(p)) \/ UNCHANGED vars
    BY <1>4, <1>12 DEF SetPid, messageVars, vars
  <1> QED
    BY <1>9, <1>10, <1>11, <1>12 DEF Next
-----------------------------------------------------------------------------
(* Whom the messages are meant for.                                        *)

\* A process that has been spawned stays so, and keeps its pid; one that is gone
\* does not come back.
LEMMA Onward ==
  ASSUME TypeOK, [Next]_vars
  PROVE  \A q \in Processes :
           /\ pc[q] # "unborn" => pc'[q] # "unborn" /\ pid'[q] = pid[q]
           /\ pc[q] = "gone" => pc'[q] = "gone"
           /\ q \in returned => q \in returned'
  <1> USE DEF TypeOK
  <1>1. ASSUME NEW p \in Processes, NEW c \in Processes, Spawn(p, c)
        PROVE  \A q \in Processes :
                 /\ pc[q] # "unborn" => pc'[q] # "unborn" /\ pid'[q] = pid[q]
                 /\ pc[q] = "gone" => pc'[q] = "gone"
                 /\ q \in returned => q \in returned'
    <2>1. /\ pc[p] = "running" /\ pc[c] = "unborn"
          /\ \A q \in Processes :
               pc'[q] = IF q = c THEN "running" ELSE IF q = p THEN pc'[p] ELSE pc[q]
          /\ pc'[p] \in {"running", "set_pid"}
      BY <1>1, SpawnPoints
    <2>2. pid' = [pid EXCEPT ![c] = FreeSlot] /\ UNCHANGED returned
      BY <1>1 DEF Spawn
    <2> QED
      BY <2>1, <2>2
  <1>2. ASSUME NEW p \in Processes, UNCHANGED pid, returned \subseteq returned',
               pc' = [pc EXCEPT ![p] = pc'[p]],
               pc[p] \notin {"unborn", "gone"}, pc'[p] # "unborn"
        PROVE  \A q \in Processes :
                 /\ pc[q] # "unborn" => pc'[q] # "unborn" /\ pid'[q] = pid[q]
                 /\ pc[q] = "gone" => pc'[q] = "gone"
                 /\ q \in returned => q \in returned'
    BY <1>2
  <1>3. ASSUME UNCHANGED <<pc, pid, returned>>
        PROVE  \A q \in Processes :
                 /\ pc[q] # "unborn" => pc'[q] # "unborn" /\ pid'[q] = pid[q]
                 /\ pc[q] = "gone" => pc'[q] = "gone"
                 /\ q \in returned => q \in returned'
    BY <1>3
  <1>4. ASSUME NEW p \in Processes,
               SetPid(p) \/ LookUp(p) \/ Load(p) \/ Dispose(p) \/ ReleaseStep(p)
        PROVE  /\ UNCHANGED <<pid, returned>> /\ pc' = [pc EXCEPT ![p] = pc'[p]]
               /\ pc[p] \notin {"unborn", "gone"} /\ pc'[p] # "unborn"
    BY <1>4 DEF SetPid, LookUp, Load, Dispose, ReleaseStep, Drain, DrainNull, Free, Clear,
                ClearAgain, ClearSlot, Goto,
                tableVars, lifeVars
  <1>5. ASSUME NEW p \in Processes,
               \/ \E m \in Messages, d \in Pids : Send(p, m, d)
               \/ \E m \in Messages : Return(p, m)
               \/ ReturnUnheard(p)
               \/ Receive(p)
        PROVE  /\ UNCHANGED pid /\ returned \subseteq returned'
               /\ pc' = [pc EXCEPT ![p] = pc'[p]]
               /\ pc[p] \notin {"unborn", "gone"} /\ pc'[p] # "unborn"
    BY <1>5 DEF Send, Return, ReturnUnheard, Receive, Running, tableVars, lifeVars
  <1>6. ASSUME NEW p \in Processes,
               LookUpFails(p) \/ LoadNull(p) \/ Put(p) \/ PutFreed(p)
        PROVE  /\ UNCHANGED <<pid, returned>>
               /\ pc' = [pc EXCEPT ![p] = pc'[p]]
               /\ pc[p] \notin {"unborn", "gone"} /\ pc'[p] # "unborn"
    BY <1>6 DEF LookUpFails, LoadNull, Put, PutFreed, SendReturns, tableVars, lifeVars
  <1>7. ASSUME NEW p \in Processes, Idle(p)
        PROVE  UNCHANGED <<pc, pid, returned>>
    BY <1>7 DEF Idle, Link, Unlink, tableVars
  <1>8. CASE UNCHANGED vars
    BY <1>3, <1>8 DEF vars
  <1>9. CASE Next
    <2> PICK p \in Processes : \/ UserStep(p) \/ SetPid(p) \/ SendStep(p)
                               \/ Receive(p) \/ Dispose(p) \/ ReleaseStep(p)
      BY <1>9 DEF Next
    <2>1. CASE \E c \in Processes : Spawn(p, c)
      BY <1>1, <2>1
    <2>2. CASE Idle(p)
      BY <1>3, <1>7, <2>2
    <2>3. CASE \/ SetPid(p) \/ LookUp(p) \/ Load(p) \/ Dispose(p) \/ ReleaseStep(p)
               \/ (\E m \in Messages, d \in Pids : Send(p, m, d))
               \/ (\E m \in Messages : Return(p, m))
               \/ ReturnUnheard(p) \/ Receive(p)
               \/ LookUpFails(p) \/ LoadNull(p) \/ Put(p) \/ PutFreed(p)
      <3>1. /\ UNCHANGED pid /\ returned \subseteq returned'
            /\ pc' = [pc EXCEPT ![p] = pc'[p]]
            /\ pc[p] \notin {"unborn", "gone"} /\ pc'[p] # "unborn"
        BY <1>4, <1>5, <1>6, <2>3
      <3> QED
        BY <1>2, <3>1
    <2> QED
      BY <2>1, <2>2, <2>3 DEF UserStep, SendStep, Idle
  <1> QED
    BY <1>8, <1>9

\* A new message is meant for the process that has the pid.
LEMMA MessageMade ==
  ASSUME TypeOK, SlotInv, NEW p \in Processes, NEW m \in Messages, NEW type,
         NEW d \in Pids, NewMessage(p, m, type, d)
  PROVE  /\ m \notin heap /\ heap' = heap \union {m}
         /\ \A k \in Messages : k # m => content'[k] = content[k]
         /\ content'[m].from = p /\ content'[m].type = type
         /\ content'[m].meant # NULL =>
              /\ content'[m].meant \in Processes
              /\ Here(content'[m].meant) /\ pid[content'[m].meant] = d
         /\ message' = [message EXCEPT ![p] = m]
         /\ destination_pid' = [destination_pid EXCEPT ![p] = d]
  <1> DEFINE u == IF d \in Slots THEN message_queues[d] ELSE NULL
  <1>1. content'[m] = [type |-> type, from |-> p, meant |-> u]
    BY DEF NewMessage, TypeOK
  <1>2. u # NULL => u \in Processes /\ Here(u) /\ pid[u] = d
    BY DEF SlotInv, TypeOK
  <1> HIDE DEF u
  <1>3. /\ content'[m].from = p /\ content'[m].type = type
        /\ content'[m].meant = u
    BY <1>1
  <1> QED
    BY <1>2, <1>3 DEF NewMessage, TypeOK

\* The other steps make no message.
LEMMA NoneMade ==
  ASSUME NEW p \in Processes,
         \/ \E c \in Processes : Spawn(p, c)
         \/ Idle(p)
         \/ ReturnUnheard(p)
         \/ SetPid(p)
         \/ SendStep(p)
         \/ Receive(p)
         \/ Dispose(p)
         \/ ReleaseStep(p)
  PROVE  UNCHANGED content /\ heap' \subseteq heap
  BY DEF Spawn, Idle, Link, Unlink, ReturnUnheard, SetPid, SendStep, LookUp,
         LookUpFails, Load, LoadNull, Put, PutFreed, Receive, Dispose, ReleaseStep,
         Drain, DrainNull, Free, Clear, ClearAgain, ClearSlot, messageVars

LEMMA MeantStep ==
  ASSUME Intact, [Next]_vars
  PROVE  MeantInv'
  <1>1. \A q \in Processes : pc[q] # "unborn" => pc'[q] # "unborn"
    BY Onward DEF Intact
  <1>2. \A k \in Messages : content[k].meant # NULL => content[k].meant \in Processes
    BY DEF Intact, TypeOK, Content
  <1>3. heap \subseteq Messages /\ TypeOK /\ SlotInv
    BY DEF Intact, TypeOK
  <1>4. ASSUME UNCHANGED content, heap' \subseteq heap
        PROVE  MeantInv'
    BY <1>1, <1>2, <1>3, <1>4 DEF MeantInv, Intact
  <1>5. ASSUME NEW p \in Processes, NEW m \in Messages, NEW type, NEW d \in Pids,
               NewMessage(p, m, type, d)
        PROVE  MeantInv'
    <2>1. /\ heap' = heap \union {m}
          /\ \A k \in Messages : k # m => content'[k] = content[k]
          /\ content'[m].meant # NULL =>
               /\ content'[m].meant \in Processes
               /\ Here(content'[m].meant)
      BY <1>3, <1>5, MessageMade
    <2> QED
      BY <1>1, <1>2, <1>3, <2>1 DEF MeantInv, Intact, Here
  <1>6. CASE UNCHANGED vars
    BY <1>4, <1>6 DEF vars
  <1>7. ASSUME NEW p \in Processes, NEW m \in Messages, NEW d \in Pids, Send(p, m, d)
        PROVE  MeantInv'
    BY <1>5, <1>7 DEF Send
  <1>8. ASSUME NEW p \in Processes, NEW m \in Messages, Return(p, m)
        PROVE  MeantInv'
    <2>1. supervisor_pid[p] \in Pids
      BY <1>3, <1>8 DEF Return, TypeOK
    <2> QED
      BY <1>5, <1>8, <2>1 DEF Return
  <1> QED
    BY <1>4, <1>6, <1>7, <1>8, NoneMade DEF Next, UserStep, Idle
-----------------------------------------------------------------------------
(* Where the sends go.                                                     *)

\* What is said by a message that is allocated is not changed.
LEMMA ContentKept ==
  ASSUME TypeOK, [Next]_vars
  PROVE  \A k \in heap : content'[k] = content[k]
  <1>1. \A k \in heap : k \in Messages
    BY DEF TypeOK
  <1>2. ASSUME NEW p \in Processes, NEW m \in Messages, NEW type, NEW d,
               NewMessage(p, m, type, d)
        PROVE  \A k \in heap : content'[k] = content[k]
    BY <1>1, <1>2 DEF NewMessage, TypeOK
  <1>3. CASE UNCHANGED vars
    BY <1>3 DEF vars
  <1> QED
    BY <1>2, <1>3, NoneMade DEF Next, UserStep, Idle, Send, Return

\* A send goes on by steps of its sender only.
LEMMA SendKept ==
  ASSUME TypeOK, NEW p \in Processes, NEW q \in Processes, q # p,
         \/ UserStep(p)
         \/ SetPid(p)
         \/ SendStep(p)
         \/ Receive(p)
         \/ Dispose(p)
         \/ ReleaseStep(p)
  PROVE  /\ UNCHANGED <<message[q], destination_pid[q], target[q]>>
         /\ pc'[q] \in Sending => UNCHANGED pc[q]
  <1> USE DEF TypeOK
  <1>1. ASSUME NEW c \in Processes, Spawn(p, c)
        PROVE  /\ UNCHANGED <<message[q], destination_pid[q], target[q]>>
               /\ pc'[q] \in Sending => UNCHANGED pc[q]
    <2>1. pc'[q] = IF q = c THEN "running" ELSE pc[q]
      BY <1>1, SpawnPoints
    <2> QED
      BY <1>1, <2>1 DEF Spawn, messageVars, sendVars, Sending
  <1>2. CASE Idle(p)
    BY <1>2 DEF Idle, Link, Unlink, messageVars, sendVars
  <1>3. CASE \/ \E m \in Messages, d \in Pids : Send(p, m, d)
             \/ \E m \in Messages : Return(p, m)
    BY <1>3 DEF Send, Return, NewMessage
  <1>4. CASE ReturnUnheard(p) \/ SetPid(p) \/ Receive(p) \/ Dispose(p)
    BY <1>4 DEF ReturnUnheard, SetPid, Receive, Dispose, Goto, messageVars, sendVars
  <1>5. CASE SendStep(p)
    BY <1>5 DEF SendStep, LookUp, LookUpFails, Load, LoadNull, Put, PutFreed, Goto,
                SendReturns, messageVars, sendVars
  <1>6. CASE ReleaseStep(p)
    BY <1>6 DEF ReleaseStep, Drain, DrainNull, Free, Clear,
                ClearAgain, ClearSlot, Goto, messageVars, sendVars
  <1> QED
    BY <1>1, <1>2, <1>3, <1>4, <1>5, <1>6 DEF UserStep, Idle

LEMMA SendInvStep ==
  ASSUME Intact, [Next]_vars
  PROVE  SendInv'
  <1>1. TypeOK /\ LifeInv /\ SlotInv /\ SendInv /\ MeantInv
    BY DEF Intact
  <1>2. \A q \in Processes :
          /\ pc[q] # "unborn" => pc'[q] # "unborn" /\ pid'[q] = pid[q]
          /\ pc[q] = "gone" => pc'[q] = "gone"
    BY <1>1, Onward
  <1>3. \A q \in Processes : pc[q] \in Sending =>
          /\ message[q] \in Messages /\ content'[message[q]] = content[message[q]]
          /\ content[message[q]].meant # NULL =>
               /\ content[message[q]].meant \in Processes
               /\ pc[content[message[q]].meant] # "unborn"
    <2> SUFFICES ASSUME NEW q \in Processes, pc[q] \in Sending
                 PROVE  /\ message[q] \in Messages
                        /\ content'[message[q]] = content[message[q]]
                        /\ content[message[q]].meant # NULL =>
                             /\ content[message[q]].meant \in Processes
                             /\ pc[content[message[q]].meant] # "unborn"
      OBVIOUS
    <2>1. message[q] \in heap
      BY <1>1 DEF LifeInv, PlaceInv, Intact
    <2>2. message[q] \in Messages /\ content[message[q]] \in Content
      BY <1>1, <2>1 DEF TypeOK
    <2>3. content'[message[q]] = content[message[q]]
      BY <1>1, <2>1, ContentKept
    <2>4. content[message[q]].meant \in Processes \union {NULL}
      BY <2>2 DEF Content
    <2> QED
      BY <1>1, <2>1, <2>2, <2>3, <2>4 DEF MeantInv
  <1>4. ASSUME NEW q \in Processes, pc[q] \in Sending,
               UNCHANGED <<pc[q], message[q], destination_pid[q], target[q]>>
        PROVE  OnCourse(q)'
    <2>1. OnCourse(q)
      BY <1>1, <1>4 DEF SendInv
    <2> QED
      BY <1>2, <1>3, <1>4, <2>1 DEF OnCourse
  <1>5. ASSUME NEW p \in Processes, NEW m \in Messages, NEW type, NEW d \in Pids,
               NewMessage(p, m, type, d), pc'[p] = "send_lookup"
        PROVE  OnCourse(p)'
    <2>1. /\ content'[m].from = p
          /\ content'[m].meant # NULL =>
               /\ content'[m].meant \in Processes
               /\ Here(content'[m].meant) /\ pid[content'[m].meant] = d
          /\ message'[p] = m /\ destination_pid'[p] = d
      BY <1>1, <1>5, MessageMade DEF TypeOK
    <2> QED
      BY <1>2, <1>5, <2>1 DEF OnCourse, Here
  <1>6. ASSUME NEW p \in Processes, UserStep(p), pc'[p] \in Sending
        PROVE  OnCourse(p)'
    <2>1. CASE \E m \in Messages, d \in Pids : Send(p, m, d)
      BY <1>1, <1>5, <2>1 DEF Send, TypeOK
    <2>2. CASE \E m \in Messages : Return(p, m)
      <3> PICK m \in Messages : Return(p, m)
        BY <2>2
      <3>1. supervisor_pid[p] \in Pids /\ pc'[p] = "send_lookup"
        BY <1>1 DEF Return, TypeOK
      <3> QED
        BY <1>5, <3>1 DEF Return
    <2>3. ASSUME NEW c \in Processes, Spawn(p, c)
          PROVE  FALSE
      <3>1. pc'[p] \in {"running", "set_pid"}
        BY <1>1, <2>3, SpawnPoints
      <3> QED
        BY <1>6, <3>1 DEF Sending
    <2>4. CASE ReturnUnheard(p)
      BY <1>1, <1>6, <2>4 DEF ReturnUnheard, TypeOK, Sending
    <2>5. CASE Idle(p)
      BY <1>1, <1>6, <2>5 DEF Idle, Link, Unlink, Running, TypeOK, Sending
    <2> QED
      BY <1>6, <2>1, <2>2, <2>3, <2>4, <2>5 DEF UserStep, Idle
  <1>7. ASSUME NEW p \in Processes, SendStep(p), pc'[p] \in Sending
        PROVE  OnCourse(p)'
    <2>1. CASE LookUp(p)
      <3>1. /\ pc[p] = "send_lookup" /\ pc'[p] = "send_load"
            /\ UNCHANGED <<message[p], destination_pid[p]>>
        BY <1>1, <2>1 DEF LookUp, Goto, TypeOK, messageVars, sendVars
      <3>2. OnCourse(p)
        BY <1>1, <3>1 DEF SendInv, Sending
      <3>3. pc[p] \in Sending
        BY <3>1 DEF Sending
      <3> QED
        BY <1>2, <1>3, <3>1, <3>2, <3>3 DEF OnCourse
    <2>2. CASE Load(p)
      <3>1. /\ pc[p] = "send_load" /\ pc'[p] = "send_put"
            /\ UNCHANGED <<message[p], destination_pid[p]>>
            /\ target'[p] = message_queues[destination_pid[p]]
            /\ message_queues[destination_pid[p]] # NULL
        BY <1>1, <2>2 DEF Load, Goto, TypeOK, messageVars
      <3>2. OnCourse(p)
        BY <1>1, <3>1 DEF SendInv, Sending
      <3>3. pc[p] \in Sending
        BY <3>1 DEF Sending
      <3>4. ASSUME content[message[p]].meant # NULL
            PROVE  \/ content[message[p]].meant = target'[p]
                   \/ pc[content[message[p]].meant] = "gone"
        <4>1. pid[content[message[p]].meant] = destination_pid[p]
          BY <3>2, <3>4 DEF OnCourse
        <4> QED
          BY <1>1, <1>3, <3>1, <3>3, <3>4, <4>1 DEF SlotInv, Here
      <3> QED
        BY <1>2, <1>3, <3>1, <3>2, <3>3, <3>4 DEF OnCourse
    <2>3. CASE LookUpFails(p) \/ LoadNull(p) \/ Put(p) \/ PutFreed(p)
      <3>1. pc'[p] \in {"drain", "running"}
        BY <1>1, <2>3 DEF LookUpFails, LoadNull, Put, PutFreed, SendReturns, TypeOK
      <3> QED
        BY <1>7, <3>1 DEF Sending
    <2> QED
      BY <1>7, <2>1, <2>2, <2>3 DEF SendStep
  <1>8. ASSUME NEW p \in Processes,
               SetPid(p) \/ Receive(p) \/ Dispose(p) \/ ReleaseStep(p)
        PROVE  pc'[p] \notin Sending
    BY <1>1, <1>8 DEF SetPid, Receive, Dispose, ReleaseStep, Drain, DrainNull, Free, Clear,
                ClearAgain, ClearSlot, Goto,
                      TypeOK, Sending
  <1>9. ASSUME NEW q \in Processes, pc'[q] \in Sending, NEW p \in Processes,
               \/ UserStep(p) \/ SetPid(p) \/ SendStep(p)
               \/ Receive(p) \/ Dispose(p) \/ ReleaseStep(p)
        PROVE  OnCourse(q)'
    <2>1. CASE q = p
      BY <1>6, <1>7, <1>8, <1>9, <2>1
    <2>2. CASE q # p
      BY <1>1, <1>4, <1>9, <2>2, SendKept
    <2> QED
      BY <2>1, <2>2
  <1>10. ASSUME NEW q \in Processes, pc'[q] \in Sending, UNCHANGED vars
         PROVE  OnCourse(q)'
    BY <1>4, <1>10 DEF vars
  <1> QED
    BY <1>9, <1>10 DEF SendInv, Next
-----------------------------------------------------------------------------
(* Nothing sent to a living process is lost.                               *)

Kept(m) ==
  LET v == content[m].meant
  IN  \/ m \in Queued(v)
      \/ \E p \in {content[m].from, v} : message[p] = m

\* The end of a send, for the process its message is meant for.
LEMMA SendEnds ==
  ASSUME Intact, NEW p \in Processes, NEW v \in Processes,
         pc[p] \in Sending, content[message[p]].meant = v, Alive(v),
         LoadNull(p) \/ Put(p) \/ PutFreed(p)
  PROVE  message[p] \in Queued(v)'
  <1>1. /\ TypeOK /\ OnePlaced /\ OnCourse(p) /\ v # NULL
        /\ message[p] \in Messages
    BY NodeAssumption DEF Intact, PlaceInv, SendInv, LifeInv, TypeOK
  <1>2. Here(v) /\ v \in allocated
    BY DEF Alive, Here, Intact, LifeInv, Releasing
  <1>3. pid[v] = destination_pid[p] /\ message_queues[pid[v]] = v
    BY <1>1, <1>2 DEF OnCourse, Intact, SlotInv
  <1>4. pc[p] = "send_put" => target[p] = v
    BY <1>1, <1>2 DEF OnCourse, Here
  <1>5. CASE LoadNull(p)
    BY <1>1, <1>3, <1>5 DEF LoadNull
  <1>6. CASE PutFreed(p)
    BY <1>2, <1>4, <1>6 DEF PutFreed
  <1>7. CASE Put(p)
    <2>1. queue' = [queue EXCEPT ![v] = Append(@, message[p])]
      BY <1>4, <1>7 DEF Put
    <2>2. message[p] \notin Queued(v)
      BY <1>1 DEF OnePlaced
    <2>3. Queued(v)' = Queued(v) \union {message[p]}
      BY <1>1, <2>1, <2>2, QueuePut
    <2> QED
      BY <2>3
  <1> QED
    BY <1>5, <1>6, <1>7

LEMMA NothingLostStep ==
  ASSUME Intact, [Next]_vars
  PROVE  NoneLost'
  <1>1. TypeOK /\ LifeInv /\ SlotInv /\ PlaceInv /\ OnePlaced /\ Placed
    BY PlaceFacts DEF Intact, PlaceInv
  <1>2. ASSUME NEW p \in Processes, NEW m \in Messages, NEW type, NEW d \in Pids,
               NewMessage(p, m, type, d)
        PROVE  /\ heap' = heap \union {m}
               /\ Kept(m)'
    <2>1. /\ heap' = heap \union {m} /\ content'[m].from = p /\ message'[p] = m
      BY <1>1, <1>2, MessageMade DEF TypeOK
    <2> QED
      BY <2>1 DEF Kept
  <1>3. ASSUME NEW m \in heap', m \notin heap
        PROVE  Kept(m)'
    <2>1. ASSUME NEW p \in Processes, NEW k \in Messages, Return(p, k)
          PROVE  Kept(m)'
      <3>1. supervisor_pid[p] \in Pids
        BY <1>1, <2>1 DEF Return, TypeOK
      <3> QED
        BY <1>2, <1>3, <2>1, <3>1 DEF Return
    <2>2. ASSUME NEW p \in Processes, NEW k \in Messages, NEW d \in Pids, Send(p, k, d)
          PROVE  Kept(m)'
      BY <1>2, <1>3, <2>2 DEF Send
    <2>3. CASE UNCHANGED vars
      BY <1>3, <2>3 DEF vars
    <2> QED
      BY <1>3, <2>1, <2>2, <2>3, NoneMade DEF Next, UserStep, Idle
  <1>4. ASSUME NEW m \in heap, m \in heap', NEW v \in Processes,
               content[m].meant = v, Alive(v), Kept(m)
        PROVE  Kept(m)'
    <2>1. m \in Messages /\ m # NULL /\ content'[m] = content[m]
      BY <1>1, NodeAssumption, ContentKept DEF TypeOK
    <2>2. ASSUME UNCHANGED <<queue, message>>
          PROVE  Kept(m)'
      BY <1>4, <2>1, <2>2 DEF Kept, Queued
    <2>3. ASSUME NEW p \in Processes, m # message[p],
                 message' = [message EXCEPT ![p] = message'[p]],
                 m \in Queued(v) => m \in Queued(v)'
          PROVE  Kept(m)'
      <3>1. \A q \in Processes : message[q] = m => message'[q] = m
        BY <1>1, <2>3 DEF TypeOK
      <3>2. content[m].from \in Processes
        BY <1>1, <2>1 DEF TypeOK, Content
      <3> QED
        BY <1>4, <2>1, <2>3, <3>1, <3>2 DEF Kept
    <2>4. ASSUME NEW p \in Processes, pc[p] = "running"
          PROVE  m # message[p]
      BY <1>1, <2>1, <2>4 DEF LifeInv, Sending
    <2>5. ASSUME NEW p \in Processes, UserStep(p)
          PROVE  Kept(m)'
      <3>1. CASE \/ \E k \in Messages, d \in Pids : Send(p, k, d)
                 \/ \E k \in Messages : Return(p, k)
        <4>1. /\ pc[p] = "running" /\ message' = [message EXCEPT ![p] = message'[p]]
              /\ UNCHANGED queue
          BY <1>1, <3>1 DEF Send, Return, Running, NewMessage, TypeOK
        <4> QED
          BY <2>3, <2>4, <4>1 DEF Queued
      <3>2. CASE (\E c \in Processes : Spawn(p, c)) \/ Idle(p) \/ ReturnUnheard(p)
        BY <2>2, <3>2 DEF Spawn, Idle, Link, Unlink, ReturnUnheard, messageVars
      <3> QED
        BY <2>5, <3>1, <3>2 DEF UserStep, Idle
    <2>6. ASSUME NEW p \in Processes, SendStep(p)
          PROVE  Kept(m)'
      <3>1. CASE LookUp(p) \/ Load(p)
        BY <2>2, <3>1 DEF LookUp, Load, messageVars
      <3>2. CASE LookUpFails(p)
        <4>1. m # message[p] /\ UNCHANGED queue
              /\ message' = [message EXCEPT ![p] = message'[p]]
          BY <1>1, <1>4, <3>2 DEF LookUpFails, SendReturns, TypeOK
        <4> QED
          BY <2>3, <4>1 DEF Queued
      <3>3. CASE LoadNull(p) \/ Put(p) \/ PutFreed(p)
        <4>1. pc[p] \in Sending /\ message' = [message EXCEPT ![p] = message'[p]]
          BY <1>1, <3>3 DEF LoadNull, Put, PutFreed, SendReturns, Sending, TypeOK
        <4>2. CASE m = message[p]
          <5>1. m \in Queued(v)'
            BY <1>4, <3>3, <4>1, <4>2, SendEnds
          <5> QED
            BY <1>4, <2>1, <5>1 DEF Kept
        <4>3. CASE m # message[p]
          <5>1. CASE UNCHANGED queue
            BY <2>3, <4>1, <4>3, <5>1 DEF Queued
          <5>2. CASE Put(p)
            <6> PICK u \in Processes, k \in Messages : u = target[p] /\ k = message[p]
              BY <1>1, <5>2 DEF Put, LifeInv, TypeOK, Sending
            <6>1. queue' = [queue EXCEPT ![u] = Append(@, k)] /\ k \notin Queued(u)
              BY <1>1, <5>2 DEF Put, OnePlaced
            <6>2. /\ Queued(u)' = Queued(u) \union {k}
                  /\ \A q \in Processes : q # u => Queued(q)' = Queued(q)
              BY <1>1, <6>1, QueuePut
            <6>3. m \in Queued(v) => m \in Queued(v)'
              BY <6>2
            <6> QED
              BY <2>3, <4>1, <4>3, <6>3
          <5> QED
            BY <3>3, <5>1, <5>2 DEF LoadNull, PutFreed
        <4> QED
          BY <4>2, <4>3
      <3> QED
        BY <2>6, <3>1, <3>2, <3>3 DEF SendStep
    <2>7. ASSUME NEW p \in Processes, Receive(p)
          PROVE  Kept(m)'
      <3>1. /\ pc[p] = "running" /\ queue[p] # <<>>
            /\ queue' = [queue EXCEPT ![p] = Tail(@)]
            /\ message' = [message EXCEPT ![p] = Head(queue[p])]
        BY <2>7 DEF Receive, Running
      <3>2. /\ Head(queue[p]) \in Queued(p)
            /\ Queued(p)' = Queued(p) \ {Head(queue[p])}
            /\ \A q \in Processes : q # p => Queued(q)' = Queued(q)
        BY <1>1, <3>1, QueueGet
      <3>3. message'[p] = Head(queue[p])
            /\ message' = [message EXCEPT ![p] = message'[p]]
        BY <1>1, <3>1 DEF TypeOK
      <3>4. CASE m \in Queued(v) /\ m = Head(queue[p])
        <4>1. p = v
          BY <1>1, <3>2, <3>4 DEF Placed
        <4> QED
          BY <1>4, <2>1, <3>3, <3>4, <4>1 DEF Kept
      <3>5. CASE ~ (m \in Queued(v) /\ m = Head(queue[p]))
        <4>1. m \in Queued(v) => m \in Queued(v)'
          BY <3>2, <3>5
        <4>2. m # message[p]
          BY <2>4, <3>1
        <4> QED
          BY <2>3, <3>3, <4>1, <4>2
      <3> QED
        BY <3>4, <3>5
    <2>8. ASSUME NEW p \in Processes, Dispose(p)
          PROVE  Kept(m)'
      <3>1. m # message[p] /\ UNCHANGED queue
            /\ message' = [message EXCEPT ![p] = message'[p]]
        BY <1>1, <1>4, <2>8 DEF Dispose, TypeOK
      <3> QED
        BY <2>3, <3>1 DEF Queued
    <2>9. ASSUME NEW p \in Processes, Drain(p), queue[p] # <<>>
          PROVE  Kept(m)'
      <3>1. /\ queue' = [queue EXCEPT ![p] = Tail(@)] /\ UNCHANGED message
            /\ m # Head(queue[p])
        BY <1>1, <1>4, <2>9, DrainOwn DEF Drain
      <3>2. /\ Queued(p)' = Queued(p) \ {Head(queue[p])}
            /\ \A q \in Processes : q # p => Queued(q)' = Queued(q)
        BY <1>1, <2>9, <3>1, QueueGet
      <3>3. m \in Queued(v) => m \in Queued(v)'
        BY <3>1, <3>2
      <3> QED
        BY <1>4, <2>1, <3>1, <3>3 DEF Kept
    <2>10. ASSUME NEW p \in Processes,
                  \/ SetPid(p) \/ DrainNull(p) \/ Free(p) \/ Clear(p) \/ ClearAgain(p)
                  \/ (Drain(p) /\ queue[p] = <<>>)
           PROVE  UNCHANGED <<queue, message>>
      BY <1>1, <2>10, DrainOwn
         DEF SetPid, DrainNull, Free, Clear, ClearAgain, ClearSlot, Drain, messageVars
    <2>11. CASE UNCHANGED vars
      BY <2>2, <2>11 DEF vars
    <2> QED
      BY <2>2, <2>5, <2>6, <2>7, <2>8, <2>9, <2>10, <2>11 DEF Next, ReleaseStep
  <1>5. ASSUME NEW m \in heap', content'[m].meant # NULL, Alive(content[m].meant)'
        PROVE  Kept(m)'
    <2>1. CASE m \in heap
      <3>1. m \in Messages /\ content'[m] = content[m]
        BY <1>1, <2>1, ContentKept DEF TypeOK
      <3> PICK v \in Processes : v = content[m].meant
        BY <1>1, <1>5, <3>1 DEF TypeOK, Content
      <3>2. Alive(v)
        <4>1. v \in returned => v \in returned'
          BY <1>1, Onward
        <4>2. pc[v] # "unborn"
          BY <1>5, <2>1, <3>1 DEF Intact, MeantInv
        <4> QED
          BY <1>5, <3>1, <4>1, <4>2 DEF Alive
      <3>3. Kept(m)
        BY <1>5, <2>1, <3>1, <3>2 DEF Intact, NoneLost, Kept
      <3> QED
        BY <1>4, <1>5, <2>1, <3>2, <3>3
    <2> QED
      BY <1>3, <1>5, <2>1
  <1> QED
    BY <1>5 DEF NoneLost, Kept
-----------------------------------------------------------------------------
LEMMA InitIndInv == Init => IndInv
  <1> SUFFICES ASSUME Init
               PROVE  Intact
    BY DEF IndInv, Intact
  <1>1. /\ Size \in Nat \ {0} /\ Root \in Processes
        /\ NULL \notin Processes /\ NULL \notin Messages
        /\ 0 \in Slots /\ 1 \in 0 .. Size
    BY NodeAssumption DEF Slots
  <1>2. TypeOK
    <2>1. [type |-> "user", from |-> Root, meant |-> NULL] \in Content
      BY <1>1 DEF Content
    <2>2. <<>> \in Seq(Messages)
      BY EmptySeq
    <2> QED
      BY <1>1, <2>1, <2>2 DEF Init, TypeOK, Points
  <1>3. LifeInv /\ BaseInv
    BY <1>1 DEF Init, LifeInv, BaseInv, Sending, Releasing
  <1>4. SlotInv
    BY <1>1 DEF Init, SlotInv, Here
  <1>5. PlaceInv
    <2>1. \A p \in Processes :
            message[p] = NULL /\ queue[p] = <<>> /\ DOMAIN queue[p] = {}
      BY DEF Init
    <2>2. \A p \in Processes : Queued(p) = {}
      BY <2>1 DEF Queued
    <2> QED
      BY <1>1, <2>1, <2>2 DEF PlaceInv, OnePlaced
  <1>6. MeantInv /\ SendInv /\ NoneLost
    BY DEF Init, MeantInv, SendInv, Sending, NoneLost
  <1> QED
    BY <1>2, <1>3, <1>4, <1>5, <1>6 DEF Intact

\* A slot that has been taken between its two clears stays one for ever.
LEMMA ReusedStays ==
  ASSUME [Next]_vars, reused
  PROVE  reused'
  BY DEF Next, UserStep, Spawn, Link, Unlink, Send, Return, ReturnUnheard, SetPid,
         SendStep, LookUp, LookUpFails, Load, LoadNull, Put, PutFreed, Receive, Dispose,
         ReleaseStep, Drain, DrainNull, Free, Clear, ClearAgain, ClearSlot, tableVars,
         vars

LEMMA NextIndInv == IndInv /\ [Next]_vars => IndInv'
  <1> SUFFICES ASSUME IndInv, [Next]_vars
               PROVE  IndInv'
    OBVIOUS
  <1>1. TypeOK' /\ BaseInv'
    BY TypeStep, BaseStep DEF IndInv
  <1>2. ASSUME ~ reused'
        PROVE  Intact'
    <2>1. Intact
      BY <1>2, ReusedStays DEF IndInv
    <2>2. LifeInv' /\ SlotInv'
      BY <1>2, <2>1, LifeStep, SlotStep DEF Intact
    <2>3. PlaceInv' /\ MeantInv' /\ SendInv' /\ NoneLost'
      BY <2>1, PlaceStep, MeantStep, SendInvStep, NothingLostStep
    <2> QED
      BY <1>1, <2>2, <2>3 DEF Intact
  <1> QED
    BY <1>1, <1>2 DEF IndInv

\* The inductive invariant holds in every state of a node.
THEOREM Invariance == Spec => []IndInv
  BY InitIndInv, NextIndInv, PTL DEF Spec

\* Pids are slots of the node, what is queued is a message, and what a process
\* holds is what it may hold (node.c, process.c), whoever takes a slot between
\* its two clears.
THEOREM TypeCorrect == Spec => []TypeOK
  <1>1. IndInv => TypeOK
    BY DEF IndInv
  <1> QED
    BY <1>1, Invariance, PTL

\* However the steps of senders, receivers and processes that end interleave, a
\* message is held by one process or in one queue, once (node.c:245-277,
\* message.c:136-171), until a slot is taken between its two clears.
THEOREM OnePlaceHolds == Spec => []OnePlace
  <1>1. IndInv => OnePlace
    BY DEF IndInv, Intact, PlaceInv, OnePlaced, OnePlace
  <1> QED
    BY <1>1, Invariance, PTL

\* What was sent to a process that lives is with its sender, in the queue of
\* that process or in its hands, whatever else is sent, spawned or ends between
\* the steps of the send (node.c:245-277), until a slot is taken between its two
\* clears (message.c:168, node.c:394).
THEOREM NothingLost == Spec => []NothingLostToTheLiving
  <1>1. IndInv => NothingLostToTheLiving
    BY DEF IndInv, Intact, NoneLost, NothingLostToTheLiving
  <1> QED
    BY <1>1, Invariance, PTL
-----------------------------------------------------------------------------
(* The processes of a node are actors.                                     *)

\* What the messages of a queue say.
Said(s, f) == [i \in DOMAIN s |-> f[s[i]]]

LEMMA SaidProperties ==
  ASSUME NEW f \in [Messages -> Content], NEW s \in Seq(Messages)
  PROVE  /\ Said(s, f) \in Seq(Content)
         /\ Len(Said(s, f)) = Len(s)
         /\ \A i \in 1 .. Len(s) : Said(s, f)[i] = f[s[i]]
  <1>1. Len(s) \in Nat /\ DOMAIN s = 1 .. Len(s) /\ \A i \in 1 .. Len(s) : s[i] \in Messages
    BY LenProperties, ElementOfSeq
  <1>2. Said(s, f) = [i \in 1 .. Len(s) |-> f[s[i]]]
    BY <1>1 DEF Said
  <1>3. [i \in 1 .. Len(s) |-> f[s[i]]] \in Seq(Content)
    BY <1>1
  <1>4. DOMAIN Said(s, f) = 1 .. Len(Said(s, f)) /\ Len(Said(s, f)) \in Nat
    BY <1>2, <1>3, LenProperties
  <1> QED
    BY <1>1, <1>2, <1>3, <1>4

LEMMA SaidAppend ==
  ASSUME NEW f \in [Messages -> Content], NEW s \in Seq(Messages), NEW x \in Messages
  PROVE  Said(Append(s, x), f) = Append(Said(s, f), f[x])
  <1> DEFINE t == Append(s, x)
             l == Said(t, f)
             r == Append(Said(s, f), f[x])
  <1>1. /\ t \in Seq(Messages) /\ Len(t) = Len(s) + 1 /\ Len(s) \in Nat
        /\ \A i \in 1 .. Len(s) : t[i] = s[i]
        /\ t[Len(s) + 1] = x
    BY AppendProperties, LenProperties
  <1>2. /\ Said(s, f) \in Seq(Content) /\ Len(Said(s, f)) = Len(s)
        /\ \A i \in 1 .. Len(s) : Said(s, f)[i] = f[s[i]]
    BY SaidProperties
  <1>3. /\ r \in Seq(Content) /\ Len(r) = Len(s) + 1
        /\ \A i \in 1 .. Len(s) : r[i] = f[s[i]]
        /\ r[Len(s) + 1] = f[x]
    <2>1. f[x] \in Content
      OBVIOUS
    <2> QED
      BY <1>2, <2>1, AppendProperties
  <1> HIDE DEF t
  <1>4. l \in Seq(Content) /\ Len(l) = Len(t) /\ \A i \in 1 .. Len(t) : l[i] = f[t[i]]
    BY <1>1, SaidProperties
  <1> HIDE DEF l, r
  <1>5. \A i \in 1 .. Len(s) + 1 : i \in 1 .. Len(s) \/ i = Len(s) + 1
    BY <1>1
  <1>6. \A i \in 1 .. Len(l) : l[i] = r[i]
    BY <1>1, <1>3, <1>4, <1>5
  <1>7. l = r
    BY <1>1, <1>3, <1>4, <1>6, SeqEqual
  <1> QED
    BY <1>7 DEF l, r, t

LEMMA SaidTail ==
  ASSUME NEW f \in [Messages -> Content], NEW s \in Seq(Messages), s # <<>>
  PROVE  Said(s, f) # <<>> /\ Said(Tail(s), f) = Tail(Said(s, f))
  <1> DEFINE t == Tail(s)
             u == Said(s, f)
             l == Said(t, f)
             r == Tail(u)
  <1>1. /\ t \in Seq(Messages) /\ Len(t) = Len(s) - 1 /\ Len(s) \in Nat /\ Len(s) # 0
        /\ \A i \in 1 .. Len(t) : t[i] = s[i + 1]
    BY HeadTailProperties, LenProperties, EmptySeq
  <1>2. /\ u \in Seq(Content) /\ Len(u) = Len(s)
        /\ \A i \in 1 .. Len(s) : u[i] = f[s[i]]
    BY SaidProperties
  <1> HIDE DEF t, u
  <1>3. u # <<>>
    BY <1>1, <1>2, EmptySeq
  <1>4. /\ r \in Seq(Content) /\ Len(r) = Len(u) - 1
        /\ \A i \in 1 .. Len(r) : r[i] = u[i + 1]
    BY <1>2, <1>3, HeadTailProperties
  <1>5. l \in Seq(Content) /\ Len(l) = Len(t) /\ \A i \in 1 .. Len(t) : l[i] = f[t[i]]
    BY <1>1, SaidProperties
  <1> HIDE DEF l, r
  <1>6. \A i \in 1 .. Len(s) - 1 : i + 1 \in 1 .. Len(s)
    BY <1>1
  <1>7. \A i \in 1 .. Len(l) : l[i] = r[i]
    <2>1. Len(l) = Len(s) - 1 /\ Len(r) = Len(s) - 1 /\ Len(t) = Len(s) - 1
      BY <1>1, <1>2, <1>4, <1>5
    <2> SUFFICES ASSUME NEW i \in 1 .. Len(s) - 1
                 PROVE  l[i] = r[i]
      BY <2>1
    <2>2. l[i] = f[t[i]] /\ t[i] = s[i + 1]
      BY <1>1, <1>5, <2>1
    <2>3. r[i] = u[i + 1]
      BY <1>4, <2>1
    <2>4. u[i + 1] = f[s[i + 1]]
      BY <1>2, <1>6
    <2> QED
      BY <2>2, <2>3, <2>4
  <1>8. l = r
    BY <1>1, <1>2, <1>4, <1>5, <1>7, SeqEqual
  <1> QED
    BY <1>3, <1>8 DEF l, r, t, u

\* The state of the actors, as ImplementsActors maps it.
Lives ==
  [p \in Processes |->
     IF pc[p] = "unborn" \/ pc[p] = "gone" THEN pc[p]
     ELSE IF p \in returned THEN "ended" ELSE "alive"]
Transit ==
  [p \in Processes |-> IF pc[p] \in Sending THEN content[message[p]] ELSE NULL]
Mail ==
  [p \in Processes |-> [i \in DOMAIN queue[p] |-> content[queue[p][i]]]]

LEMMA SameLives ==
  ASSUME UNCHANGED returned,
         \A q \in Processes : /\ pc'[q] = "unborn" <=> pc[q] = "unborn"
                              /\ pc'[q] = "gone" <=> pc[q] = "gone"
  PROVE  UNCHANGED Lives
  BY DEF Lives

LEMMA SameTransit ==
  ASSUME Intact, [Next]_vars, NEW q \in Processes,
         pc'[q] \in Sending <=> pc[q] \in Sending,
         pc[q] \in Sending => UNCHANGED message[q]
  PROVE  Transit'[q] = Transit[q]
  <1>1. TypeOK /\ (pc[q] \in Sending => message[q] \in heap)
    BY DEF Intact, LifeInv, PlaceInv
  <1>2. pc[q] \in Sending => content'[message[q]] = content[message[q]]
    BY <1>1, ContentKept
  <1> QED
    BY <1>2 DEF Transit

LEMMA SameMail ==
  ASSUME Intact, [Next]_vars, NEW q \in Processes, UNCHANGED queue[q]
  PROVE  Mail'[q] = Mail[q]
  <1>1. TypeOK /\ Queued(q) \subseteq heap
    BY DEF Intact, PlaceInv
  <1>2. \A i \in DOMAIN queue[q] : content'[queue[q][i]] = content[queue[q][i]]
    BY <1>1, ContentKept DEF Queued
  <1> QED
    BY <1>2 DEF Mail

\* The steps of the actors, in terms of the state they are mapped from.
LEMMA ActorSteps ==
  ASSUME NEW p \in Processes
  PROVE  /\ A!Turn(p) <=> /\ Lives'[p] = A!After[Lives[p]]
                          /\ Lives' = [Lives EXCEPT ![p] = Lives'[p]]
                          /\ UNCHANGED <<Transit, Mail>>
         /\ A!Post(p) <=>
              /\ Lives[p] = "alive" /\ Transit[p] = NULL
              /\ Transit'[p] \in Content /\ Transit'[p].from = p
              /\ Transit' = [Transit EXCEPT ![p] = Transit'[p]]
              /\ Lives' = IF Transit'[p].type = "error"
                          THEN [Lives EXCEPT ![p] = "ended"] ELSE Lives
              /\ UNCHANGED Mail
         /\ A!Arrive(p) <=>
              /\ Transit[p] # NULL /\ Transit'[p] = NULL
              /\ Transit' = [Transit EXCEPT ![p] = NULL]
              /\ \/ \E u \in Processes :
                      /\ \/ u = Transit[p].meant
                         \/ Transit[p].meant = NULL
                         \/ Lives[Transit[p].meant] = "gone"
                      /\ Mail' = [Mail EXCEPT ![u] = Append(@, Transit[p])]
                 \/ /\ \/ Transit[p].meant = NULL
                       \/ Lives[Transit[p].meant] \in {"ended", "gone"}
                    /\ UNCHANGED Mail
              /\ UNCHANGED Lives
         /\ A!Take(p) <=> /\ Lives[p] # "unborn" /\ Mail[p] # <<>>
                          /\ Mail' = [Mail EXCEPT ![p] = Tail(@)]
                          /\ UNCHANGED <<Lives, Transit>>
  <1>1. A!Message = Content
    BY DEF A!Message, Content
  <1>2. A!Turn(p) <=> /\ Lives'[p] = A!After[Lives[p]]
                      /\ Lives' = [Lives EXCEPT ![p] = Lives'[p]]
                      /\ UNCHANGED <<Transit, Mail>>
    BY DEF A!Turn, Lives, Transit, Mail
  <1>3. A!Take(p) <=> /\ Lives[p] # "unborn" /\ Mail[p] # <<>>
                      /\ Mail' = [Mail EXCEPT ![p] = Tail(@)]
                      /\ UNCHANGED <<Lives, Transit>>
    BY DEF A!Take, Lives, Transit, Mail
  <1>4. A!Post(p) <=>
              /\ Lives[p] = "alive" /\ Transit[p] = NULL
              /\ Transit'[p] \in Content /\ Transit'[p].from = p
              /\ Transit' = [Transit EXCEPT ![p] = Transit'[p]]
              /\ Lives' = IF Transit'[p].type = "error"
                          THEN [Lives EXCEPT ![p] = "ended"] ELSE Lives
              /\ UNCHANGED Mail
    BY <1>1 DEF A!Post, Lives, Transit, Mail
  <1>5. A!Arrive(p) <=>
              /\ Transit[p] # NULL /\ Transit'[p] = NULL
              /\ Transit' = [Transit EXCEPT ![p] = NULL]
              /\ \/ \E u \in Processes :
                      /\ \/ u = Transit[p].meant
                         \/ Transit[p].meant = NULL
                         \/ Lives[Transit[p].meant] = "gone"
                      /\ Mail' = [Mail EXCEPT ![u] = Append(@, Transit[p])]
                 \/ /\ \/ Transit[p].meant = NULL
                       \/ Lives[Transit[p].meant] \in {"ended", "gone"}
                    /\ UNCHANGED Mail
              /\ UNCHANGED Lives
    BY DEF A!Arrive, A!Lost, A!Elsewhere, Lives, Transit, Mail
  <1> QED
    BY <1>2, <1>3, <1>4, <1>5

\* What changes for one process only, and what for none.
LEMMA OneChanges ==
  ASSUME NEW p \in Processes
  PROVE  /\ (\A q \in Processes : q # p => Lives'[q] = Lives[q]) =>
              Lives' = [Lives EXCEPT ![p] = Lives'[p]]
         /\ (\A q \in Processes : q # p => Transit'[q] = Transit[q]) =>
              Transit' = [Transit EXCEPT ![p] = Transit'[p]]
         /\ (\A q \in Processes : q # p => Mail'[q] = Mail[q]) =>
              Mail' = [Mail EXCEPT ![p] = Mail'[p]]
  BY DEF Lives, Transit, Mail

LEMMA NoneChanges ==
  /\ (\A q \in Processes : Transit'[q] = Transit[q]) => UNCHANGED Transit
  /\ (\A q \in Processes : Mail'[q] = Mail[q]) => UNCHANGED Mail
  BY DEF Transit, Mail

LEMMA MailSame ==
  ASSUME Intact, [Next]_vars, UNCHANGED queue
  PROVE  UNCHANGED Mail
  BY SameMail, NoneChanges

LEMMA TransitSame ==
  ASSUME Intact, [Next]_vars,
         \A q \in Processes : /\ pc'[q] \in Sending <=> pc[q] \in Sending
                              /\ pc[q] \in Sending => UNCHANGED message[q]
  PROVE  UNCHANGED Transit
  BY SameTransit, NoneChanges

\* A process makes a message.
LEMMA PostStep ==
  ASSUME Intact, [Next]_vars, NEW p \in Processes, NEW m \in Messages,
         \/ \E d \in Pids : Send(p, m, d)
         \/ Return(p, m)
  PROVE  A!Post(p)
  <1>1. TypeOK /\ LifeInv /\ SlotInv /\ TypeOK'
    BY TypeStep DEF Intact
  <1>2. /\ Running(p) /\ pc[p] = "running" /\ p \notin returned
        /\ pc' = [pc EXCEPT ![p] = "send_lookup"]
        /\ UNCHANGED queue
    BY DEF Send, Return, Running
  <1>3. PICK type \in {"user", "error"}, d \in Pids :
          /\ NewMessage(p, m, type, d)
          /\ \/ type = "user" /\ UNCHANGED returned
             \/ type = "error" /\ returned' = returned \union {p}
    <2>1. CASE \E d \in Pids : Send(p, m, d)
      BY <2>1 DEF Send, lifeVars
    <2>2. CASE Return(p, m)
      <3>1. supervisor_pid[p] \in Pids
        BY <1>1, <2>2 DEF Return, TypeOK
      <3> QED
        BY <2>2, <3>1 DEF Return
    <2> QED
      BY <2>1, <2>2
  <1>4. /\ content'[m].from = p /\ content'[m].type = type
        /\ message' = [message EXCEPT ![p] = m]
    BY <1>1, <1>3, MessageMade
  <1>5. content'[m] \in Content
    BY <1>1 DEF TypeOK
  <1>6. Transit[p] = NULL /\ Transit'[p] = content'[m]
    BY <1>1, <1>2, <1>4 DEF Transit, Sending, TypeOK
  <1>7. \A q \in Processes : q # p => Transit'[q] = Transit[q]
    <2>1. \A q \in Processes : q # p => /\ UNCHANGED <<pc[q], message[q]>>
      BY <1>1, <1>2, <1>4 DEF TypeOK
    <2> QED
      BY <2>1, SameTransit
  <1>8. Lives[p] = "alive"
    BY <1>2 DEF Lives
  <1>9. CASE type = "user"
    <2>1. UNCHANGED Lives
      BY <1>1, <1>2, <1>3, <1>9, SameLives DEF TypeOK
    <2> QED
      <3>1. /\ UNCHANGED Mail
            /\ Transit' = [Transit EXCEPT ![p] = Transit'[p]]
        BY <1>2, <1>7, OneChanges, MailSame
      <3>2. /\ Transit'[p] \in Content /\ Transit'[p].from = p
            /\ Transit'[p].type # "error"
        BY <1>4, <1>5, <1>6, <1>9
      <3> QED
        BY <1>6, <1>8, <2>1, <3>1, <3>2, ActorSteps
  <1>10. CASE type = "error"
    <2>1. Lives'[p] = "ended"
      BY <1>1, <1>2, <1>3, <1>10 DEF Lives, TypeOK
    <2>2. \A q \in Processes : q # p => Lives'[q] = Lives[q]
      BY <1>1, <1>2, <1>3, <1>10 DEF Lives, TypeOK
    <2>3. Lives' = [Lives EXCEPT ![p] = "ended"]
      BY <2>1, <2>2, OneChanges
    <2> QED
      <3>1. /\ UNCHANGED Mail
            /\ Transit' = [Transit EXCEPT ![p] = Transit'[p]]
        BY <1>2, <1>7, OneChanges, MailSame
      <3>2. /\ Transit'[p] \in Content /\ Transit'[p].from = p
            /\ Transit'[p].type = "error"
        BY <1>4, <1>5, <1>6, <1>10
      <3> QED
        BY <1>6, <1>8, <2>3, <3>1, <3>2, ActorSteps
  <1> QED
    BY <1>3, <1>9, <1>10

\* A send ends.
LEMMA ArriveStep ==
  ASSUME Intact, [Next]_vars, NEW p \in Processes,
         LookUpFails(p) \/ LoadNull(p) \/ Put(p) \/ PutFreed(p)
  PROVE  A!Arrive(p)
  <1>1. TypeOK /\ OnePlaced /\ LifeInv /\ SlotInv /\ MeantInv
    BY DEF Intact, PlaceInv
  <1>2. /\ pc[p] \in Sending /\ SendReturns(p) /\ UNCHANGED returned
    BY DEF LookUpFails, LoadNull, Put, PutFreed, Sending, lifeVars
  <1>3. /\ message[p] \in Messages /\ message[p] \in heap
        /\ OnCourse(p)
    BY <1>2 DEF Intact, LifeInv, PlaceInv, SendInv, TypeOK
  <1> DEFINE c == content[message[p]]
  <1>4. c \in Content /\ c # NULL /\ c.meant \in Processes \union {NULL}
    BY <1>1, <1>3, ContentAssumption DEF TypeOK, Content
  <1>5. /\ pc' = [pc EXCEPT ![p] = pc'[p]] /\ pc'[p] \in {"drain", "running"}
        /\ message' = [message EXCEPT ![p] = NULL]
    BY <1>1, <1>2 DEF SendReturns, TypeOK
  <1>6. UNCHANGED Lives
    BY <1>1, <1>2, <1>5, SameLives DEF TypeOK, Sending
  <1>7. Transit[p] = c /\ Transit'[p] = NULL
    BY <1>2, <1>5, <1>1 DEF Transit, Sending, TypeOK
  <1>8. \A q \in Processes : q # p => Transit'[q] = Transit[q]
    <2>1. \A q \in Processes : q # p => UNCHANGED <<pc[q], message[q]>>
      BY <1>1, <1>5 DEF TypeOK
    <2> QED
      BY <2>1, SameTransit
  <1>9. Transit' = [Transit EXCEPT ![p] = NULL]
    BY <1>7, <1>8, OneChanges
  <1> HIDE DEF c
  <1>10. CASE LookUpFails(p)
    <2>1. c.meant = NULL
      <3>1. destination_pid[p] \notin Slots
        BY <1>10, NodeAssumption DEF LookUpFails, Slots
      <3>2. c.meant # NULL => pc[c.meant] # "unborn" /\ pid[c.meant] = destination_pid[p]
        BY <1>1, <1>3 DEF MeantInv, OnCourse, c
      <3> QED
        BY <1>4, <3>1, <3>2 DEF Intact, BaseInv
    <2> QED
      BY <1>4, <1>6, <1>7, <1>9, <1>10, <2>1, ActorSteps, MailSame DEF LookUpFails
  <1>11. CASE LoadNull(p) \/ PutFreed(p)
    <2>1. ASSUME c.meant # NULL
          PROVE  Lives[c.meant] \in {"ended", "gone"}
      <3> PICK v \in Processes : v = c.meant
        BY <1>4, <2>1
      <3>1. pc[v] # "unborn"
        BY <1>1, <1>3, <2>1 DEF MeantInv, c
      <3>2. message[p] \notin Queued(v)'
        <4>1. UNCHANGED queue
          BY <1>11 DEF LoadNull, PutFreed
        <4>2. message[p] \notin Queued(v)
          BY <1>1 DEF OnePlaced
        <4> QED
          BY <4>1, <4>2 DEF Queued
      <3>3. ~ Alive(v)
        BY <1>2, <1>11, <3>2, SendEnds DEF c
      <3> QED
        BY <3>1, <3>3 DEF Alive, Lives
    <2> QED
      BY <1>4, <1>6, <1>7, <1>9, <1>11, <2>1, ActorSteps, MailSame
         DEF LoadNull, PutFreed
  <1>12. CASE Put(p)
    <2> PICK u \in Processes : u = target[p]
      BY <1>1, <1>12 DEF Put, LifeInv, TypeOK
    <2>1. /\ pc[p] = "send_put"
          /\ queue' = [queue EXCEPT ![u] = Append(@, message[p])]
      BY <1>12 DEF Put
    <2>2. Mail'[u] = Append(Mail[u], c)
      <3>1. queue'[u] = Append(queue[u], message[p]) /\ queue[u] \in Seq(Messages)
        BY <1>1, <2>1 DEF TypeOK
      <3>2. content' = content /\ content \in [Messages -> Content]
        BY <1>1, <1>12 DEF Put, TypeOK
      <3>3. Mail'[u] = Said(queue'[u], content)
        BY <3>2 DEF Mail, Said
      <3>4. Mail[u] = Said(queue[u], content)
        BY DEF Mail, Said
      <3> QED
        BY <1>3, <3>1, <3>2, <3>3, <3>4, SaidAppend DEF c
    <2>3. \A q \in Processes : q # u => Mail'[q] = Mail[q]
      <3>1. \A q \in Processes : q # u => UNCHANGED queue[q]
        BY <1>1, <2>1 DEF TypeOK
      <3> QED
        BY <3>1, SameMail
    <2>4. Mail' = [Mail EXCEPT ![u] = Append(@, c)]
      BY <2>2, <2>3, OneChanges
    <2>5. c.meant = u \/ c.meant = NULL \/ Lives[c.meant] = "gone"
      BY <1>3, <1>4, <2>1 DEF OnCourse, Lives, c
    <2> QED
      BY <1>4, <1>6, <1>7, <1>9, <2>4, <2>5, ActorSteps
  <1> QED
    BY <1>10, <1>11, <1>12

\* A message is taken from a queue.
LEMMA TakeStep ==
  ASSUME Intact, [Next]_vars, NEW p \in Processes,
         Receive(p) \/ Drain(p), queue[p] # <<>>
  PROVE  A!Take(p)
  <1>1. TypeOK /\ LifeInv
    BY DEF Intact
  <1>2. /\ queue' = [queue EXCEPT ![p] = Tail(@)]
        /\ pc[p] \in {"running", "drain"} /\ pc' = [pc EXCEPT ![p] = pc'[p]]
        /\ pc'[p] \in {"received", "free"}
        /\ message' = [message EXCEPT ![p] = message'[p]]
        /\ UNCHANGED <<returned, content>>
    <2>1. CASE Receive(p)
      BY <1>1, <2>1 DEF Receive, Running, TypeOK, lifeVars
    <2>2. CASE Drain(p)
      BY <1>1, <2>2, DrainOwn DEF Drain, Goto, TypeOK, lifeVars, Intact
    <2> QED
      BY <2>1, <2>2
  <1>3. UNCHANGED Lives
    BY <1>1, <1>2, SameLives DEF TypeOK
  <1>4. UNCHANGED Transit
    BY <1>1, <1>2, TransitSame DEF TypeOK, Sending
  <1>5. Mail[p] # <<>> /\ Mail'[p] = Tail(Mail[p])
    <2>1. queue'[p] = Tail(queue[p]) /\ queue[p] \in Seq(Messages)
      BY <1>1, <1>2 DEF TypeOK
    <2>2. content' = content /\ content \in [Messages -> Content]
      BY <1>1, <1>2 DEF TypeOK
    <2>3. Mail'[p] = Said(queue'[p], content)
      BY <2>2 DEF Mail, Said
    <2>4. Mail[p] = Said(queue[p], content)
      BY DEF Mail, Said
    <2> QED
      BY <2>1, <2>2, <2>3, <2>4, SaidTail
  <1>6. \A q \in Processes : q # p => Mail'[q] = Mail[q]
    <2>1. \A q \in Processes : q # p => UNCHANGED queue[q]
      BY <1>1, <1>2 DEF TypeOK
    <2> QED
      BY <2>1, SameMail
  <1>7. Mail' = [Mail EXCEPT ![p] = Tail(@)]
    BY <1>5, <1>6, OneChanges
  <1>8. Lives[p] # "unborn"
    BY <1>2 DEF Lives
  <1> QED
    BY <1>3, <1>4, <1>5, <1>7, <1>8, ActorSteps

\* A process is spawned, ends, or gives its pid back.
LEMMA TurnStep ==
  ASSUME Intact, [Next]_vars, NEW p \in Processes, NEW q \in Processes,
         Spawn(q, p) \/ ReturnUnheard(p) \/ ClearAgain(p)
  PROVE  A!Turn(p)
  <1>1. TypeOK /\ LifeInv
    BY DEF Intact
  <1>2. UNCHANGED Mail
    BY MailSame DEF Spawn, ReturnUnheard, ClearAgain, ClearSlot, messageVars
  <1>3. CASE Spawn(q, p)
    <2>1. /\ pc[q] = "running" /\ pc[p] = "unborn"
          /\ \A r \in Processes :
               pc'[r] = IF r = p THEN "running" ELSE IF r = q THEN pc'[q] ELSE pc[r]
          /\ pc'[q] \in {"running", "set_pid"}
      BY <1>1, <1>3, SpawnPoints
    <2>2. UNCHANGED <<message, returned>> /\ p \notin returned
      BY <1>1, <1>3, <2>1 DEF Spawn, messageVars, LifeInv, Sending, Releasing
    <2>3. UNCHANGED Transit
      BY <2>1, <2>2, TransitSame DEF Sending
    <2>4. Lives[p] = "unborn" /\ Lives'[p] = "alive"
      BY <2>1, <2>2 DEF Lives
    <2>5. \A r \in Processes : r # p => Lives'[r] = Lives[r]
      BY <2>1, <2>2 DEF Lives
    <2> QED
      BY <1>2, <2>3, <2>4, <2>5, OneChanges, ActorSteps DEF A!After
  <1>4. CASE ReturnUnheard(p)
    <2>1. /\ pc[p] = "running" /\ p \notin returned
          /\ pc' = [pc EXCEPT ![p] = "drain"] /\ returned' = returned \union {p}
          /\ UNCHANGED message
      BY <1>4 DEF ReturnUnheard, Running, messageVars
    <2>2. UNCHANGED Transit
      BY <1>1, <2>1, TransitSame DEF Sending, TypeOK
    <2>3. Lives[p] = "alive" /\ Lives'[p] = "ended"
      BY <1>1, <2>1 DEF Lives, TypeOK
    <2>4. \A r \in Processes : r # p => Lives'[r] = Lives[r]
      BY <1>1, <2>1 DEF Lives, TypeOK
    <2> QED
      BY <1>2, <2>2, <2>3, <2>4, OneChanges, ActorSteps DEF A!After
  <1>5. CASE ClearAgain(p)
    <2>1. /\ pc[p] = "clear_again" /\ p \in returned
          /\ pc' = [pc EXCEPT ![p] = "gone"]
          /\ UNCHANGED <<message, returned>>
      BY <1>1, <1>5 DEF ClearAgain, ClearSlot, Goto, messageVars, lifeVars,
                         LifeInv, Releasing
    <2>2. UNCHANGED Transit
      BY <1>1, <2>1, TransitSame DEF Sending, TypeOK
    <2>3. Lives[p] = "ended" /\ Lives'[p] = "gone"
      BY <1>1, <2>1 DEF Lives, TypeOK
    <2>4. \A r \in Processes : r # p => Lives'[r] = Lives[r]
      BY <1>1, <2>1 DEF Lives, TypeOK
    <2> QED
      BY <1>2, <2>2, <2>3, <2>4, OneChanges, ActorSteps DEF A!After
  <1> QED
    BY <1>3, <1>4, <1>5

\* The other steps are not seen.
LEMMA QuietStep ==
  ASSUME Intact, [Next]_vars, NEW p \in Processes,
         \/ Idle(p) \/ SetPid(p) \/ LookUp(p) \/ Load(p) \/ Dispose(p)
         \/ (Drain(p) /\ queue[p] = <<>>)
         \/ Free(p) \/ Clear(p)
  PROVE  UNCHANGED <<Lives, Transit, Mail>>
  <1>1. TypeOK /\ LifeInv
    BY DEF Intact
  <1>2. /\ UNCHANGED <<queue, returned>>
        /\ \/ UNCHANGED message
           \/ pc[p] \notin Sending /\ message' = [message EXCEPT ![p] = NULL]
        /\ pc' = [pc EXCEPT ![p] = pc'[p]]
        /\ pc[p] \in Sending <=> pc'[p] \in Sending
        /\ pc[p] \notin {"unborn", "gone"} /\ pc'[p] \notin {"unborn", "gone"}
    <2>1. CASE Drain(p) /\ queue[p] = <<>>
      BY <1>1, <2>1, DrainOwn DEF Drain, Goto, Sending, lifeVars, TypeOK, Intact
    <2>2. CASE Idle(p) \/ SetPid(p) \/ LookUp(p) \/ Load(p) \/ Dispose(p)
      BY <1>1, <2>2 DEF Idle, Link, Unlink, SetPid, LookUp, Load, Dispose, Goto, Running,
                        Sending, messageVars, lifeVars, tableVars, sendVars, TypeOK
    <2>3. CASE Free(p) \/ Clear(p)
      BY <1>1, <2>3 DEF Free, Clear, ClearSlot, Goto, Sending, messageVars, lifeVars,
                        TypeOK
    <2> QED
      BY <2>1, <2>2, <2>3
  <1>3. UNCHANGED Lives
    BY <1>1, <1>2, SameLives DEF TypeOK
  <1>4. UNCHANGED Transit
    BY <1>1, <1>2, TransitSame DEF TypeOK
  <1> QED
    BY <1>2, <1>3, <1>4, MailSame

LEMMA ActorsStep ==
  ASSUME Intact, [Next]_vars
  PROVE  [A!ActorsNext]_(A!actorsVars)
  <1>1. A!actorsVars' = A!actorsVars <=> UNCHANGED <<Lives, Transit, Mail>>
    BY DEF A!actorsVars, Lives, Transit, Mail
  <1>2. CASE UNCHANGED vars
    BY <1>2 DEF vars, A!actorsVars
  <1>3. CASE Next
    <2> PICK p \in Processes : \/ UserStep(p) \/ SetPid(p) \/ SendStep(p)
                               \/ Receive(p) \/ Dispose(p) \/ ReleaseStep(p)
      BY <1>3 DEF Next
    <2>1. CASE \/ \E c \in Processes : Spawn(p, c)
               \/ ReturnUnheard(p) \/ ClearAgain(p)
      BY <2>1, TurnStep DEF A!ActorsNext
    <2>2. CASE \/ \E m \in Messages, d \in Pids : Send(p, m, d)
               \/ \E m \in Messages : Return(p, m)
      BY <2>2, PostStep DEF A!ActorsNext
    <2>3. CASE LookUpFails(p) \/ LoadNull(p) \/ Put(p) \/ PutFreed(p)
      BY <2>3, ArriveStep DEF A!ActorsNext
    <2>4. CASE Receive(p) \/ (Drain(p) /\ queue[p] # <<>>)
      <3>1. queue[p] # <<>>
        BY <2>4 DEF Receive
      <3> QED
        BY <2>4, <3>1, TakeStep DEF A!ActorsNext
    <2>5. CASE \/ Idle(p) \/ SetPid(p) \/ LookUp(p) \/ Load(p) \/ Dispose(p)
               \/ (Drain(p) /\ queue[p] = <<>>)
               \/ Free(p) \/ Clear(p)
      BY <1>1, <2>5, QuietStep
    <2>6. ~ DrainNull(p)
      BY FoundIsOwn DEF DrainNull, Goto, Intact
    <2> QED
      BY <2>1, <2>2, <2>3, <2>4, <2>5, <2>6
         DEF UserStep, SendStep, ReleaseStep, Idle
  <1> QED
    BY <1>2, <1>3

LEMMA ActorsInitially == Init => A!ActorsInit
  <1> SUFFICES ASSUME Init
               PROVE  A!ActorsInit
    OBVIOUS
  <1>1. \A p \in Processes : queue[p] = <<>>
    BY DEF Init
  <1>2. \A p \in Processes : [i \in DOMAIN queue[p] |-> content[queue[p][i]]] = <<>>
    BY <1>1
  <1> QED
    BY <1>2 DEF Init, A!ActorsInit, Sending

\* Until a slot is taken between its two clears (message.c:168, node.c:394), the
\* processes of a node are actors, whoever spawns or ends between the steps of a
\* send: what is sent to a living process reaches it once and in order
\* (node.c:245-277), and a pid is given away only when its owner takes part in
\* nothing any more (node.c:391-394).
THEOREM NodeImplementsActors == Spec => ImplementsActors
  <1>1. IndInv /\ [Next]_vars => [~ reused' => A!ActorsNext]_(A!actorsVars)
    <2> SUFFICES ASSUME IndInv, [Next]_vars, ~ reused'
                 PROVE  [A!ActorsNext]_(A!actorsVars)
      OBVIOUS
    <2>1. Intact
      BY ReusedStays DEF IndInv
    <2> QED
      BY <2>1, ActorsStep
  <1> QED
    BY <1>1, ActorsInitially, Invariance, PTL DEF Spec, ImplementsActors
=============================================================================
