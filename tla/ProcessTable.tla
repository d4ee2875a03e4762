---------------------------- MODULE ProcessTable ----------------------------
(***************************************************************************)
(* The process table of a node (src/node.c) and the two operations of      *)
(* src/process.c that use it: actor_process_create finds a free slot of    *)
(* message_queues and registers a new queue there, actor_process_release   *)
(* frees the queue and clears the slot.  The index of the slot is the pid. *)
(* process_count and process_semaphore serve actor_node_wait_for_processes.*)
(*                                                                         *)
(* Creation is serialised by message_queue_create_semaphore; release takes *)
(* no lock at all.  One action is one access of a thread to shared memory, *)
(* so that every interleaving of creations, releases and a wait is a       *)
(* behaviour.  A process stands for the thread that creates it, runs it    *)
(* and releases it.                                                        *)
(***************************************************************************)
EXTENDS Integers, FiniteSets

CONSTANTS
  Processes,     \* the process objects malloc can hand out
  Queues,        \* the message queue objects malloc can hand out
  Size,          \* message_queue_count, the size argument of node_create
  CountModulus,  \* 2^w for the w bits of process_count
  MaxSignals,    \* bound on process_semaphore
  Contents,      \* what a slot of the table malloc returns may contain
  NULL,          \* the null pointer
  Garbage        \* a leftover pointer of memory used before

ASSUME SizeAssumption ==
  /\ Size \in Nat \ {0}
  /\ CountModulus \in Nat \ {0}
  /\ MaxSignals \in Nat

ASSUME PointerAssumption ==
  /\ NULL \notin Queues
  /\ Garbage \notin Queues \union {NULL}
  /\ Contents \subseteq {NULL, Garbage}

ASSUME ProcessesAssumption == IsFiniteSet(Processes)

ACTOR_INVALID_ID == -1

Slots == 0 .. Size - 1

VARIABLES
  message_queues,                 \* the table
  message_queue_pos,              \* the slot to try first
  message_queue_create_semaphore, \* value of the create lock
  process_count,                  \* number of processes, as counted
  process_semaphore,              \* signalled when the count returns to 0
  queues,                         \* the queue objects allocated
  pc,                             \* where each process is
  pid,                            \* process->pid
  message_queue,                  \* newQueue, and then process->message_queue
  scan,                           \* i, in the search for a free slot
  found,                          \* the queue read from the slot by release
  loaded,                         \* process_count, as loaded for an update
  waiter,                         \* the thread in wait_for_processes
  cleared,                        \* history: slots cleared during a creation
  races                           \* history: the races that have happened

tableVars == <<message_queues, message_queue_pos,
               message_queue_create_semaphore, queues, cleared>>
countVars == <<process_count, process_semaphore, loaded, waiter>>
processVars == <<pid, message_queue, scan, found>>
vars == <<tableVars, countVars, processVars, pc, races>>

\* The points between the wait and the signal of the create lock.
Section == {"check", "scan", "refused", "refused_free", "new_queue",
            "register", "inc_load", "inc_store", "drain", "unlock"}
Release == {"free", "clear", "clear_again", "dec_load", "dec_store", "test",
            "signal"}
Points == {"idle", "lock", "created"} \union Section \union Release

\* What can go wrong because release takes no lock, see below.
Races == {"reused", "lost", "late"}

\* actor_node_create: the table is not initialised.
Init ==
  /\ message_queues \in [Slots -> Contents]
  /\ message_queue_pos = 0
  /\ message_queue_create_semaphore = 1
  /\ process_count = 0
  /\ process_semaphore = 0
  /\ queues = {}
  /\ pc = [p \in Processes |-> "idle"]
  /\ pid = [p \in Processes |-> ACTOR_INVALID_ID]
  /\ message_queue = [p \in Processes |-> NULL]
  /\ scan = [p \in Processes |-> 0]
  /\ found = [p \in Processes |-> NULL]
  /\ loaded = [p \in Processes |-> 0]
  /\ waiter = "idle"
  /\ cleared = {}
  /\ races = {}

Goto(p, from, to) ==
  /\ pc[p] = from
  /\ pc' = [pc EXCEPT ![p] = to]

\* The process object is freed.
Forget(p) ==
  /\ pid' = [pid EXCEPT ![p] = ACTOR_INVALID_ID]
  /\ message_queue' = [message_queue EXCEPT ![p] = NULL]
  /\ scan' = [scan EXCEPT ![p] = 0]
  /\ found' = [found EXCEPT ![p] = NULL]

-----------------------------------------------------------------------------
(* actor_process_create and actor_node_get_free_message_queue.             *)

CreateCall(p) ==
  /\ Goto(p, "idle", "lock")
  /\ UNCHANGED <<tableVars, countVars, processVars, races>>

\* Mutant: the create lock is not taken.
LockUnlocked(p) ==
  /\ Goto(p, "lock", "check")
  /\ UNCHANGED <<tableVars, countVars, processVars, races>>

Lock(p) ==
  /\ Goto(p, "lock", "check")
  /\ message_queue_create_semaphore > 0
  /\ message_queue_create_semaphore' = message_queue_create_semaphore - 1
  /\ UNCHANGED <<message_queues, message_queue_pos, queues, cleared, countVars,
                 processVars, races>>

\* The process takes the slot; the next creation starts behind it.
Take(p, slot) ==
  /\ pid' = [pid EXCEPT ![p] = slot]
  /\ message_queue_pos' = slot + 1

FreeAt(slot) == slot < Size /\ message_queues[slot] = NULL

\* Mutant: the slot at message_queue_pos is taken without a look at it.
CheckUnlooked(p) ==
  /\ pc[p] = "check"
  /\ IF message_queue_pos < Size
     THEN /\ pc' = [pc EXCEPT ![p] = "new_queue"]
          /\ Take(p, message_queue_pos)
     ELSE /\ pc' = [pc EXCEPT ![p] = "scan"]
          /\ UNCHANGED <<pid, message_queue_pos>>
  /\ scan' = [scan EXCEPT ![p] = 0]
  /\ UNCHANGED <<message_queues, message_queue_create_semaphore, queues,
                 cleared, countVars, message_queue, found, races>>

\* Mutant: the search starts at slot 1.
CheckOffByOne(p) ==
  /\ pc[p] = "check"
  /\ IF FreeAt(message_queue_pos)
     THEN /\ pc' = [pc EXCEPT ![p] = "new_queue"]
          /\ Take(p, message_queue_pos)
          /\ UNCHANGED scan
     ELSE /\ pc' = [pc EXCEPT ![p] = "scan"]
          /\ scan' = [scan EXCEPT ![p] = IF Size > 1 THEN 1 ELSE 0]
          /\ UNCHANGED <<pid, message_queue_pos>>
  /\ UNCHANGED <<message_queues, message_queue_create_semaphore, queues,
                 cleared, countVars, message_queue, found, races>>

Check(p) ==
  /\ pc[p] = "check"
  /\ IF FreeAt(message_queue_pos)
     THEN /\ pc' = [pc EXCEPT ![p] = "new_queue"]
          /\ Take(p, message_queue_pos)
     ELSE /\ pc' = [pc EXCEPT ![p] = "scan"]
          /\ UNCHANGED <<pid, message_queue_pos>>
  /\ scan' = [scan EXCEPT ![p] = 0]
  /\ UNCHANGED <<message_queues, message_queue_create_semaphore, queues,
                 cleared, countVars, message_queue, found, races>>

\* The search stops at the first free slot.  That slot is refused if it is
\* the one at message_queue_pos, which Check had found in use.
ScanFree(p) ==
  /\ pc[p] = "scan"
  /\ FreeAt(scan[p])
  /\ IF scan[p] = message_queue_pos
     THEN /\ pc' = [pc EXCEPT ![p] = "refused_free"]
          /\ UNCHANGED <<pid, message_queue_pos>>
     ELSE /\ pc' = [pc EXCEPT ![p] = "new_queue"]
          /\ Take(p, scan[p])
  /\ scan' = [scan EXCEPT ![p] = 0]
  /\ UNCHANGED <<message_queues, message_queue_create_semaphore, queues,
                 cleared, countVars, message_queue, found, races>>

ScanUsed(p) ==
  /\ pc[p] = "scan"
  /\ ~ FreeAt(scan[p])
  /\ IF scan[p] + 1 < Size
     THEN /\ scan' = [scan EXCEPT ![p] = @ + 1]
          /\ UNCHANGED pc
     ELSE /\ pc' = [pc EXCEPT ![p] = "refused"]
          /\ UNCHANGED scan
  /\ UNCHANGED <<tableVars, countVars, pid, message_queue, found, races>>

\* Mutant: the create lock is kept on the error path.
RefuseLocked(p) ==
  /\ pc[p] \in {"refused", "refused_free"}
  /\ pc' = [pc EXCEPT ![p] = "idle"]
  /\ Forget(p)
  /\ UNCHANGED <<tableVars, countVars, races>>

\* ACTOR_ERROR_TOO_MANY_PROCESSES.
Refuse(p) ==
  /\ pc[p] \in {"refused", "refused_free"}
  /\ pc' = [pc EXCEPT ![p] = "idle"]
  /\ message_queue_create_semaphore' = message_queue_create_semaphore + 1
  /\ Forget(p)
  /\ cleared' = {}
  /\ UNCHANGED <<message_queues, message_queue_pos, queues, countVars, races>>

NewQueue(p, q) ==
  /\ Goto(p, "new_queue", "register")
  /\ q \notin queues
  /\ queues' = queues \union {q}
  /\ message_queue' = [message_queue EXCEPT ![p] = q]
  /\ UNCHANGED <<message_queues, message_queue_pos,
                 message_queue_create_semaphore, cleared, countVars, pid, scan,
                 found, races>>

\* No memory or no semaphore for a queue: the slot stays free, but
\* message_queue_pos has moved on.
NewQueueFails(p) ==
  /\ Goto(p, "new_queue", "idle")
  /\ message_queue_create_semaphore' = message_queue_create_semaphore + 1
  /\ Forget(p)
  /\ cleared' = {}
  /\ UNCHANGED <<message_queues, message_queue_pos, queues, countVars, races>>

\* The race "reused": the slot has been cleared by a release that is going to
\* clear it once more.
Register(p) ==
  /\ Goto(p, "register", "inc_load")
  /\ message_queues' = [message_queues EXCEPT ![pid[p]] = message_queue[p]]
  /\ races' = IF \E u \in Processes : pc[u] = "clear_again" /\ pid[u] = pid[p]
              THEN races \union {"reused"} ELSE races
  /\ UNCHANGED <<message_queue_pos, message_queue_create_semaphore, queues,
                 cleared, countVars, processVars>>

-----------------------------------------------------------------------------
(* The process counter is loaded, changed and stored by threads that do    *)
(* not exclude each other.                                                 *)

Load(p, from, to) ==
  /\ Goto(p, from, to)
  /\ loaded' = [loaded EXCEPT ![p] = process_count]
  /\ UNCHANGED <<tableVars, process_count, process_semaphore, waiter,
                 processVars, races>>

\* The race "lost": the counter has changed since it was loaded.
Store(p, from, to, value) ==
  /\ Goto(p, from, to)
  /\ process_count' = value % CountModulus
  /\ loaded' = [loaded EXCEPT ![p] = 0]
  /\ races' = IF loaded[p] # process_count
              THEN races \union {"lost"} ELSE races
  /\ UNCHANGED <<tableVars, process_semaphore, waiter, processVars>>

IncLoad(p) == Load(p, "inc_load", "inc_store")

IncStore(p) == Store(p, "inc_store", "drain", loaded[p] + 1)

\* Mutant: a signal of earlier processes is left standing.
DrainNot(p) ==
  /\ Goto(p, "drain", "unlock")
  /\ UNCHANGED <<tableVars, countVars, processVars, races>>

\* dispatch_semaphore_wait with DISPATCH_TIME_NOW takes a signal if there is
\* one, and does not wait for one.
Drain(p) ==
  /\ Goto(p, "drain", "unlock")
  /\ process_semaphore' =
       IF process_semaphore = 0 THEN 0 ELSE process_semaphore - 1
  /\ UNCHANGED <<tableVars, process_count, loaded, waiter, processVars, races>>

Unlock(p) ==
  /\ Goto(p, "unlock", "created")
  /\ message_queue_create_semaphore' = message_queue_create_semaphore + 1
  /\ cleared' = {}
  /\ UNCHANGED <<message_queues, message_queue_pos, queues, countVars,
                 processVars, races>>

-----------------------------------------------------------------------------
(* actor_process_release, actor_node_message_queue_release and             *)
(* actor_message_queue_release.                                            *)

\* The queue released is the one found in the slot.
ReleaseRead(p) ==
  /\ pc[p] = "created"
  /\ found' = [found EXCEPT ![p] = message_queues[pid[p]]]
  /\ pc' = [pc EXCEPT ![p] = IF found'[p] = NULL
                              THEN "clear_again" ELSE "free"]
  /\ UNCHANGED <<tableVars, countVars, pid, message_queue, scan, races>>

Free(p) ==
  /\ Goto(p, "free", "clear")
  /\ queues' = queues \ {found[p]}
  /\ found' = [found EXCEPT ![p] = NULL]
  /\ UNCHANGED <<message_queues, message_queue_pos,
                 message_queue_create_semaphore, cleared, countVars, pid,
                 message_queue, scan, races>>

ClearSlot(p, from, to) ==
  /\ Goto(p, from, to)
  /\ message_queues' = [message_queues EXCEPT ![pid[p]] = NULL]
  /\ cleared' = IF message_queue_create_semaphore = 0
                THEN cleared \union {pid[p]} ELSE cleared
  /\ UNCHANGED <<message_queue_pos, message_queue_create_semaphore, queues,
                 countVars, processVars, races>>

\* *queuePointer = NULL of actor_message_queue_release ...
Clear(p) == ClearSlot(p, "clear", "clear_again")

\* ... and message_queues[pid] = NULL of actor_node_message_queue_release.
ClearAgain(p) == ClearSlot(p, "clear_again", "dec_load")

DecLoad(p) == Load(p, "dec_load", "dec_store")

\* Mutant: the counter is left alone.
DecStoreForgotten(p) ==
  /\ Goto(p, "dec_store", "test")
  /\ UNCHANGED <<tableVars, countVars, processVars, races>>

DecStore(p) == Store(p, "dec_store", "test", loaded[p] - 1)

Done(p) ==
  /\ pc' = [pc EXCEPT ![p] = "idle"]
  /\ Forget(p)

TestZero(p) ==
  /\ Goto(p, "test", "signal")
  /\ process_count = 0
  /\ UNCHANGED <<tableVars, countVars, processVars, races>>

TestNonZero(p) ==
  /\ pc[p] = "test"
  /\ process_count # 0
  /\ Done(p)
  /\ UNCHANGED <<tableVars, countVars, races>>

\* The race "late": meanwhile the counter has changed, or another thread has
\* seen the same 0 and signalled it.
SignalDone(p) ==
  /\ pc[p] = "signal"
  /\ process_semaphore < MaxSignals
  /\ process_semaphore' = process_semaphore + 1
  /\ races' = IF process_count # 0 \/ process_semaphore # 0
              THEN races \union {"late"} ELSE races
  /\ Done(p)
  /\ UNCHANGED <<tableVars, process_count, loaded, waiter>>

-----------------------------------------------------------------------------
(* actor_node_wait_for_processes.                                          *)

WaitCall ==
  /\ waiter = "idle"
  /\ waiter' = "waiting"
  /\ UNCHANGED <<tableVars, process_count, process_semaphore, loaded,
                 processVars, pc, races>>

WaitSuccess ==
  /\ waiter = "waiting"
  /\ process_semaphore > 0
  /\ process_semaphore' = process_semaphore - 1
  /\ waiter' = "idle"
  /\ UNCHANGED <<tableVars, process_count, loaded, processVars, pc, races>>

WaitTimeout ==
  /\ waiter = "waiting"
  /\ process_semaphore = 0
  /\ waiter' = "idle"
  /\ UNCHANGED <<tableVars, process_count, process_semaphore, loaded,
                 processVars, pc, races>>

-----------------------------------------------------------------------------
CreateStep(p) ==
  \/ Lock(p)
  \/ Check(p)
  \/ ScanFree(p)
  \/ ScanUsed(p)
  \/ Refuse(p)
  \/ \E q \in Queues : NewQueue(p, q)
  \/ NewQueueFails(p)
  \/ Register(p)
  \/ IncLoad(p)
  \/ IncStore(p)
  \/ Drain(p)
  \/ Unlock(p)

ReleaseStep(p) ==
  \/ Free(p)
  \/ Clear(p)
  \/ ClearAgain(p)
  \/ DecLoad(p)
  \/ DecStore(p)
  \/ TestZero(p)
  \/ TestNonZero(p)
  \/ SignalDone(p)

Next ==
  \/ \E p \in Processes :
       CreateCall(p) \/ CreateStep(p) \/ ReleaseRead(p) \/ ReleaseStep(p)
  \/ WaitCall
  \/ WaitSuccess
  \/ WaitTimeout

Spec == Init /\ [][Next]_vars

-----------------------------------------------------------------------------
(* Properties.                                                             *)

TypeOK ==
  /\ message_queues \in [Slots -> Queues \union {NULL, Garbage}]
  /\ message_queue_pos \in 0 .. Size
  /\ message_queue_create_semaphore \in {0, 1}
  /\ process_count \in 0 .. CountModulus - 1
  /\ process_semaphore \in 0 .. MaxSignals
  /\ queues \subseteq Queues
  /\ pc \in [Processes -> Points]
  /\ pid \in [Processes -> Slots \union {ACTOR_INVALID_ID}]
  /\ message_queue \in [Processes -> Queues \union {NULL}]
  /\ scan \in [Processes -> Slots]
  /\ found \in [Processes -> Queues \union {NULL}]
  /\ loaded \in [Processes -> 0 .. CountModulus - 1]
  /\ waiter \in {"idle", "waiting"}
  /\ cleared \subseteq Slots
  /\ races \subseteq Races

\* At most one process is between the wait and the signal of the create lock, and
\* the lock is taken only while one is there: no path out of a creation keeps it,
\* the two error paths (node.c:318, 342) included, so that the next creation,
\* which waits for it without a timeout (node.c:295), is never stuck.
CreateLock ==
  /\ \A p, u \in Processes : pc[p] \in Section /\ pc[u] \in Section => p = u
  /\ message_queue_create_semaphore = 0 <=>
       \E p \in Processes : pc[p] \in Section

\* A registration never overwrites a registered queue, however creations and
\* releases interleave: between the look at a slot (node.c:303, 307) and the
\* registration (node.c:348) nobody else can take it.
RegisterOnlyFree ==
  [][\A s \in Slots :
       message_queues'[s] # message_queues[s] /\ message_queues'[s] # NULL
         => message_queues[s] = NULL]_vars

\* The processes whose queue is in the table, and not yet read by a release.
Registered == {p \in Processes : pc[p] \in {"inc_load", "inc_store", "drain",
                                            "unlock", "created"}}

\* As long as no slot was reused between the two times a release clears it
\* (message.c:168, node.c:394), the table is right: every process owns the slot
\* of its pid, its queue is there and allocated, and no two processes share a
\* pid or a queue.
TableIntact ==
  "reused" \notin races =>
    /\ \A p \in Registered : /\ message_queues[pid[p]] = message_queue[p]
                             /\ message_queue[p] \in queues
    /\ \A p, u \in Registered :
         pid[p] = pid[u] \/ message_queue[p] = message_queue[u] => p = u

\* The slots a creation has looked at when it is refused (node.c:302-316): all of
\* them, or those up to message_queue_pos, behind which it does not look once it
\* has found that one free again.
Looked(p) ==
  CASE pc[p] = "refused" -> Slots
    [] pc[p] = "refused_free" -> {s \in Slots : s <= message_queue_pos}
    [] OTHER -> {}

\* A creation is refused (node.c:316) only for slots that were in use at some time
\* during the call: each one it has looked at is in use or was cleared meanwhile,
\* and if the search ended at a free slot, it is a release of that very slot,
\* found in use before (node.c:303), that it stumbled over.  So a node on which
\* nothing ends during the call refuses only when it is full.
RefusalJustified ==
  \A p \in Processes :
    /\ \A s \in Looked(p) : message_queues[s] = NULL => s \in cleared
    /\ pc[p] = "refused_free" => message_queue_pos \in cleared

\* The processes between the increment and the decrement of the counter.
Counted == {p \in Processes : pc[p] \in {"drain", "unlock", "created",
                "free", "clear", "clear_again", "dec_load", "dec_store"}}

\* As long as no update of process_count got lost (node.c:351, 397), it is the
\* number of processes.
CountAgrees == "lost" \notin races => process_count = Cardinality(Counted)

WaitSucceeds ==
  /\ waiter = "waiting" /\ waiter' = "idle"
  /\ process_semaphore' < process_semaphore

\* As long as no update was lost and no signal came late, the wait for the
\* processes (node.c:408-425) ends only when there is no process: whoever has
\* not ended is still being created.
WaitJustified ==
  [][WaitSucceeds /\ races \intersect {"lost", "late"} = {}
       => \A p \in Counted : pc[p] = "drain"]_vars

-----------------------------------------------------------------------------
(* What comments of the code say and the code does not do.                 *)

\* "send signal if no process left" (node.c:399): once every process is released
\* and none is being created, the counter that decides about the signal is 0.
ZeroWhenNoneLeft ==
  (\A p \in Processes : pc[p] = "idle") => process_count = 0

\* "wait for all processes to complete" (node.c:414).
WaitIsForAll ==
  [][WaitSucceeds => \A p \in Processes : pc[p] # "created"]_vars
=============================================================================
