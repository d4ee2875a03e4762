------------------------- MODULE ProcessTableProofs -------------------------
(***************************************************************************)
(* Proofs about ProcessTable, for every number of processes, queues and    *)
(* slots, and for every initial content of the table.                      *)
(***************************************************************************)
EXTENDS ProcessTable, Counting, FiniteSetTheorems, TLAPS

(***************************************************************************)
(* The inductive invariant of the lock, the slots and the search.          *)
(***************************************************************************)

\* The points at which a process has a pid and is going to use its slot.
Holding == {"new_queue", "register", "inc_load", "inc_store", "drain",
            "unlock", "created", "free", "clear", "clear_again"}

\* A slot that a process has taken contains nothing malloc has left there.
HoldInv ==
  \A p \in Processes :
    pc[p] \in Holding =>
      pid[p] \in Slots /\ message_queues[pid[p]] # Garbage

\* The slot a creation has chosen stays free until it is registered.
FreeInv ==
  \A p \in Processes :
    pc[p] \in {"new_queue", "register"} =>
      pid[p] \in Slots /\ message_queues[pid[p]] = NULL

\* The slots that a creation has found in use.
Passed(p, s) ==
  \/ pc[p] = "scan" /\ (s < scan[p] \/ s = message_queue_pos)
  \/ pc[p] = "refused"
  \/ pc[p] = "refused_free" /\ s <= message_queue_pos

\* They are in use, or were cleared since.
SearchInv ==
  \A p \in Processes :
    /\ \A s \in Slots :
         Passed(p, s) /\ message_queues[s] = NULL => s \in cleared
    /\ pc[p] = "refused_free" => message_queue_pos \in cleared

IndInv ==
  /\ TypeOK
  /\ CreateLock
  /\ HoldInv
  /\ FreeInv
  /\ SearchInv

ProcessStep(p) ==
  CreateCall(p) \/ CreateStep(p) \/ ReleaseRead(p) \/ ReleaseStep(p)

WaitStep == WaitCall \/ WaitSuccess \/ WaitTimeout
-----------------------------------------------------------------------------
(* Every step keeps the inductive invariant: one lemma for each conjunct.  *)

\* A counter is stored modulo CountModulus.
LEMMA ModuloType ==
  ASSUME NEW n \in Int
  PROVE  n % CountModulus \in 0 .. CountModulus - 1
  BY SizeAssumption

\* Every index stays in the table, and every value in its type.
LEMMA TypeStep ==
  ASSUME IndInv, NEW p \in Processes, ProcessStep(p)
  PROVE  TypeOK'
  <1> USE SizeAssumption, PointerAssumption
      DEF Goto, tableVars, countVars, processVars, IndInv, TypeOK
  <1>p. /\ \A q \in {"idle", "lock", "check", "scan", "refused", "refused_free",
                     "new_queue", "register", "inc_load", "inc_store", "drain",
                     "unlock", "created", "free", "clear", "clear_again",
                     "dec_load", "dec_store", "test", "signal"} : q \in Points
        /\ pc[p] \in Section => message_queue_create_semaphore = 0
        /\ pc[p] \in Holding =>
             pid[p] \in Slots /\ message_queues[pid[p]] # Garbage
    BY DEF Points, Section, Release, CreateLock, HoldInv
  <1>1. CASE CreateCall(p) \/ Lock(p)
    BY <1>1, <1>p DEF CreateCall, Lock
  <1>s. /\ 0 \in Slots
        /\ \A s \in 0 .. Size : FreeAt(s) => s \in Slots /\ s + 1 \in 0 .. Size
        /\ \A s \in Slots : s \in 0 .. Size
        /\ \A s \in Slots : s + 1 < Size => s + 1 \in Slots
    BY DEF Slots, FreeAt
  <1> HIDE DEF Slots
  <1>2. CASE Check(p)
    <2>1. CASE FreeAt(message_queue_pos)
      BY <1>2, <1>p, <1>s, <2>1 DEF Check, Take
    <2>2. CASE ~ FreeAt(message_queue_pos)
      BY <1>2, <1>p, <1>s, <2>2 DEF Check, Take
    <2> QED
      BY <2>1, <2>2
  <1>3. CASE ScanFree(p)
    <2>1. scan[p] \in Slots /\ scan[p] + 1 \in 0 .. Size
      BY <1>3, <1>s DEF ScanFree
    <2>2. CASE scan[p] = message_queue_pos
      BY <1>3, <1>p, <1>s, <2>2 DEF ScanFree
    <2>3. CASE scan[p] # message_queue_pos
      BY <1>3, <1>p, <1>s, <2>1, <2>3 DEF ScanFree, Take
    <2> QED
      BY <2>2, <2>3
  <1>4. CASE ScanUsed(p)
    BY <1>4, <1>p, <1>s DEF ScanUsed
  <1>5. CASE Refuse(p)
    BY <1>5, <1>p, <1>s DEF Refuse, Forget, Section
  <1>6. CASE \E q \in Queues : NewQueue(p, q)
    BY <1>6, <1>p DEF NewQueue
  <1>7. CASE NewQueueFails(p)
    BY <1>7, <1>p, <1>s DEF NewQueueFails, Forget, Section
  <1>8. CASE Register(p)
    BY <1>8, <1>p DEF Register, Races
  <1>9. CASE IncLoad(p) \/ DecLoad(p)
    BY <1>9, <1>p DEF IncLoad, DecLoad, Load
  <1>10. CASE IncStore(p) \/ DecStore(p)
    <2>1. /\ loaded[p] + 1 \in Int
          /\ loaded[p] - 1 \in Int
      OBVIOUS
    <2>2. /\ (loaded[p] + 1) % CountModulus \in 0 .. CountModulus - 1
          /\ (loaded[p] - 1) % CountModulus \in 0 .. CountModulus - 1
      BY <2>1, ModuloType
    <2>3. process_count' \in 0 .. CountModulus - 1
      BY <1>10, <2>2 DEF IncStore, DecStore, Store
    <2>4. loaded' \in [Processes -> 0 .. CountModulus - 1]
      <3>1. 0 \in 0 .. CountModulus - 1
        OBVIOUS
      <3> QED
        BY <1>10, <3>1 DEF IncStore, DecStore, Store
    <2>5. races' \subseteq Races
      BY <1>10 DEF IncStore, DecStore, Store, Races
    <2>6. pc' \in [Processes -> Points]
      BY <1>10, <1>p DEF IncStore, DecStore, Store
    <2> QED
      BY <1>10, <2>3, <2>4, <2>5, <2>6 DEF IncStore, DecStore, Store
  <1>11. CASE Drain(p)
    BY <1>11, <1>p DEF Drain
  <1>12. CASE Unlock(p)
    BY <1>12, <1>p DEF Unlock, Section
  <1>13. CASE ReleaseRead(p)
    BY <1>13, <1>p DEF ReleaseRead, Holding
  <1>14. CASE Free(p)
    BY <1>14, <1>p DEF Free
  <1>15. CASE Clear(p) \/ ClearAgain(p)
    BY <1>15, <1>p DEF Clear, ClearAgain, ClearSlot, Holding
  <1>16. CASE TestZero(p)
    BY <1>16, <1>p DEF TestZero
  <1>17. CASE TestNonZero(p)
    BY <1>17, <1>p, <1>s DEF TestNonZero, Done, Forget
  <1>18. CASE SignalDone(p)
    <2>1. /\ process_semaphore' \in 0 .. MaxSignals
          /\ races' \subseteq Races
      BY <1>18 DEF SignalDone, Races
    <2> QED
      BY <1>18, <1>p, <1>s, <2>1 DEF SignalDone, Done, Forget
  <1> QED
    BY <1>1, <1>2, <1>3, <1>4, <1>5, <1>6, <1>7, <1>8, <1>9, <1>10, <1>11,
       <1>12, <1>13, <1>14, <1>15, <1>16, <1>17, <1>18
       DEF ProcessStep, CreateStep, ReleaseStep

\* A step of one process leaves the others where they are.
LEMMA OthersStay ==
  ASSUME TypeOK, NEW p \in Processes, ProcessStep(p),
         NEW u \in Processes, u # p
  PROVE  /\ pc'[u] = pc[u]
         /\ pid'[u] = pid[u]
         /\ message_queue'[u] = message_queue[u]
         /\ scan'[u] = scan[u]
         /\ found'[u] = found[u]
         /\ loaded'[u] = loaded[u]
  <1> USE DEF Goto, tableVars, countVars, processVars, TypeOK
  <1>1. CASE CreateCall(p) \/ Lock(p) \/ Check(p) \/ ScanFree(p) \/ ScanUsed(p)
    BY <1>1 DEF CreateCall, Lock, Check, ScanFree, ScanUsed, Take
  <1>2. CASE \/ Refuse(p) \/ NewQueueFails(p) \/ Register(p)
             \/ \E q \in Queues : NewQueue(p, q)
    BY <1>2 DEF Refuse, NewQueueFails, Register, NewQueue, Forget
  <1>3. CASE IncLoad(p) \/ IncStore(p) \/ Drain(p) \/ Unlock(p)
    BY <1>3 DEF IncLoad, IncStore, Load, Store, Drain, Unlock
  <1>4. CASE ReleaseRead(p) \/ Free(p) \/ Clear(p) \/ ClearAgain(p)
    BY <1>4 DEF ReleaseRead, Free, Clear, ClearAgain, ClearSlot
  <1>5. CASE \/ DecLoad(p) \/ DecStore(p) \/ TestZero(p) \/ TestNonZero(p)
             \/ SignalDone(p)
    BY <1>5 DEF DecLoad, DecStore, Load, Store, TestZero, TestNonZero,
                SignalDone, Done, Forget
  <1> QED
    BY <1>1, <1>2, <1>3, <1>4, <1>5 DEF ProcessStep, CreateStep, ReleaseStep

\* The create lock: who is in the section, and what the lock says of it.
LEMMA LockStep ==
  ASSUME IndInv, NEW p \in Processes, ProcessStep(p)
  PROVE  CreateLock'
  <1> USE DEF Goto, tableVars, countVars, processVars
  <1>t. /\ TypeOK
        /\ \A u \in Processes : u # p => pc'[u] = pc[u]
        /\ message_queue_create_semaphore \in {0, 1}
        /\ \A u, v \in Processes :
             pc[u] \in Section /\ pc[v] \in Section => u = v
        /\ message_queue_create_semaphore = 0 <=>
             \E u \in Processes : pc[u] \in Section
    BY OthersStay DEF IndInv, TypeOK, CreateLock
  \* The process stays on its side of the border of the section.
  <1>1. ASSUME pc'[p] \in Section <=> pc[p] \in Section,
               UNCHANGED message_queue_create_semaphore
        PROVE  CreateLock'
    BY <1>t, <1>1 DEF CreateLock
  \* The process leaves the section.
  <1>2. ASSUME pc[p] \in Section, pc'[p] \notin Section,
               message_queue_create_semaphore' =
                 message_queue_create_semaphore + 1
        PROVE  CreateLock'
    BY <1>t, <1>2 DEF CreateLock
  <1>3. CASE Lock(p)
    <2>1. /\ message_queue_create_semaphore = 1
          /\ message_queue_create_semaphore' = 0
          /\ pc'[p] \in Section
      BY <1>3, <1>t DEF Lock, Section, TypeOK
    <2> QED
      BY <2>1, <1>t DEF CreateLock
  <1>4. CASE Check(p) \/ ScanFree(p) \/ ScanUsed(p) \/ Register(p) \/ Drain(p)
    <2>1. /\ pc[p] \in Section /\ pc'[p] \in Section
          /\ UNCHANGED message_queue_create_semaphore
      BY <1>4, <1>t DEF Check, ScanFree, ScanUsed, Register, Drain, Section,
                        TypeOK
    <2> QED
      BY <2>1, <1>1
  <1>5. CASE (\E q \in Queues : NewQueue(p, q)) \/ IncLoad(p) \/ IncStore(p)
    <2>1. /\ pc[p] \in Section /\ pc'[p] \in Section
          /\ UNCHANGED message_queue_create_semaphore
      BY <1>5, <1>t DEF NewQueue, IncLoad, IncStore, Load, Store, Section,
                        TypeOK
    <2> QED
      BY <2>1, <1>1
  <1>6. CASE Refuse(p) \/ NewQueueFails(p) \/ Unlock(p)
    <2>1. /\ pc[p] \in Section /\ pc'[p] \notin Section
          /\ message_queue_create_semaphore' =
               message_queue_create_semaphore + 1
      BY <1>6, <1>t DEF Refuse, NewQueueFails, Unlock, Section, TypeOK
    <2> QED
      BY <2>1, <1>2
  <1>7. CASE \/ CreateCall(p) \/ ReleaseRead(p) \/ Free(p) \/ Clear(p)
             \/ ClearAgain(p)
    <2>1. /\ pc[p] \notin Section /\ pc'[p] \notin Section
          /\ UNCHANGED message_queue_create_semaphore
      BY <1>7, <1>t DEF CreateCall, ReleaseRead, Free, Clear, ClearAgain,
                        ClearSlot, Section, TypeOK
    <2> QED
      BY <2>1, <1>1
  <1>8. CASE \/ DecLoad(p) \/ DecStore(p) \/ TestZero(p) \/ TestNonZero(p)
             \/ SignalDone(p)
    <2>1. /\ pc[p] \notin Section /\ pc'[p] \notin Section
          /\ UNCHANGED message_queue_create_semaphore
      BY <1>8, <1>t DEF DecLoad, DecStore, Load, Store, TestZero, TestNonZero,
                        SignalDone, Done, Section, TypeOK
    <2> QED
      BY <2>1, <1>1
  <1> QED
    BY <1>3, <1>4, <1>5, <1>6, <1>7, <1>8
       DEF ProcessStep, CreateStep, ReleaseStep

\* Only a registration and the two clears of a release write to the table.
LEMMA SlotsStay ==
  ASSUME TypeOK, NEW p \in Processes, ProcessStep(p)
  PROVE  \/ Register(p)
         \/ Clear(p)
         \/ ClearAgain(p)
         \/ UNCHANGED message_queues
  <1> USE DEF Goto, tableVars, countVars, processVars
  <1>1. CASE CreateCall(p) \/ Lock(p) \/ Check(p) \/ ScanFree(p) \/ ScanUsed(p)
    BY <1>1 DEF CreateCall, Lock, Check, ScanFree, ScanUsed
  <1>2. CASE \/ Refuse(p) \/ NewQueueFails(p)
             \/ \E q \in Queues : NewQueue(p, q)
    BY <1>2 DEF Refuse, NewQueueFails, NewQueue
  <1>3. CASE IncLoad(p) \/ IncStore(p) \/ Drain(p) \/ Unlock(p)
    BY <1>3 DEF IncLoad, IncStore, Load, Store, Drain, Unlock
  <1>4. CASE ReleaseRead(p) \/ Free(p)
    BY <1>4 DEF ReleaseRead, Free
  <1>5. CASE \/ DecLoad(p) \/ DecStore(p) \/ TestZero(p) \/ TestNonZero(p)
             \/ SignalDone(p)
    BY <1>5 DEF DecLoad, DecStore, Load, Store, TestZero, TestNonZero,
                SignalDone
  <1> QED
    BY <1>1, <1>2, <1>3, <1>4, <1>5 DEF ProcessStep, CreateStep, ReleaseStep

\* What a write to the table writes: a queue, or NULL.
LEMMA SlotWrites ==
  ASSUME TypeOK, NEW p \in Processes, ProcessStep(p), NEW s \in Slots
  PROVE  \/ message_queues'[s] = message_queues[s]
         \/ Register(p) /\ s = pid[p] /\ message_queues'[s] = message_queue[p]
         \/ (Clear(p) \/ ClearAgain(p)) /\ s = pid[p] /\ message_queues'[s] = NULL
  <1>1. CASE Register(p)
    BY <1>1 DEF Register, TypeOK
  <1>2. CASE Clear(p) \/ ClearAgain(p)
    BY <1>2 DEF Clear, ClearAgain, ClearSlot, TypeOK
  <1> QED
    BY <1>1, <1>2, SlotsStay

\* How a process comes to a slot: it finds it free.
LEMMA HoldEnter ==
  ASSUME IndInv, NEW p \in Processes, ProcessStep(p), pc'[p] \in Holding
  PROVE  \/ pc[p] \in Holding /\ pid'[p] = pid[p]
         \/ /\ pc[p] \in {"check", "scan"}
            /\ pc'[p] = "new_queue"
            /\ pid'[p] \in Slots
            /\ message_queues[pid'[p]] = NULL
            /\ UNCHANGED message_queues
  <1> USE DEF Goto, tableVars, countVars, processVars, TypeOK, Holding
  <1>t. /\ TypeOK
        /\ \A s \in 0 .. Size : FreeAt(s) => s \in Slots /\ message_queues[s] = NULL
        /\ message_queue_pos \in 0 .. Size
        /\ scan[p] \in 0 .. Size
    BY SizeAssumption DEF IndInv, FreeAt, Slots
  <1>1. CASE Check(p)
    BY <1>1, <1>t DEF Check, Take
  <1>2. CASE ScanFree(p)
    BY <1>2, <1>t DEF ScanFree, Take
  <1>3. CASE CreateCall(p) \/ Lock(p) \/ ScanUsed(p) \/ Refuse(p) \/ NewQueueFails(p)
    BY <1>3, <1>t DEF CreateCall, Lock, ScanUsed, Refuse, NewQueueFails
  <1>4. CASE \/ Register(p) \/ IncLoad(p) \/ IncStore(p) \/ Drain(p)
             \/ Unlock(p) \/ \E q \in Queues : NewQueue(p, q)
    BY <1>4, <1>t DEF Register, IncLoad, IncStore, Load, Store, Drain, Unlock,
                      NewQueue
  <1>5. CASE ReleaseRead(p) \/ Free(p) \/ Clear(p) \/ ClearAgain(p)
    BY <1>5, <1>t DEF ReleaseRead, Free, Clear, ClearAgain, ClearSlot
  <1>6. CASE \/ DecLoad(p) \/ DecStore(p) \/ TestZero(p) \/ TestNonZero(p)
             \/ SignalDone(p)
    BY <1>6, <1>t DEF DecLoad, DecStore, Load, Store, TestZero, TestNonZero,
                      SignalDone, Done
  <1> QED
    BY <1>1, <1>2, <1>3, <1>4, <1>5, <1>6 DEF ProcessStep, CreateStep, ReleaseStep

\* A slot is taken only when it is free, and nothing writes Garbage.
LEMMA HoldStep ==
  ASSUME IndInv, NEW p \in Processes, ProcessStep(p)
  PROVE  HoldInv'
  <1> SUFFICES ASSUME NEW u \in Processes, pc'[u] \in Holding
               PROVE  pid'[u] \in Slots /\ message_queues'[pid'[u]] # Garbage
    BY DEF HoldInv
  <1>t. TypeOK /\ HoldInv
    BY DEF IndInv
  <1>1. pid'[u] \in Slots /\ message_queues[pid'[u]] # Garbage
    <2>1. CASE u = p
      BY <2>1, <1>t, HoldEnter, PointerAssumption DEF HoldInv
    <2>2. CASE u # p
      BY <2>2, <1>t, OthersStay DEF HoldInv
    <2> QED
      BY <2>1, <2>2
  <1>2. message_queue[p] # Garbage /\ NULL # Garbage
    BY <1>t, PointerAssumption DEF TypeOK
  <1> QED
    BY <1>1, <1>2, <1>t, SlotWrites

\* Only the one creation in progress fills a slot.
LEMMA FreeStep ==
  ASSUME IndInv, NEW p \in Processes, ProcessStep(p)
  PROVE  FreeInv'
  <1> SUFFICES ASSUME NEW u \in Processes, pc'[u] \in {"new_queue", "register"}
               PROVE  pid'[u] \in Slots /\ message_queues'[pid'[u]] = NULL
    BY DEF FreeInv
  <1>t. TypeOK /\ FreeInv /\ CreateLock
    BY DEF IndInv
  <1>1. CASE u = p
    <2>1. pc'[p] \in Holding
      BY <1>1 DEF Holding
    <2>2. CASE pc[p] \in {"check", "scan"}
      BY <1>1, <2>1, <2>2, HoldEnter DEF Holding
    <2>3. CASE pc[p] \notin {"check", "scan"}
      <3>1. pc[p] \in Holding /\ pid'[p] = pid[p]
        BY <2>1, <2>3, HoldEnter
      <3>2. pc[p] = "new_queue" /\ UNCHANGED message_queues
        <4>1. CASE \/ Register(p) \/ IncLoad(p) \/ IncStore(p) \/ Drain(p)
                   \/ Unlock(p) \/ \E q \in Queues : NewQueue(p, q)
          BY <4>1, <1>1, <1>t DEF Register, IncLoad, IncStore, Load, Store, Drain,
                                  Unlock, NewQueue, Goto, TypeOK
        <4>2. CASE \/ NewQueueFails(p) \/ ReleaseRead(p) \/ Free(p)
                   \/ Clear(p) \/ ClearAgain(p)
          BY <4>2, <1>1, <1>t DEF NewQueueFails, ReleaseRead, Free, Clear,
                                  ClearAgain, ClearSlot, Goto, TypeOK
        <4>3. CASE \/ CreateCall(p) \/ Lock(p) \/ Check(p) \/ ScanFree(p)
                   \/ ScanUsed(p) \/ Refuse(p)
          BY <4>3, <3>1 DEF CreateCall, Lock, Check, ScanFree, ScanUsed, Refuse,
                            Goto, Holding
        <4>4. CASE \/ DecLoad(p) \/ DecStore(p) \/ TestZero(p)
                   \/ TestNonZero(p) \/ SignalDone(p)
          BY <4>4, <3>1 DEF DecLoad, DecStore, Load, Store, TestZero,
                            TestNonZero, SignalDone, Goto, Holding
        <4> QED
          BY <4>1, <4>2, <4>3, <4>4 DEF ProcessStep, CreateStep, ReleaseStep
      <3> QED
        BY <1>1, <1>t, <3>1, <3>2 DEF FreeInv
    <2> QED
      BY <2>2, <2>3
  <1>2. CASE u # p
    <2>1. /\ pc[u] \in {"new_queue", "register"}
          /\ pid'[u] = pid[u] /\ pid[u] \in Slots
          /\ message_queues[pid[u]] = NULL
      BY <1>2, <1>t, OthersStay DEF FreeInv
    <2>2. pc[u] \in Section
      BY <2>1 DEF Section
    <2>3. pc[p] \notin Section
      BY <1>2, <1>t, <2>2 DEF CreateLock
    <2>4. ~ Register(p)
      BY <2>3 DEF Register, Goto, Section
    <2> QED
      BY <1>t, <2>1, <2>4, SlotWrites
  <1> QED
    BY <1>1, <1>2

\* A release that clears a slot during a creation is noted in cleared, which
\* is emptied only when the creation ends.
LEMMA ClearedNoted ==
  ASSUME IndInv, NEW p \in Processes, ProcessStep(p),
         NEW u \in Processes, u # p, pc[u] \in Section,
         NEW s \in Slots, message_queues'[s] = NULL,
         message_queues[s] = NULL => s \in cleared
  PROVE  s \in cleared'
  <1> USE DEF Goto, tableVars, countVars, processVars
  <1>t. TypeOK /\ CreateLock
    BY DEF IndInv
  <1>1. pc[p] \notin Section /\ message_queue_create_semaphore = 0
    BY <1>t DEF CreateLock
  <1>2. CASE Clear(p) \/ ClearAgain(p)
    <2>1. cleared' = cleared \union {pid[p]}
      BY <1>1, <1>2 DEF Clear, ClearAgain, ClearSlot
    <2> QED
      BY <1>t, <1>2, <2>1, SlotWrites DEF Register, Clear, ClearAgain, ClearSlot
  <1>3. CASE CreateCall(p) \/ ReleaseRead(p) \/ Free(p)
    BY <1>3 DEF CreateCall, ReleaseRead, Free
  <1>4. CASE \/ DecLoad(p) \/ DecStore(p) \/ TestZero(p) \/ TestNonZero(p)
             \/ SignalDone(p)
    BY <1>4 DEF DecLoad, DecStore, Load, Store, TestZero, TestNonZero,
                SignalDone
  <1>5. CASE CreateStep(p)
    <2>1. CASE Lock(p)
      BY <1>1, <2>1 DEF Lock
    <2>2. CASE \/ Check(p) \/ ScanFree(p) \/ ScanUsed(p) \/ Refuse(p)
               \/ NewQueueFails(p) \/ \E q \in Queues : NewQueue(p, q)
      BY <1>1, <2>2 DEF Check, ScanFree, ScanUsed, Refuse, NewQueueFails,
                        NewQueue, Section
    <2>3. CASE Register(p) \/ IncLoad(p) \/ IncStore(p) \/ Drain(p) \/ Unlock(p)
      BY <1>1, <2>3 DEF Register, IncLoad, IncStore, Load, Store, Drain, Unlock,
                        Section
    <2> QED
      BY <1>5, <2>1, <2>2, <2>3 DEF CreateStep
  <1> QED
    BY <1>2, <1>3, <1>4, <1>5 DEF ProcessStep, ReleaseStep

\* What is said of a creation is kept by the steps of the others: they note the
\* slots they clear, and only a creation moves message_queue_pos.
LEMMA SearchOthers ==
  ASSUME IndInv, NEW p \in Processes, ProcessStep(p),
         NEW u \in Processes, u # p
  PROVE  /\ \A s \in Slots :
              Passed(u, s)' /\ message_queues'[s] = NULL => s \in cleared'
         /\ pc'[u] = "refused_free" => message_queue_pos' \in cleared'
  <1> USE DEF Goto, tableVars, countVars, processVars
  <1>t. TypeOK /\ SearchInv /\ CreateLock
    BY DEF IndInv
  <1>1. pc'[u] = pc[u] /\ scan'[u] = scan[u]
    BY <1>t, OthersStay
  <1> SUFFICES ASSUME pc[u] \in {"scan", "refused", "refused_free"}
               PROVE  /\ \A s \in Slots :
                           Passed(u, s)' /\ message_queues'[s] = NULL
                             => s \in cleared'
                      /\ pc'[u] = "refused_free" => message_queue_pos' \in cleared'
    BY <1>1 DEF Passed
  <1>2. pc[u] \in Section
    BY DEF Section
  <1>3. pc[p] \notin Section /\ message_queue_create_semaphore = 0
    BY <1>2, <1>t DEF CreateLock
  <1>4. UNCHANGED message_queue_pos /\ cleared \subseteq cleared'
    <2>1. CASE Lock(p)
      BY <1>3, <2>1 DEF Lock
    <2>2. CASE \/ Check(p) \/ ScanFree(p) \/ ScanUsed(p) \/ Refuse(p)
               \/ NewQueueFails(p) \/ \E q \in Queues : NewQueue(p, q)
      BY <1>3, <2>2 DEF Check, ScanFree, ScanUsed, Refuse, NewQueueFails,
                        NewQueue, Section
    <2>3. CASE Register(p) \/ IncLoad(p) \/ IncStore(p) \/ Drain(p) \/ Unlock(p)
      BY <1>3, <2>3 DEF Register, IncLoad, IncStore, Load, Store, Drain, Unlock,
                        Section
    <2>4. CASE \/ CreateCall(p) \/ ReleaseRead(p) \/ Free(p) \/ Clear(p)
               \/ ClearAgain(p)
      BY <2>4 DEF CreateCall, ReleaseRead, Free, Clear, ClearAgain, ClearSlot
    <2>5. CASE \/ DecLoad(p) \/ DecStore(p) \/ TestZero(p) \/ TestNonZero(p)
               \/ SignalDone(p)
      BY <2>5 DEF DecLoad, DecStore, Load, Store, TestZero, TestNonZero,
                  SignalDone
    <2> QED
      BY <2>1, <2>2, <2>3, <2>4, <2>5 DEF ProcessStep, CreateStep, ReleaseStep
  <1>5. ASSUME NEW s \in Slots, Passed(u, s)', message_queues'[s] = NULL
        PROVE  s \in cleared'
    <2>1. Passed(u, s)
      BY <1>1, <1>4, <1>5 DEF Passed
    <2>2. message_queues[s] = NULL => s \in cleared
      BY <1>t, <2>1 DEF SearchInv
    <2> QED
      BY <1>2, <1>5, <2>2, ClearedNoted
  <1> QED
    BY <1>1, <1>4, <1>5, <1>t DEF SearchInv

\* The steps of the search itself.
LEMMA SearchOwn ==
  ASSUME IndInv, NEW p \in Processes, Check(p) \/ ScanFree(p) \/ ScanUsed(p)
  PROVE  /\ \A s \in Slots :
              Passed(p, s)' /\ message_queues'[s] = NULL => s \in cleared'
         /\ pc'[p] = "refused_free" => message_queue_pos' \in cleared'
  <1> USE SizeAssumption DEF tableVars, countVars, processVars
  <1>t. /\ TypeOK /\ SearchInv
        /\ pc \in [Processes -> Points] /\ scan \in [Processes -> Slots]
        /\ message_queue_pos \in 0 .. Size
    BY DEF IndInv, TypeOK
  <1>1. UNCHANGED <<message_queues, cleared>>
    BY DEF Check, ScanFree, ScanUsed
  <1>2. CASE Check(p)
    <2>1. CASE FreeAt(message_queue_pos)
      BY <1>2, <1>t, <2>1 DEF Check, Passed
    <2>2. CASE ~ FreeAt(message_queue_pos)
      <3>1. /\ pc'[p] = "scan" /\ scan'[p] = 0
            /\ message_queue_pos' = message_queue_pos
        BY <1>2, <1>t, <2>2 DEF Check
      <3> QED
        BY <1>1, <1>t, <2>2, <3>1 DEF Passed, FreeAt, Slots
    <2> QED
      BY <2>1, <2>2
  <1>3. CASE ScanFree(p)
    <2>1. /\ pc[p] = "scan" /\ scan[p] \in Slots
          /\ message_queues[scan[p]] = NULL
      BY <1>3, <1>t DEF ScanFree, FreeAt
    <2>2. CASE scan[p] = message_queue_pos
      <3>1. pc'[p] = "refused_free" /\ message_queue_pos' = message_queue_pos
        BY <1>3, <1>t, <2>2 DEF ScanFree
      <3>2. message_queue_pos \in cleared
        BY <1>t, <2>1, <2>2 DEF SearchInv, Passed
      <3>3. ASSUME NEW s \in Slots, s <= message_queue_pos,
                   message_queues[s] = NULL
            PROVE  s \in cleared
        <4>1. s < scan[p] \/ s = message_queue_pos
          BY <2>2, <3>3, <1>t DEF Slots
        <4> QED
          BY <1>t, <2>1, <3>3, <4>1 DEF SearchInv, Passed
      <3> QED
        BY <1>1, <3>1, <3>2, <3>3 DEF Passed
    <2>3. CASE scan[p] # message_queue_pos
      <3>1. pc'[p] = "new_queue"
        BY <1>3, <1>t, <2>3 DEF ScanFree
      <3> QED
        BY <3>1 DEF Passed
    <2> QED
      BY <2>2, <2>3
  <1>4. CASE ScanUsed(p)
    <2>1. /\ pc[p] = "scan" /\ scan[p] \in Slots /\ scan[p] < Size
          /\ message_queues[scan[p]] # NULL
          /\ message_queue_pos' = message_queue_pos
      BY <1>4, <1>t DEF ScanUsed, FreeAt, Slots
    <2>2. \A s \in Slots :
            (s < scan[p] \/ s = message_queue_pos) /\ message_queues[s] = NULL
              => s \in cleared
      BY <1>t, <2>1 DEF SearchInv, Passed
    <2>3. CASE scan[p] + 1 < Size
      <3>1. pc'[p] = "scan" /\ scan'[p] = scan[p] + 1
        BY <1>4, <1>t, <2>3 DEF ScanUsed
      <3> QED
        BY <1>1, <2>1, <2>2, <3>1 DEF Passed, Slots
    <2>4. CASE ~ (scan[p] + 1 < Size)
      <3>1. pc'[p] = "refused"
        BY <1>4, <1>t, <2>4 DEF ScanUsed
      <3> QED
        BY <1>1, <2>1, <2>2, <2>4, <3>1 DEF Slots
    <2> QED
      BY <2>3, <2>4
  <1> QED
    BY <1>2, <1>3, <1>4

\* The search, and its result.
LEMMA SearchStep ==
  ASSUME IndInv, NEW p \in Processes, ProcessStep(p)
  PROVE  SearchInv'
  <1> USE DEF Goto, tableVars, countVars, processVars
  <1>t. TypeOK
    BY DEF IndInv
  <1>1. /\ \A s \in Slots :
             Passed(p, s)' /\ message_queues'[s] = NULL => s \in cleared'
        /\ pc'[p] = "refused_free" => message_queue_pos' \in cleared'
    <2>1. CASE Check(p) \/ ScanFree(p) \/ ScanUsed(p)
      BY <2>1, SearchOwn
    <2>2. CASE ~ (Check(p) \/ ScanFree(p) \/ ScanUsed(p))
      <3>1. pc'[p] \notin {"scan", "refused", "refused_free"}
        <4>1. CASE CreateCall(p) \/ Lock(p) \/ Refuse(p) \/ NewQueueFails(p)
          BY <4>1, <1>t DEF CreateCall, Lock, Refuse, NewQueueFails, TypeOK
        <4>2. CASE \/ Register(p) \/ IncLoad(p) \/ IncStore(p) \/ Drain(p)
                   \/ Unlock(p) \/ \E q \in Queues : NewQueue(p, q)
          BY <4>2, <1>t DEF Register, IncLoad, IncStore, Load, Store, Drain,
                            Unlock, NewQueue, TypeOK
        <4>3. CASE ReleaseRead(p) \/ Free(p) \/ Clear(p) \/ ClearAgain(p)
          BY <4>3, <1>t DEF ReleaseRead, Free, Clear, ClearAgain, ClearSlot,
                            TypeOK
        <4>4. CASE \/ DecLoad(p) \/ DecStore(p) \/ TestZero(p)
                   \/ TestNonZero(p) \/ SignalDone(p)
          BY <4>4, <1>t DEF DecLoad, DecStore, Load, Store, TestZero,
                            TestNonZero, SignalDone, Done, TypeOK
        <4> QED
          BY <2>2, <4>1, <4>2, <4>3, <4>4
             DEF ProcessStep, CreateStep, ReleaseStep
      <3> QED
        BY <3>1 DEF Passed
    <2> QED
      BY <2>1, <2>2
  <1>2. \A u \in Processes : u # p =>
          /\ \A s \in Slots :
               Passed(u, s)' /\ message_queues'[s] = NULL => s \in cleared'
          /\ pc'[u] = "refused_free" => message_queue_pos' \in cleared'
    BY SearchOthers
  <1> QED
    BY <1>1, <1>2 DEF SearchInv
-----------------------------------------------------------------------------
(* The invariant, and what follows from it.                                *)

\* The invariant holds at first, whatever malloc left in the table.
LEMMA IndInvInit == Init => IndInv
  <1> SUFFICES ASSUME Init PROVE IndInv
    OBVIOUS
  <1> USE SizeAssumption, PointerAssumption DEF Init
  <1>1. TypeOK
    BY DEF TypeOK, Slots, Points, ACTOR_INVALID_ID
  <1>2. \A p \in Processes : pc[p] = "idle"
    OBVIOUS
  <1>3. CreateLock /\ HoldInv /\ FreeInv /\ SearchInv
    BY <1>2 DEF CreateLock, Section, HoldInv, Holding, FreeInv, SearchInv,
                Passed
  <1> QED
    BY <1>1, <1>3 DEF IndInv

\* Every step keeps the invariant: one step for each conjunct.
LEMMA IndInvNext == IndInv /\ [Next]_vars => IndInv'
  <1> SUFFICES ASSUME IndInv, [Next]_vars PROVE IndInv'
    OBVIOUS
  <1>1. CASE \E p \in Processes : ProcessStep(p)
    BY <1>1, TypeStep, LockStep, HoldStep, FreeStep, SearchStep DEF IndInv
  <1>2. CASE WaitStep \/ UNCHANGED vars
    <2>1. UNCHANGED <<tableVars, processVars, pc, races, process_count, loaded>>
      BY <1>2 DEF WaitStep, WaitCall, WaitSuccess, WaitTimeout, vars, countVars
    <2>2. /\ process_semaphore' \in 0 .. MaxSignals
          /\ waiter' \in {"idle", "waiting"}
      BY <1>2, SizeAssumption
         DEF WaitStep, WaitCall, WaitSuccess, WaitTimeout, vars, countVars,
             IndInv, TypeOK
    <2> QED
      BY <2>1, <2>2 DEF IndInv, TypeOK, CreateLock, HoldInv, FreeInv, SearchInv,
                  Passed, tableVars, processVars
  <1> QED
    BY <1>1, <1>2 DEF Next, ProcessStep, WaitStep

\* The invariant holds throughout.
THEOREM IndInvHolds == Spec => []IndInv
  BY IndInvInit, IndInvNext, PTL DEF Spec

\* The table and all its variables are well typed; no index leaves the table.
THEOREM TypeCorrect == Spec => []TypeOK
  <1>1. IndInv => TypeOK
    BY DEF IndInv
  <1> QED
    BY IndInvHolds, <1>1, PTL

\* Creations exclude each other, and no way out of one keeps the create lock.
THEOREM CreateLockHolds == Spec => []CreateLock
  <1>1. IndInv => CreateLock
    BY DEF IndInv
  <1> QED
    BY IndInvHolds, <1>1, PTL

\* A creation is refused only for slots it has seen in use; if it ends at a free
\* slot, a release has cleared that one during the call.
THEOREM RefusalsJustified == Spec => []RefusalJustified
  <1>1. IndInv => RefusalJustified
    BY DEF IndInv, SearchInv, Passed, RefusalJustified, Looked
  <1> QED
    BY IndInvHolds, <1>1, PTL

\* A registration never overwrites a registered queue.
THEOREM RegistersOnlyFree == Spec => RegisterOnlyFree
  <1>1. IndInv /\ [Next]_vars =>
          [\A s \in Slots :
             message_queues'[s] # message_queues[s] /\ message_queues'[s] # NULL
               => message_queues[s] = NULL]_vars
    <2> SUFFICES ASSUME IndInv, Next, NEW s \in Slots,
                        message_queues'[s] # message_queues[s],
                        message_queues'[s] # NULL
                 PROVE  message_queues[s] = NULL
      OBVIOUS
    <2>1. CASE \E p \in Processes : ProcessStep(p)
      <3>1. PICK p \in Processes : ProcessStep(p)
        BY <2>1
      <3>2. Register(p) /\ s = pid[p]
        BY <3>1, SlotWrites DEF IndInv
      <3> QED
        BY <3>2 DEF Register, Goto, IndInv, FreeInv
    <2>2. CASE WaitStep
      BY <2>2 DEF WaitStep, WaitCall, WaitSuccess, WaitTimeout, tableVars
    <2> QED
      BY <2>1, <2>2 DEF Next, ProcessStep, WaitStep
  <1> QED
    BY IndInvHolds, <1>1, PTL DEF Spec, RegisterOnlyFree
-----------------------------------------------------------------------------
(***************************************************************************)
(* Who owns a slot.  As long as no slot is reused too early, the processes *)
(* from the choice of a slot to its first clear have different pids, and   *)
(* from the registration to the release the queue is in the slot.          *)
(***************************************************************************)

InTable == {"inc_load", "inc_store", "drain", "unlock", "created", "free"}
HasQueue == InTable \union {"register"}
Owning == HasQueue \union {"new_queue", "clear"}

PidsDiffer ==
  \A p, u \in Processes :
    pc[p] \in Owning /\ pc[u] \in Owning /\ pid[p] = pid[u] => p = u

QueueInSlot ==
  \A p \in Processes :
    /\ pc[p] \in InTable => message_queues[pid[p]] = message_queue[p]
    /\ pc[p] = "clear" => message_queues[pid[p]] # NULL

QueuesDiffer ==
  \A p, u \in Processes :
    /\ pc[p] \in HasQueue => message_queue[p] \in queues
    /\ pc[p] \in HasQueue /\ pc[u] \in HasQueue
         /\ message_queue[p] = message_queue[u] => p = u

FoundOwn ==
  \A p \in Processes : pc[p] = "free" => found[p] = message_queue[p]

\* Nobody has registered in a slot that is going to be cleared once more.
NotReused ==
  \A p, u \in Processes :
    pc[p] = "clear_again" /\ pc[u] \in InTable \union {"clear"}
      => pid[p] # pid[u]

OwnInv == PidsDiffer /\ QueueInSlot /\ QueuesDiffer /\ FoundOwn /\ NotReused

TableInv == "reused" \notin races => OwnInv

\* The races are recorded for ever.
LEMMA RacesStay ==
  ASSUME NEW p \in Processes, ProcessStep(p)
  PROVE  races \subseteq races'
  <1> USE DEF Goto
  <1>1. CASE Register(p)
    BY <1>1 DEF Register
  <1>2. CASE IncStore(p) \/ DecStore(p) \/ SignalDone(p)
    BY <1>2 DEF IncStore, DecStore, Store, SignalDone
  <1>3. CASE \/ CreateCall(p) \/ Lock(p) \/ Check(p) \/ ScanFree(p)
             \/ ScanUsed(p) \/ Refuse(p) \/ NewQueueFails(p)
             \/ \E q \in Queues : NewQueue(p, q)
    BY <1>3 DEF CreateCall, Lock, Check, ScanFree, ScanUsed, Refuse,
                NewQueueFails, NewQueue
  <1>4. CASE \/ IncLoad(p) \/ Drain(p) \/ Unlock(p) \/ ReleaseRead(p)
             \/ Free(p) \/ Clear(p) \/ ClearAgain(p) \/ DecLoad(p)
             \/ TestZero(p) \/ TestNonZero(p)
    BY <1>4 DEF IncLoad, DecLoad, Load, Drain, Unlock, ReleaseRead, Free,
                Clear, ClearAgain, ClearSlot, TestZero, TestNonZero
  <1> QED
    BY <1>1, <1>2, <1>3, <1>4 DEF ProcessStep, CreateStep, ReleaseStep

\* The others keep what they own when a step writes neither to their slots nor
\* to the queues, and the process is not an owner afterwards.
LEMMA LeaveOwn ==
  ASSUME IndInv, OwnInv, NEW p \in Processes, ProcessStep(p),
         pc'[p] \notin Owning \union {"clear_again"},
         UNCHANGED queues,
         \A u \in Processes :
           u # p /\ pc[u] \in InTable \union {"clear"}
             => message_queues'[pid[u]] = message_queues[pid[u]]
  PROVE  OwnInv'
  <1>1. \A u \in Processes :
          u # p => /\ pc'[u] = pc[u] /\ pid'[u] = pid[u]
                   /\ message_queue'[u] = message_queue[u]
                   /\ found'[u] = found[u]
    BY OthersStay DEF IndInv
  <1>2. PidsDiffer'
    BY <1>1 DEF OwnInv, PidsDiffer
  <1>3. QueueInSlot'
    BY <1>1 DEF OwnInv, QueueInSlot, Owning, HasQueue
  <1>4. QueuesDiffer'
    BY <1>1 DEF OwnInv, QueuesDiffer, Owning
  <1>5. FoundOwn' /\ NotReused'
    BY <1>1 DEF OwnInv, FoundOwn, NotReused, Owning, HasQueue, InTable
  <1> QED
    BY <1>2, <1>3, <1>4, <1>5 DEF OwnInv

\* A process that stays an owner and writes nothing others see.
LEMMA StayOwn ==
  ASSUME IndInv, OwnInv, NEW p \in Processes, ProcessStep(p),
         pc[p] \in InTable, pc'[p] \in InTable,
         pc'[p] = "free" => found'[p] = message_queue[p],
         UNCHANGED <<message_queues, queues, pid, message_queue>>
  PROVE  OwnInv'
  <1>1. \A u \in Processes : u # p => pc'[u] = pc[u] /\ found'[u] = found[u]
    BY OthersStay DEF IndInv
  <1>2. PidsDiffer'
    BY <1>1 DEF OwnInv, PidsDiffer, Owning, HasQueue
  <1>3. QueueInSlot'
    BY <1>1 DEF OwnInv, QueueInSlot, InTable
  <1>4. QueuesDiffer'
    BY <1>1 DEF OwnInv, QueuesDiffer, HasQueue
  <1>5. FoundOwn' /\ NotReused'
    BY <1>1 DEF OwnInv, FoundOwn, NotReused, InTable
  <1> QED
    BY <1>2, <1>3, <1>4, <1>5 DEF OwnInv

\* A creation that has found a free slot owns it.
LEMMA TakeOwn ==
  ASSUME IndInv, OwnInv, NEW p \in Processes, Check(p) \/ ScanFree(p)
  PROVE  OwnInv'
  <1> USE DEF Goto, tableVars, countVars, processVars
  <1>0. ProcessStep(p)
    BY DEF ProcessStep, CreateStep
  <1>t. /\ TypeOK
        /\ pc[p] \in Section
        /\ UNCHANGED <<message_queues, queues, message_queue>>
        /\ pc'[p] \in {"new_queue", "scan", "refused_free"}
    BY DEF IndInv, TypeOK, Check, ScanFree, Section
  <1>1. CASE pc'[p] # "new_queue"
    BY <1>0, <1>1, <1>t, LeaveOwn DEF Owning, HasQueue, InTable
  <1>2. CASE pc'[p] = "new_queue"
    <2>1. message_queues[pid'[p]] = NULL
      <3>1. pc[p] \notin Holding
        BY DEF Check, ScanFree, Holding
      <3> QED
        BY <1>0, <1>2, <3>1, HoldEnter DEF Holding
    <2>2. \A u \in Processes :
            u # p => /\ pc'[u] = pc[u] /\ pid'[u] = pid[u]
                     /\ found'[u] = found[u]
      BY <1>0, <1>t, OthersStay
    <2>3. \A u \in Processes : u # p => pc[u] \notin {"new_queue", "register"}
      BY <1>t DEF IndInv, CreateLock, Section
    <2>4. \A u \in Processes :
            u # p /\ pc[u] \in Owning => pid[u] # pid'[p]
      <3> SUFFICES ASSUME NEW u \in Processes, u # p, pc[u] \in Owning
                   PROVE  message_queues[pid[u]] # NULL
        BY <2>1
      <3>1. CASE pc[u] \in InTable
        BY <3>1, <1>t, PointerAssumption
           DEF OwnInv, QueueInSlot, QueuesDiffer, HasQueue, TypeOK
      <3>2. CASE pc[u] = "clear"
        BY <3>2 DEF OwnInv, QueueInSlot
      <3> QED
        BY <3>1, <3>2, <2>3 DEF Owning, HasQueue
    <2>5. PidsDiffer'
      BY <2>2, <2>4 DEF OwnInv, PidsDiffer
    <2>6. QueueInSlot' /\ QueuesDiffer'
      BY <1>2, <1>t, <2>2 DEF OwnInv, QueueInSlot, QueuesDiffer, HasQueue, InTable
    <2>7. FoundOwn' /\ NotReused'
      BY <1>2, <1>t, <2>2 DEF OwnInv, FoundOwn, NotReused, InTable
    <2> QED
      BY <2>5, <2>6, <2>7 DEF OwnInv
  <1> QED
    BY <1>1, <1>2

\* A new queue is nobody else's, and is registered in a slot of its own.
LEMMA RegisterOwn ==
  ASSUME IndInv, OwnInv, NEW p \in Processes,
         (\E q \in Queues : NewQueue(p, q)) \/ Register(p),
         "reused" \notin races'
  PROVE  OwnInv'
  <1> USE DEF Goto, tableVars, countVars, processVars
  <1>0. ProcessStep(p)
    BY DEF ProcessStep, CreateStep
  <1>t. TypeOK
    BY DEF IndInv
  <1>s. \A u \in Processes :
          u # p => /\ pc'[u] = pc[u] /\ pid'[u] = pid[u]
                   /\ message_queue'[u] = message_queue[u]
                   /\ found'[u] = found[u]
    BY <1>0, <1>t, OthersStay
  <1>1. CASE \E q \in Queues : NewQueue(p, q)
    <2>1. PICK q \in Queues : NewQueue(p, q)
      BY <1>1
    <2>2. /\ pc[p] = "new_queue" /\ pc'[p] = "register" /\ q \notin queues
          /\ queues' = queues \union {q} /\ message_queue'[p] = q
          /\ UNCHANGED <<message_queues, pid>>
      BY <2>1, <1>t DEF NewQueue, TypeOK
    <2>3. PidsDiffer'
      BY <1>s, <2>2 DEF OwnInv, PidsDiffer, Owning, HasQueue
    <2>4. QueueInSlot'
      BY <1>s, <2>2 DEF OwnInv, QueueInSlot, InTable
    <2>5. QueuesDiffer'
      BY <1>s, <2>2 DEF OwnInv, QueuesDiffer
    <2>6. FoundOwn' /\ NotReused'
      BY <1>s, <2>2 DEF OwnInv, FoundOwn, NotReused, InTable
    <2> QED
      BY <2>3, <2>4, <2>5, <2>6 DEF OwnInv
  <1>2. CASE Register(p)
    <2>1. /\ pc[p] = "register" /\ pc'[p] = "inc_load"
          /\ UNCHANGED <<queues, pid, message_queue, found>>
          /\ message_queues' = [message_queues EXCEPT ![pid[p]] = message_queue[p]]
          /\ pid[p] \in Slots
      BY <1>2, <1>t DEF Register, TypeOK, IndInv, FreeInv
    <2>2. ~ \E u \in Processes : pc[u] = "clear_again" /\ pid[u] = pid[p]
      BY <1>2 DEF Register
    <2>3. \A u \in Processes :
            u # p /\ pc[u] \in Owning => pid[u] # pid[p]
      BY <2>1 DEF OwnInv, PidsDiffer, Owning, HasQueue
    <2>4. \A u \in Processes :
            u # p /\ pc[u] \in Owning
              => message_queues'[pid[u]] = message_queues[pid[u]]
      BY <2>1, <2>3, <1>t DEF TypeOK
    <2>5. message_queues'[pid[p]] = message_queue[p]
      BY <2>1, <1>t DEF TypeOK
    <2>6. PidsDiffer'
      BY <1>s, <2>1 DEF OwnInv, PidsDiffer, Owning, HasQueue
    <2>7. QueueInSlot'
      BY <1>s, <2>1, <2>4, <2>5 DEF OwnInv, QueueInSlot, Owning, HasQueue
    <2>8. QueuesDiffer'
      BY <1>s, <2>1 DEF OwnInv, QueuesDiffer, HasQueue
    <2>9. FoundOwn' /\ NotReused'
      BY <1>s, <2>1, <2>2 DEF OwnInv, FoundOwn, NotReused, InTable
    <2> QED
      BY <2>6, <2>7, <2>8, <2>9 DEF OwnInv
  <1> QED
    BY <1>1, <1>2

\* A release frees the queue of the process and clears its slot, no other.
LEMMA ReleaseOwn ==
  ASSUME IndInv, OwnInv, NEW p \in Processes,
         ReleaseRead(p) \/ Free(p) \/ Clear(p) \/ ClearAgain(p)
  PROVE  OwnInv'
  <1> USE DEF Goto, tableVars, countVars, processVars
  <1>0. ProcessStep(p)
    BY DEF ProcessStep, ReleaseStep
  <1>t. TypeOK
    BY DEF IndInv
  <1>s. \A u \in Processes :
          u # p => /\ pc'[u] = pc[u] /\ pid'[u] = pid[u]
                   /\ message_queue'[u] = message_queue[u]
                   /\ found'[u] = found[u]
    BY <1>0, <1>t, OthersStay
  <1>1. CASE ReleaseRead(p)
    <2>1. /\ pc[p] = "created"
          /\ UNCHANGED <<message_queues, queues, pid, message_queue>>
          /\ found'[p] = message_queues[pid[p]]
          /\ pc'[p] = IF found'[p] = NULL THEN "clear_again" ELSE "free"
      BY <1>1, <1>t DEF ReleaseRead, TypeOK
    <2>2. found'[p] = message_queue[p] /\ message_queue[p] \in queues
      BY <2>1 DEF OwnInv, QueueInSlot, QueuesDiffer, HasQueue, InTable
    <2>3. pc'[p] = "free"
      BY <2>1, <2>2, <1>t, PointerAssumption DEF TypeOK
    <2> QED
      BY <1>0, <2>1, <2>2, <2>3, StayOwn DEF InTable
  <1>2. CASE Free(p)
    <2>1. /\ pc[p] = "free" /\ pc'[p] = "clear"
          /\ queues' = queues \ {found[p]}
          /\ UNCHANGED <<message_queues, pid, message_queue>>
      BY <1>2, <1>t DEF Free, TypeOK
    <2>2. /\ found[p] = message_queue[p]
          /\ message_queues[pid[p]] = message_queue[p]
          /\ message_queue[p] # NULL
      BY <2>1, <1>t, PointerAssumption
         DEF OwnInv, FoundOwn, QueueInSlot, QueuesDiffer, HasQueue, InTable, TypeOK
    <2>3. PidsDiffer'
      BY <1>s, <2>1 DEF OwnInv, PidsDiffer, Owning, HasQueue, InTable
    <2>4. QueueInSlot'
      BY <1>s, <2>1, <2>2 DEF OwnInv, QueueInSlot, InTable
    <2>5. QueuesDiffer'
      BY <1>s, <2>1, <2>2 DEF OwnInv, QueuesDiffer, HasQueue, InTable
    <2>6. FoundOwn' /\ NotReused'
      BY <1>s, <2>1 DEF OwnInv, FoundOwn, NotReused, InTable
    <2> QED
      BY <2>3, <2>4, <2>5, <2>6 DEF OwnInv
  <1>3. CASE Clear(p)
    <2>1. /\ pc[p] = "clear" /\ pc'[p] = "clear_again"
          /\ UNCHANGED <<queues, pid, message_queue>>
          /\ message_queues' = [message_queues EXCEPT ![pid[p]] = NULL]
      BY <1>3, <1>t DEF Clear, ClearSlot, TypeOK
    <2>2. \A u \in Processes :
            u # p /\ pc[u] \in Owning => pid[u] # pid[p]
      BY <2>1 DEF OwnInv, PidsDiffer, Owning
    <2>3. \A u \in Processes :
            u # p /\ pc[u] \in Owning
              => message_queues'[pid[u]] = message_queues[pid[u]]
      BY <2>1, <2>2, <1>t DEF TypeOK
    <2>4. PidsDiffer'
      BY <1>s, <2>1 DEF OwnInv, PidsDiffer, Owning, HasQueue, InTable
    <2>5. QueueInSlot'
      BY <1>s, <2>1, <2>3 DEF OwnInv, QueueInSlot, Owning, HasQueue, InTable
    <2>6. QueuesDiffer'
      BY <1>s, <2>1 DEF OwnInv, QueuesDiffer, HasQueue, InTable
    <2>7. FoundOwn'
      BY <1>s, <2>1 DEF OwnInv, FoundOwn
    <2>8. NotReused'
      BY <1>s, <2>1, <2>2 DEF OwnInv, NotReused, Owning, HasQueue, InTable
    <2> QED
      BY <2>4, <2>5, <2>6, <2>7, <2>8 DEF OwnInv
  <1>4. CASE ClearAgain(p)
    <2>1. /\ pc[p] = "clear_again" /\ pc'[p] = "dec_load"
          /\ UNCHANGED queues
          /\ message_queues' = [message_queues EXCEPT ![pid[p]] = NULL]
      BY <1>4, <1>t DEF ClearAgain, ClearSlot, TypeOK
    <2>2. \A u \in Processes :
            u # p /\ pc[u] \in InTable \union {"clear"}
              => message_queues'[pid[u]] = message_queues[pid[u]]
      BY <2>1, <1>t DEF OwnInv, NotReused, TypeOK
    <2> QED
      BY <1>0, <2>1, <2>2, LeaveOwn DEF Owning, HasQueue, InTable
  <1> QED
    BY <1>1, <1>2, <1>3, <1>4

\* Every step keeps what the processes own.
LEMMA TableStep ==
  ASSUME IndInv, TableInv, NEW p \in Processes, ProcessStep(p)
  PROVE  TableInv'
  <1> USE DEF Goto, tableVars, countVars, processVars
  <1> SUFFICES ASSUME "reused" \notin races' PROVE OwnInv'
    BY DEF TableInv
  <1>t. TypeOK
    BY DEF IndInv
  <1>1. OwnInv
    <2>1. races \subseteq races'
      BY RacesStay
    <2> QED
      BY <2>1 DEF TableInv
  <1>2. CASE Check(p) \/ ScanFree(p)
    BY <1>1, <1>2, TakeOwn
  <1>3. CASE (\E q \in Queues : NewQueue(p, q)) \/ Register(p)
    BY <1>1, <1>3, RegisterOwn
  <1>4. CASE ReleaseRead(p) \/ Free(p) \/ Clear(p) \/ ClearAgain(p)
    BY <1>1, <1>4, ReleaseOwn
  <1>5. CASE IncLoad(p) \/ IncStore(p) \/ Drain(p) \/ Unlock(p)
    <2>1. /\ pc[p] \in InTable /\ pc'[p] \in InTable /\ pc'[p] # "free"
          /\ UNCHANGED <<message_queues, queues, pid, message_queue>>
      BY <1>5, <1>t DEF IncLoad, IncStore, Load, Store, Drain, Unlock, InTable,
                        TypeOK
    <2> QED
      BY <1>1, <2>1, StayOwn
  <1>6. CASE \/ CreateCall(p) \/ Lock(p) \/ ScanUsed(p) \/ Refuse(p)
             \/ NewQueueFails(p)
    <2>1. /\ pc'[p] \notin Owning \union {"clear_again"}
          /\ UNCHANGED <<message_queues, queues>>
      BY <1>6, <1>t DEF CreateCall, Lock, ScanUsed, Refuse, NewQueueFails,
                        Owning, HasQueue, InTable, TypeOK
    <2> QED
      BY <1>1, <2>1, LeaveOwn
  <1>7. CASE \/ DecLoad(p) \/ DecStore(p) \/ TestZero(p) \/ TestNonZero(p)
             \/ SignalDone(p)
    <2>1. /\ pc'[p] \notin Owning \union {"clear_again"}
          /\ UNCHANGED <<message_queues, queues>>
      BY <1>7, <1>t DEF DecLoad, DecStore, Load, Store, TestZero, TestNonZero,
                        SignalDone, Done, Owning, HasQueue, InTable, TypeOK
    <2> QED
      BY <1>1, <2>1, LeaveOwn
  <1> QED
    BY <1>2, <1>3, <1>4, <1>5, <1>6, <1>7
       DEF ProcessStep, CreateStep, ReleaseStep

\* As long as no slot is reused between its two clears, every process owns the
\* slot of its pid and the queue in it.
THEOREM TableStaysIntact == Spec => []TableIntact
  <1>1. Init => TableInv
    BY DEF Init, TableInv, OwnInv, PidsDiffer, QueueInSlot, QueuesDiffer,
           FoundOwn, NotReused, Owning, HasQueue, InTable
  <1>2. IndInv /\ TableInv /\ [Next]_vars => TableInv'
    <2> SUFFICES ASSUME IndInv, TableInv, [Next]_vars PROVE TableInv'
      OBVIOUS
    <2>1. CASE \E p \in Processes : ProcessStep(p)
      BY <2>1, TableStep
    <2>2. CASE WaitStep \/ UNCHANGED vars
      <3>1. UNCHANGED <<message_queues, queues, pid, message_queue, found, pc,
                        races>>
        BY <2>2 DEF WaitStep, WaitCall, WaitSuccess, WaitTimeout, vars,
                    tableVars, processVars
      <3> QED
        BY <3>1 DEF TableInv, OwnInv, PidsDiffer, QueueInSlot, QueuesDiffer,
                    FoundOwn, NotReused
    <2> QED
      BY <2>1, <2>2 DEF Next, ProcessStep, WaitStep
  <1>3. TableInv => TableIntact
    BY DEF TableInv, TableIntact, OwnInv, PidsDiffer, QueueInSlot, QueuesDiffer,
           Registered, Owning, HasQueue, InTable
  <1> QED
    BY IndInvHolds, <1>1, <1>2, <1>3, PTL DEF Spec
-----------------------------------------------------------------------------
(***************************************************************************)
(* The counter and the signal.                                             *)
(***************************************************************************)

CountPoints == {"drain", "unlock", "created", "free", "clear", "clear_again",
                "dec_load", "dec_store"}

\* As long as nothing went wrong with the counter, a signal is there only when
\* every process counted is about to drain it, and there is only one.
SignalInv ==
  races \intersect {"lost", "late"} = {} =>
    /\ process_semaphore \in {0, 1}
    /\ process_semaphore = 1 => \A p \in Counted : pc[p] = "drain"

CountInv == CountAgrees /\ SignalInv

\* The processes counted are finite in number, and few enough for the counter.
LEMMA CountedBound ==
  ASSUME Cardinality(Processes) < CountModulus
  PROVE  /\ IsFiniteSet(Counted)
         /\ Cardinality(Counted) \in Nat
         /\ Cardinality(Counted) < CountModulus
         /\ \A p \in Processes : p \notin Counted
              => Cardinality(Counted) + 1 < CountModulus
  <1>1. /\ IsFiniteSet(Counted) /\ Counted \subseteq Processes
        /\ Cardinality(Counted) <= Cardinality(Processes)
    BY ProcessesAssumption, FS_Subset DEF Counted
  <1>2. Cardinality(Counted) \in Nat /\ Cardinality(Processes) \in Nat
    BY <1>1, ProcessesAssumption, FS_CardinalityType
  <1>3. ASSUME NEW p \in Processes, p \notin Counted
        PROVE  Cardinality(Counted) + 1 < CountModulus
    <2>1. Counted \union {p} \subseteq Processes
      BY <1>1, <1>3
    <2>2. Cardinality(Counted \union {p}) <= Cardinality(Processes)
      BY <2>1, ProcessesAssumption, FS_Subset
    <2>3. Cardinality(Counted \union {p}) = Cardinality(Counted) + 1
      BY <1>1, <1>3, CardinalityStep
    <2> QED
      BY <1>2, <2>2, <2>3, SizeAssumption
  <1> QED
    BY <1>1, <1>2, <1>3, SizeAssumption

\* The steps that store the counter.
LEMMA StoreCount ==
  ASSUME Cardinality(Processes) < CountModulus,
         IndInv, CountInv, NEW p \in Processes, IncStore(p) \/ DecStore(p)
  PROVE  CountInv'
  <1> USE DEF Goto, tableVars, countVars, processVars
  <1>t. TypeOK
    BY DEF IndInv
  <1>0. ProcessStep(p) /\ races \subseteq races'
    BY RacesStay DEF ProcessStep, CreateStep, ReleaseStep
  <1>s. /\ \A u \in Processes : u # p => pc'[u] = pc[u]
        /\ UNCHANGED process_semaphore
        /\ "lost" \notin races' => loaded[p] = process_count
    BY <1>0, <1>t, OthersStay DEF IncStore, DecStore, Store
  <1>c. /\ IsFiniteSet(Counted) /\ Cardinality(Counted) \in Nat
        /\ Cardinality(Counted) < CountModulus
        /\ p \notin Counted => Cardinality(Counted) + 1 < CountModulus
    BY CountedBound
  <1>a. "lost" \notin races' => process_count = Cardinality(Counted)
    BY <1>0 DEF CountInv, CountAgrees
  <1>1. CASE IncStore(p)
    <2>1. /\ pc[p] = "inc_store" /\ pc'[p] = "drain"
          /\ process_count' = (loaded[p] + 1) % CountModulus
      BY <1>1, <1>t DEF IncStore, Store, TypeOK
    <2>2. p \notin Counted /\ Counted' = Counted \union {p}
      BY <1>s, <2>1 DEF Counted
    <2>3. Cardinality(Counted') = Cardinality(Counted) + 1
      BY <1>c, <2>2, CardinalityStep
    <2>4. \A n \in Nat : n + 1 < CountModulus => (n + 1) % CountModulus = n + 1
      BY SizeAssumption
    <2>5. CountAgrees'
      <3> SUFFICES ASSUME "lost" \notin races'
                   PROVE  process_count' = Cardinality(Counted')
        BY DEF CountAgrees
      <3>1. loaded[p] = Cardinality(Counted)
        BY <1>s, <1>a
      <3> HIDE DEF Counted
      <3> QED
        BY <1>c, <2>1, <2>2, <2>3, <2>4, <3>1
    <2>6. SignalInv'
      <3> SUFFICES ASSUME races' \intersect {"lost", "late"} = {}
                   PROVE  /\ process_semaphore' \in {0, 1}
                          /\ process_semaphore' = 1
                               => \A u \in Counted' : pc'[u] = "drain"
        BY DEF SignalInv
      <3>1. races \intersect {"lost", "late"} = {}
        BY <1>0
      <3>2. \A u \in Counted : u \in Processes /\ u # p
        BY <2>2 DEF Counted
      <3> HIDE DEF Counted
      <3>3. /\ process_semaphore \in {0, 1}
            /\ process_semaphore = 1 => \A u \in Counted : pc[u] = "drain"
        BY <3>1 DEF CountInv, SignalInv
      <3> QED
        BY <1>s, <2>1, <2>2, <3>2, <3>3
    <2> QED
      BY <2>5, <2>6 DEF CountInv
  <1>2. CASE DecStore(p)
    <2>1. /\ pc[p] = "dec_store" /\ pc'[p] = "test"
          /\ process_count' = (loaded[p] - 1) % CountModulus
      BY <1>2, <1>t DEF DecStore, Store, TypeOK
    <2>2. p \in Counted /\ Counted' = Counted \ {p}
      BY <1>s, <2>1 DEF Counted
    <2>3. Cardinality(Counted') = Cardinality(Counted) - 1
          /\ Cardinality(Counted) > 0
      BY <1>c, <2>2, CardinalityStep
    <2>4. \A n \in Nat : n < CountModulus => n % CountModulus = n
      BY SizeAssumption
    <2>5. CountAgrees'
      <3> SUFFICES ASSUME "lost" \notin races'
                   PROVE  process_count' = Cardinality(Counted')
        BY DEF CountAgrees
      <3>1. loaded[p] = Cardinality(Counted)
        BY <1>s, <1>a
      <3> HIDE DEF Counted
      <3>2. /\ Cardinality(Counted) - 1 \in Nat
            /\ Cardinality(Counted) - 1 < CountModulus
        BY <1>c, <2>3, SizeAssumption
      <3> QED
        BY <2>1, <2>3, <2>4, <3>1, <3>2
    <2>6. SignalInv'
      BY <1>0, <1>s, <2>1, <2>2 DEF CountInv, SignalInv
    <2> QED
      BY <2>5, <2>6 DEF CountInv
  <1> QED
    BY <1>1, <1>2

\* The signal is given when nobody is left, and taken by the next creation.
LEMMA SignalCount ==
  ASSUME Cardinality(Processes) < CountModulus,
         IndInv, CountInv, NEW p \in Processes, SignalDone(p) \/ Drain(p)
  PROVE  CountInv'
  <1> USE DEF Goto, tableVars, countVars, processVars
  <1>t. TypeOK
    BY DEF IndInv
  <1>0. ProcessStep(p) /\ races \subseteq races'
    BY RacesStay DEF ProcessStep, CreateStep, ReleaseStep
  <1>s. /\ \A u \in Processes : u # p => pc'[u] = pc[u]
        /\ UNCHANGED process_count
        /\ p \in Counted' <=> p \in Counted
    BY <1>0, <1>t, OthersStay DEF SignalDone, Done, Drain, Counted, TypeOK
  <1>c. Counted' = Counted
    BY <1>s DEF Counted
  <1>1. CountAgrees'
    BY <1>0, <1>s, <1>c DEF CountInv, CountAgrees
  <1>2. CASE SignalDone(p)
    <2> SUFFICES ASSUME races' \intersect {"lost", "late"} = {}
                 PROVE  process_semaphore' = 1 /\ Counted' = {}
      BY <1>1 DEF CountInv, SignalInv
    <2>1. process_count = 0 /\ process_semaphore = 0
      BY <1>2 DEF SignalDone
    <2>2. Cardinality(Counted) = 0 /\ IsFiniteSet(Counted)
      BY <1>0, <2>1, CountedBound DEF CountInv, CountAgrees
    <2> QED
      BY <1>2, <1>c, <2>1, <2>2, FS_EmptySet DEF SignalDone
  <1>3. CASE Drain(p)
    <2> SUFFICES ASSUME races' \intersect {"lost", "late"} = {}
                 PROVE  process_semaphore' = 0
      BY <1>1 DEF CountInv, SignalInv
    <2>1. process_semaphore \in {0, 1}
      BY <1>0 DEF CountInv, SignalInv
    <2> QED
      BY <1>3, <2>1 DEF Drain
  <1> QED
    BY <1>2, <1>3

\* All other steps leave the counter, the signal and the processes counted.
LEMMA CountStay ==
  ASSUME IndInv, CountInv, NEW p \in Processes, ProcessStep(p),
         UNCHANGED <<process_count, process_semaphore>>,
         pc'[p] \in CountPoints <=> pc[p] \in CountPoints,
         pc[p] # "drain"
  PROVE  CountInv'
  <1>t. TypeOK
    BY DEF IndInv
  <1>1. \A u \in Processes : u # p => pc'[u] = pc[u]
    BY <1>t, OthersStay
  <1>2. Counted' = Counted
    BY <1>1 DEF Counted, CountPoints
  <1>3. races \subseteq races'
    BY RacesStay
  <1>4. p \in Counted => pc[p] # "drain"
    OBVIOUS
  <1>5. CountAgrees'
    BY <1>2, <1>3 DEF CountInv, CountAgrees
  <1>6. SignalInv'
    <2> SUFFICES ASSUME races' \intersect {"lost", "late"} = {}
                 PROVE  /\ process_semaphore' \in {0, 1}
                        /\ process_semaphore' = 1
                             => \A u \in Counted' : pc'[u] = "drain"
      BY DEF SignalInv
    <2>1. races \intersect {"lost", "late"} = {}
      BY <1>3
    <2>2. /\ process_semaphore \in {0, 1}
          /\ process_semaphore = 1 => \A u \in Counted : pc[u] = "drain"
      BY <2>1 DEF CountInv, SignalInv
    <2>3. Counted \subseteq Processes
      BY DEF Counted
    <2> HIDE DEF Counted
    <2> QED
      BY <1>1, <1>2, <1>4, <2>2, <2>3
  <1> QED
    BY <1>5, <1>6 DEF CountInv

\* Every step of a process keeps the counter and the signal right.
LEMMA CountStep ==
  ASSUME Cardinality(Processes) < CountModulus,
         IndInv, CountInv, NEW p \in Processes, ProcessStep(p)
  PROVE  CountInv'
  <1> USE DEF Goto, tableVars, countVars, processVars, CountPoints
  <1>t. TypeOK
    BY DEF IndInv
  <1>1. CASE IncStore(p) \/ DecStore(p)
    BY <1>1, StoreCount
  <1>2. CASE SignalDone(p) \/ Drain(p)
    BY <1>2, SignalCount
  <1>3. CASE \/ CreateCall(p) \/ Lock(p) \/ Check(p) \/ ScanFree(p)
             \/ ScanUsed(p) \/ Refuse(p) \/ NewQueueFails(p)
             \/ \E q \in Queues : NewQueue(p, q)
    <2>1. /\ pc[p] \notin CountPoints /\ pc'[p] \notin CountPoints
          /\ UNCHANGED <<process_count, process_semaphore>>
      BY <1>3, <1>t DEF CreateCall, Lock, Check, ScanFree, ScanUsed, Refuse,
                        NewQueueFails, NewQueue, TypeOK
    <2> QED
      BY <2>1, CountStay
  <1>4. CASE Register(p) \/ IncLoad(p) \/ TestZero(p) \/ TestNonZero(p)
    <2>1. /\ pc[p] \notin CountPoints /\ pc'[p] \notin CountPoints
          /\ UNCHANGED <<process_count, process_semaphore>>
      BY <1>4, <1>t DEF Register, IncLoad, Load, TestZero, TestNonZero, Done,
                        TypeOK
    <2> QED
      BY <2>1, CountStay
  <1>5. CASE \/ Unlock(p) \/ ReleaseRead(p) \/ Free(p) \/ Clear(p)
             \/ ClearAgain(p) \/ DecLoad(p)
    <2>1. /\ pc[p] \in CountPoints /\ pc'[p] \in CountPoints
          /\ pc[p] # "drain"
          /\ UNCHANGED <<process_count, process_semaphore>>
      BY <1>5, <1>t DEF Unlock, ReleaseRead, Free, Clear, ClearAgain, ClearSlot,
                        DecLoad, Load, TypeOK
    <2> QED
      BY <2>1, CountStay
  <1> QED
    BY <1>1, <1>2, <1>3, <1>4, <1>5 DEF ProcessStep, CreateStep, ReleaseStep

\* The counter and the signal are right throughout.
LEMMA CountInvHolds ==
  ASSUME Cardinality(Processes) < CountModulus
  PROVE  Spec => []CountInv
  <1>1. Init => CountInv
    <2> SUFFICES ASSUME Init PROVE CountInv
      OBVIOUS
    <2>1. Counted = {} /\ process_count = 0 /\ process_semaphore = 0
      BY DEF Init, Counted
    <2>2. Cardinality({}) = 0
      BY FS_EmptySet
    <2> QED
      BY <2>1, <2>2 DEF CountInv, CountAgrees, SignalInv
  <1>2. IndInv /\ CountInv /\ [Next]_vars => CountInv'
    <2> SUFFICES ASSUME IndInv, CountInv, [Next]_vars PROVE CountInv'
      OBVIOUS
    <2>1. CASE \E p \in Processes : ProcessStep(p)
      BY <2>1, CountStep
    <2>2. CASE WaitSuccess
      <3>1. /\ UNCHANGED <<pc, races, process_count>>
            /\ process_semaphore > 0
            /\ process_semaphore' = process_semaphore - 1
        BY <2>2 DEF WaitSuccess
      <3>2. Counted' = Counted
        BY <3>1 DEF Counted
      <3> QED
        BY <3>1, <3>2 DEF CountInv, CountAgrees, SignalInv
    <2>3. CASE WaitCall \/ WaitTimeout \/ UNCHANGED vars
      <3>1. UNCHANGED <<pc, races, process_count, process_semaphore>>
        BY <2>3 DEF WaitCall, WaitTimeout, vars, countVars
      <3> QED
        BY <3>1 DEF CountInv, CountAgrees, SignalInv, Counted
    <2> QED
      BY <2>1, <2>2, <2>3 DEF Next, ProcessStep
  <1> QED
    BY IndInvHolds, <1>1, <1>2, PTL DEF Spec

\* As long as no update gets lost, process_count is the number of processes; the
\* type of the counter has to hold that number.
THEOREM CountsAgree ==
  ASSUME Cardinality(Processes) < CountModulus
  PROVE  Spec => []CountAgrees
  <1>1. CountInv => CountAgrees
    BY DEF CountInv
  <1> QED
    BY CountInvHolds, <1>1, PTL

\* The wait for all processes ends only when none is left that is not just being
\* created, as long as no update is lost and no signal comes late.
THEOREM WaitsJustified ==
  ASSUME Cardinality(Processes) < CountModulus
  PROVE  Spec => WaitJustified
  <1>1. IndInv /\ IndInv' /\ CountInv /\ [Next]_vars =>
          [WaitSucceeds /\ races \intersect {"lost", "late"} = {}
             => \A p \in Counted : pc[p] = "drain"]_vars
    <2> SUFFICES ASSUME IndInv, IndInv', CountInv, WaitSucceeds,
                        races \intersect {"lost", "late"} = {},
                        NEW p \in Counted
                 PROVE  pc[p] = "drain"
      OBVIOUS
    <2>1. process_semaphore' < process_semaphore /\ process_semaphore' \in Nat
      BY SizeAssumption DEF WaitSucceeds, IndInv, TypeOK
    <2>2. /\ process_semaphore \in {0, 1}
          /\ process_semaphore = 1 => \A u \in Counted : pc[u] = "drain"
      BY DEF CountInv, SignalInv
    <2> HIDE DEF Counted
    <2> QED
      BY <2>1, <2>2
  <1> QED
    BY IndInvHolds, CountInvHolds, <1>1, PTL DEF Spec, WaitJustified
=============================================================================
