------------------------- MODULE MessageQueueProofs -------------------------
(***************************************************************************)
(* Proofs about MessageQueue, for every set of threads and messages.       *)
(***************************************************************************)
EXTENDS MessageQueue, Counting, FiniteSetTheorems, TLAPS

(***************************************************************************)
(* The inductive invariant.  ListIntact speaks of the list only while the  *)
(* lock is free; ListInv says what the list looks like at every point of   *)
(* the section the lock protects.                                          *)
(***************************************************************************)

\* At most one thread is in the section, and then the lock is taken.
LockInv ==
  /\ \A t \in Threads : pc[t] \in Section => semaphore_read_write = 0
  /\ \A t, u \in Threads : pc[t] \in Section /\ pc[u] \in Section => t = u

\* Which threads have a message in hand.
MessageInv ==
  \A t \in Threads :
    IF pc[t] \in {"idle", "get_wait", "get_lock", "get_read", "get_empty"}
    THEN message[t] = NULL
    ELSE message[t] \in Messages

WellLinked == FirstOK /\ LastOK /\ LinksOK

\* Between its two halves, an append has linked its message behind the last.
HalfAppended(m) ==
  /\ chain # <<>>
  /\ FirstOK
  /\ LastOK
  /\ \A i \in DOMAIN chain :
       next[chain[i]] = IF i = Len(chain) THEN m ELSE chain[i + 1]

ListInvAt(t) ==
  CASE pc[t] \in {"put_test", "put_signal", "put_unlock", "get_read",
                  "get_unlock"} -> WellLinked
    [] pc[t] = "put_first" -> WellLinked /\ chain = <<>>
    [] pc[t] = "put_link" -> WellLinked /\ chain # <<>>
    [] pc[t] = "put_last" -> HalfAppended(message[t])
    [] pc[t] = "get_advance" ->
         WellLinked /\ chain # <<>> /\ message[t] = chain[1]
    [] pc[t] = "get_last" ->
         FirstOK /\ LinksOK /\ (chain # <<>> => LastOK)
    [] OTHER -> TRUE

ListInv ==
  /\ ListIntact
  /\ \A t \in Threads : ListInvAt(t)

IndInv ==
  /\ TypeOK
  /\ LockInv
  /\ MessageInv
  /\ NoMessagePassingError
  /\ OneOwner
  /\ TokensMatchMessages
  /\ ListInv
-----------------------------------------------------------------------------
(* Counting.                                                               *)

\* The threads are finite in number.
LEMMA FiniteThreads == IsFiniteSet(Threads)
  BY ThreadsAssumption, FS_Union DEF Threads

\* How a step of one thread moves the two numbers TokensMatchMessages adds.
LEMMA CountStep ==
  ASSUME TypeOK, NEW t \in Threads, NEW to, pc' = [pc EXCEPT ![t] = to]
  PROVE  /\ to \in ClaimPoints /\ pc[t] \notin ClaimPoints
              => Cardinality(Claiming') = Cardinality(Claiming) + 1
         /\ to \notin ClaimPoints /\ pc[t] \in ClaimPoints
              => Cardinality(Claiming') = Cardinality(Claiming) - 1
         /\ (to \in ClaimPoints <=> pc[t] \in ClaimPoints)
              => Cardinality(Claiming') = Cardinality(Claiming)
         /\ to = "put_signal" /\ pc[t] # "put_signal"
              => Cardinality(Unsignalled') = Cardinality(Unsignalled) + 1
         /\ to # "put_signal" /\ pc[t] = "put_signal"
              => Cardinality(Unsignalled') = Cardinality(Unsignalled) - 1
         /\ (to = "put_signal" <=> pc[t] = "put_signal")
              => Cardinality(Unsignalled') = Cardinality(Unsignalled)
  <1>1. IsFiniteSet(Claiming) /\ IsFiniteSet(Unsignalled)
    BY FiniteThreads, FS_Subset DEF Claiming, Unsignalled
  <1>2. /\ to \in ClaimPoints => Claiming' = Claiming \union {t}
        /\ to \notin ClaimPoints => Claiming' = Claiming \ {t}
    BY DEF Claiming, TypeOK
  <1>3. /\ to = "put_signal" => Unsignalled' = Unsignalled \union {t}
        /\ to # "put_signal" => Unsignalled' = Unsignalled \ {t}
    BY DEF Unsignalled, TypeOK
  <1>4. /\ t \in Claiming <=> pc[t] \in ClaimPoints
        /\ t \in Unsignalled <=> pc[t] = "put_signal"
    BY DEF Claiming, Unsignalled
  <1>5. /\ Cardinality(Claiming \union {t}) =
             IF t \in Claiming THEN Cardinality(Claiming)
                               ELSE Cardinality(Claiming) + 1
        /\ Cardinality(Claiming \ {t}) =
             IF t \in Claiming THEN Cardinality(Claiming) - 1
                               ELSE Cardinality(Claiming)
    BY <1>1, CardinalityStep
  <1>6. /\ Cardinality(Unsignalled \union {t}) =
             IF t \in Unsignalled THEN Cardinality(Unsignalled)
                                  ELSE Cardinality(Unsignalled) + 1
        /\ Cardinality(Unsignalled \ {t}) =
             IF t \in Unsignalled THEN Cardinality(Unsignalled) - 1
                                  ELSE Cardinality(Unsignalled)
    BY <1>1, CardinalityStep
  <1> HIDE DEF Claiming, Unsignalled, ClaimPoints
  <1> QED
    BY <1>2, <1>3, <1>4, <1>5, <1>6

\* A get that holds a token and the lock finds the list non-empty.
LEMMA NonEmptyAtRead ==
  ASSUME IndInv, NEW t \in Threads, pc[t] = "get_read"
  PROVE  chain # <<>> /\ first = chain[1] /\ first \in Messages
  <1>1. /\ IsFiniteSet(Claiming) /\ IsFiniteSet(Unsignalled)
        /\ t \in Claiming
    BY FiniteThreads, FS_Subset DEF Claiming, Unsignalled, ClaimPoints
  <1>2. Cardinality(Claiming) > 0 /\ Cardinality(Claiming) \in Nat
        /\ Cardinality(Unsignalled) \in Nat
    BY <1>1, CardinalityStep
  <1>3. Len(chain) # 0
    BY <1>2 DEF IndInv, TokensMatchMessages, TypeOK
  <1>4. chain # <<>>
    BY <1>3
  <1>5. FirstOK
    BY DEF IndInv, ListInv, ListInvAt, WellLinked
  <1> QED
    BY <1>4, <1>5 DEF FirstOK, IndInv, TypeOK

\* A step that moves no message and no thread across a claim keeps the count.
LEMMA NeutralStep ==
  ASSUME TypeOK, TokensMatchMessages, NEW t \in Threads, NEW to,
         pc' = [pc EXCEPT ![t] = to],
         UNCHANGED <<semaphore_messages, chain>>,
         to \in ClaimPoints <=> pc[t] \in ClaimPoints,
         to # "put_signal", pc[t] # "put_signal"
  PROVE  TokensMatchMessages'
  <1>1. /\ Cardinality(Claiming') = Cardinality(Claiming)
        /\ Cardinality(Unsignalled') = Cardinality(Unsignalled)
    BY CountStep
  <1> QED
    BY <1>1 DEF TokensMatchMessages

\* The tokens match the messages after every step of a thread.
LEMMA TokensStep ==
  ASSUME IndInv, NEW t \in Threads,
         \/ \E m \in Messages : Create(t, m)
         \/ PutStep(t)
         \/ GetCall(t)
         \/ GetStep(t)
  PROVE  TokensMatchMessages'
  <1> USE DEF Goto
  <1>0. /\ TypeOK
        /\ TokensMatchMessages
        /\ chain \in Seq(Messages)
        /\ Len(chain) \in Nat
        /\ semaphore_messages \in Nat
    BY DEF IndInv, TypeOK
  <1>c. /\ Cardinality(Claiming) \in Nat
        /\ Cardinality(Unsignalled) \in Nat
    <2>1. IsFiniteSet(Claiming) /\ IsFiniteSet(Unsignalled)
      BY FiniteThreads, FS_Subset DEF Claiming, Unsignalled
    <2> QED
      BY <2>1, FS_CardinalityType
  <1>s. semaphore_messages + Cardinality(Claiming) + Cardinality(Unsignalled)
          = Len(chain)
    BY <1>0 DEF TokensMatchMessages
  <1>p. /\ \A p \in {"get_lock", "get_read", "get_advance"} :
             p \in ClaimPoints /\ p # "put_signal"
        /\ \A p \in {"idle", "put_wait", "put_test", "put_first", "put_link",
                     "put_last", "put_signal", "put_unlock", "get_wait",
                     "get_last", "get_unlock", "get_empty", "get_detach",
                     "got"} : p \notin ClaimPoints
    BY DEF ClaimPoints
  <1>1. ASSUME NEW m \in Messages,
               pc' = [pc EXCEPT ![t] = "put_signal"],
               pc[t] \in {"put_first", "put_last"},
               semaphore_messages' = semaphore_messages,
               chain' = Append(chain, m)
        PROVE  TokensMatchMessages'
    <2>1. Len(chain') = Len(chain) + 1
      BY <1>0, <1>1
    <2>2. /\ Cardinality(Claiming') = Cardinality(Claiming)
          /\ Cardinality(Unsignalled') = Cardinality(Unsignalled) + 1
      BY <1>0, <1>p, <1>1, CountStep
    <2> HIDE DEF Claiming, Unsignalled
    <2> QED
      BY <1>s, <1>c, <1>0, <1>1, <2>1, <2>2 DEF TokensMatchMessages
  <1>2. ASSUME PutFirst(t) \/ PutLast(t)
        PROVE  TokensMatchMessages'
    <2>1. message[t] \in Messages
      BY <1>2 DEF PutFirst, PutLast, IndInv, MessageInv
    <2> QED
      BY <1>1, <1>2, <2>1 DEF PutFirst, PutLast
  <1>3. ASSUME PutSignal(t)
        PROVE  TokensMatchMessages'
    <2>1. /\ pc' = [pc EXCEPT ![t] = "put_unlock"]
          /\ pc[t] = "put_signal"
          /\ semaphore_messages' = semaphore_messages + 1
          /\ chain' = chain
      BY <1>3 DEF PutSignal, Signal, listVars
    <2>2. /\ pc[t] \notin ClaimPoints /\ "put_unlock" \notin ClaimPoints
          /\ "put_unlock" # "put_signal"
      BY <1>p, <2>1
    <2>3. Cardinality(Claiming') = Cardinality(Claiming)
      BY <1>0, <2>1, <2>2, CountStep
    <2>4. Cardinality(Unsignalled') = Cardinality(Unsignalled) - 1
      BY <1>0, <2>1, <2>2, CountStep, Zenon
    <2> QED
      BY <1>0, <1>s, <1>c, <2>1, <2>3, <2>4 DEF TokensMatchMessages
  <1>4. ASSUME GetWait(t)
        PROVE  TokensMatchMessages'
    <2>1. /\ pc' = [pc EXCEPT ![t] = "get_lock"]
          /\ pc[t] = "get_wait"
          /\ semaphore_messages' = semaphore_messages - 1
          /\ chain' = chain
      BY <1>4 DEF GetWait, Wait, listVars
    <2>2. /\ Cardinality(Claiming') = Cardinality(Claiming) + 1
          /\ Cardinality(Unsignalled') = Cardinality(Unsignalled)
      BY <1>0, <1>p, <2>1, CountStep
    <2> QED
      BY <1>0, <1>s, <1>c, <2>1, <2>2 DEF TokensMatchMessages
  <1>5. ASSUME GetAdvance(t)
        PROVE  TokensMatchMessages'
    <2>1. /\ pc' = [pc EXCEPT ![t] = "get_last"]
          /\ pc[t] = "get_advance"
          /\ semaphore_messages' = semaphore_messages
          /\ chain' = Tail(chain)
      BY <1>5 DEF GetAdvance
    <2>2. chain # <<>>
      BY <2>1 DEF IndInv, ListInv, ListInvAt
    <2>3. Len(chain') = Len(chain) - 1
      BY <1>0, <2>1, <2>2
    <2>4. /\ pc[t] \in ClaimPoints /\ "get_last" \notin ClaimPoints
          /\ pc[t] # "put_signal" /\ "get_last" # "put_signal"
      BY <1>p, <2>1
    <2>5. Cardinality(Claiming') = Cardinality(Claiming) - 1
      BY <1>0, <2>1, <2>4, CountStep
    <2>6. Cardinality(Unsignalled') = Cardinality(Unsignalled)
      BY <1>0, <2>1, <2>4, CountStep, Zenon
    <2> QED
      BY <1>0, <1>s, <1>c, <2>1, <2>3, <2>5, <2>6 DEF TokensMatchMessages
  <1>6. ASSUME \E m \in Messages : Create(t, m)
        PROVE  TokensMatchMessages'
    BY <1>0, <1>p, NeutralStep, <1>6 DEF Create
  <1>7. ASSUME PutWait(t) \/ PutTest(t) \/ PutLink(t) \/ PutUnlock(t)
        PROVE  TokensMatchMessages'
    BY <1>0, <1>p, NeutralStep, <1>7 DEF PutWait, PutTest, PutLink, PutUnlock, listVars
  <1>8. ASSUME \/ GetCall(t) \/ GetTimeout(t) \/ GetLock(t) \/ GetLast(t)
               \/ GetDetach(t) \/ Release(t)
        PROVE  TokensMatchMessages'
    <2>1. CASE GetCall(t)
      BY <1>0, <1>p, NeutralStep, <2>1 DEF GetCall, listVars
    <2>2. CASE GetTimeout(t)
      BY <1>0, <1>p, NeutralStep, <2>2 DEF GetTimeout, listVars
    <2>3. CASE GetLock(t)
      BY <1>0, <1>p, NeutralStep, <2>3 DEF GetLock, listVars
    <2>4. CASE GetLast(t) \/ GetDetach(t) \/ Release(t)
      BY <1>0, <1>p, NeutralStep, <2>4 DEF GetLast, GetDetach, Release, listVars
    <2> QED
      BY <1>8, <2>1, <2>2, <2>3, <2>4
  <1>9. ASSUME GetUnlock(t)
        PROVE  TokensMatchMessages'
    <2>1. pc[t] = "get_unlock"
      BY <1>9 DEF GetUnlock, IndInv, NoMessagePassingError
    <2> QED
      BY <1>0, <1>p, NeutralStep, <1>9, <2>1 DEF GetUnlock, listVars
  <1>10. ASSUME GetRead(t)
         PROVE  TokensMatchMessages'
    <2>1. pc[t] = "get_read"
      BY <1>10 DEF GetRead
    <2>2. first \in Messages
      BY <2>1, NonEmptyAtRead
    <2>3. /\ pc' = [pc EXCEPT ![t] = "get_advance"]
          /\ semaphore_messages' = semaphore_messages
          /\ chain' = chain
      BY <1>10, <2>2, NullAssumption DEF GetRead, listVars
    <2> QED
      BY <1>0, <1>p, <2>1, <2>3, NeutralStep
  <1> QED
    BY <1>2, <1>3, <1>4, <1>5, <1>6, <1>7, <1>8, <1>9, <1>10
       DEF PutStep, GetStep
-----------------------------------------------------------------------------
(* Every step keeps the inductive invariant: one lemma for each conjunct.  *)

ThreadStep(t) ==
  \/ \E m \in Messages : Create(t, m)
  \/ PutStep(t)
  \/ GetCall(t)
  \/ GetStep(t)

\* Types: a pointer that is followed is not NULL, and the lock stays binary.
LEMMA TypeStep ==
  ASSUME IndInv, NEW t \in Threads, ThreadStep(t)
  PROVE  TypeOK'
  <1> USE DEF IndInv, Goto, Wait, Signal, listVars
  <1>t. /\ TypeOK
        /\ pc[t] \in {"put_first", "put_link", "put_last"}
             => message[t] \in Messages
    BY DEF MessageInv
  <1>s. /\ pc[t] \in Section => semaphore_read_write = 0
        /\ pc[t] = "get_advance" => message[t] \in Messages
        /\ pc[t] = "get_advance" => chain # <<>>
        /\ pc[t] = "put_link" => last \in Messages
    BY DEF LockInv, MessageInv, ListInv, ListInvAt, WellLinked, LastOK, TypeOK
  <1>1. CASE \E m \in Messages : Create(t, m)
    BY <1>1 DEF TypeOK, Points, MessagePointers, Create
  <1>2. CASE PutWait(t) \/ PutTest(t) \/ PutSignal(t) \/ PutUnlock(t)
    BY <1>2, <1>s DEF TypeOK, Points, Section, PutSection, MessagePointers,
                      PutWait, PutTest, PutSignal, PutUnlock
  <1>3. CASE PutFirst(t)
    BY <1>3, <1>t DEF TypeOK, Points, Section, PutSection, MessagePointers,
                      PutFirst
  <1>4. CASE PutLink(t)
    BY <1>4, <1>t DEF TypeOK, Points, Section, PutSection, MessagePointers,
                      PutLink
  <1>5. CASE PutLast(t)
    BY <1>5, <1>t DEF TypeOK, Points, Section, PutSection, MessagePointers,
                      PutLast
  <1>6. CASE GetCall(t) \/ GetWait(t) \/ GetTimeout(t) \/ GetLock(t)
    BY <1>6 DEF TypeOK, Points, Section, GetSection, MessagePointers,
                GetCall, GetWait, GetTimeout, GetLock
  <1>7. CASE GetRead(t)
    BY <1>7 DEF TypeOK, Points, Section, GetSection, MessagePointers, GetRead
  <1>8. CASE GetAdvance(t)
    <2>1. chain' \in Seq(Messages)
      BY <1>8, <1>t, <1>s DEF GetAdvance, TypeOK
    <2>2. first' \in MessagePointers
      BY <1>8, <1>t, <1>s DEF GetAdvance, TypeOK
    <2> QED
      BY <1>8, <1>t, <2>1, <2>2
         DEF GetAdvance, TypeOK, Points, Section, GetSection
  <1>9. CASE GetLast(t)
    BY <1>9 DEF TypeOK, Points, Section, GetSection, MessagePointers, GetLast
  <1>10. CASE GetUnlock(t) \/ GetDetach(t) \/ Release(t)
    BY <1>10, <1>s DEF TypeOK, Points, Section, GetSection, MessagePointers,
                       GetUnlock, GetDetach, Release
  <1> QED
    BY <1>1, <1>2, <1>3, <1>4, <1>5, <1>6, <1>7, <1>8, <1>9, <1>10
       DEF ThreadStep, PutStep, GetStep

\* Mutual exclusion: the lock is 1 only when nobody is in the section.
LEMMA LockStep ==
  ASSUME IndInv, NEW t \in Threads, ThreadStep(t)
  PROVE  LockInv'
  <1> USE DEF IndInv, Goto, Wait, Signal, listVars, LockInv, TypeOK, Section,
              PutSection, GetSection
  <1>1. CASE \E m \in Messages : Create(t, m)
    BY <1>1 DEF Create
  <1>2. CASE PutWait(t) \/ PutTest(t) \/ PutSignal(t) \/ PutUnlock(t)
    BY <1>2 DEF PutWait, PutTest, PutSignal, PutUnlock
  <1>3. CASE PutFirst(t) \/ PutLink(t) \/ PutLast(t)
    BY <1>3 DEF PutFirst, PutLink, PutLast
  <1>4. CASE GetCall(t) \/ GetWait(t) \/ GetTimeout(t) \/ GetLock(t)
    BY <1>4 DEF GetCall, GetWait, GetTimeout, GetLock
  <1>5. CASE GetRead(t) \/ GetAdvance(t) \/ GetLast(t)
    BY <1>5 DEF GetRead, GetAdvance, GetLast
  <1>6. CASE GetUnlock(t) \/ GetDetach(t) \/ Release(t)
    BY <1>6 DEF GetUnlock, GetDetach, Release
  <1> QED
    BY <1>1, <1>2, <1>3, <1>4, <1>5, <1>6 DEF ThreadStep, PutStep, GetStep

\* Which threads have a message; a get that was let through finds one.
LEMMA MessageStep ==
  ASSUME IndInv, NEW t \in Threads, ThreadStep(t)
  PROVE  MessageInv' /\ NoMessagePassingError'
  <1> USE DEF IndInv, Goto, listVars, MessageInv, NoMessagePassingError, TypeOK,
              MessagePointers
  <1>1. CASE \E m \in Messages : Create(t, m)
    BY <1>1 DEF Create
  <1>2. CASE PutWait(t) \/ PutTest(t) \/ PutSignal(t) \/ PutUnlock(t)
    BY <1>2 DEF PutWait, PutTest, PutSignal, PutUnlock
  <1>3. CASE PutFirst(t) \/ PutLink(t) \/ PutLast(t)
    BY <1>3 DEF PutFirst, PutLink, PutLast
  <1>4. CASE GetCall(t) \/ GetWait(t) \/ GetTimeout(t) \/ GetLock(t)
    BY <1>4 DEF GetCall, GetWait, GetTimeout, GetLock
  <1>5. CASE GetRead(t)
    <2>1. first \in Messages
      BY <1>5, NonEmptyAtRead DEF GetRead
    <2> QED
      BY <1>5, <2>1, NullAssumption DEF GetRead
  <1>6. CASE GetAdvance(t) \/ GetLast(t)
    BY <1>6 DEF GetAdvance, GetLast
  <1>7. CASE GetUnlock(t) \/ GetDetach(t) \/ Release(t)
    BY <1>7 DEF GetUnlock, GetDetach, Release
  <1> QED
    BY <1>1, <1>2, <1>3, <1>4, <1>5, <1>6, <1>7
       DEF ThreadStep, PutStep, GetStep

\* A step that moves no message keeps every message with its owner.
LEMMA OwnerUnchanged ==
  ASSUME OneOwner, heap' = heap, chain' = chain,
         \A u \in Threads : HeldBy(u)' = HeldBy(u)
  PROVE  OneOwner'
  BY DEF OneOwner, Linked

\* Ownership: create and release are the only ways in and out of the heap,
\* linking and unlinking the only ways between thread and list.
LEMMA OwnerStep ==
  ASSUME IndInv, NEW t \in Threads, ThreadStep(t)
  PROVE  OneOwner'
  <1> USE DEF IndInv, Goto, listVars
  <1>1. CASE \E m \in Messages : Create(t, m)
    BY <1>1, NullAssumption
       DEF Create, OneOwner, HeldBy, Linked, TypeOK, MessageInv
  <1>2. CASE PutWait(t) \/ PutTest(t) \/ PutLink(t) \/ PutSignal(t)
               \/ PutUnlock(t)
    <2>1. \A u \in Threads : HeldBy(u)' = HeldBy(u)
      BY <1>2 DEF PutWait, PutTest, PutLink, PutSignal, PutUnlock, HeldBy,
                  TypeOK
    <2> QED
      BY <1>2, <2>1, OwnerUnchanged
         DEF PutWait, PutTest, PutLink, PutSignal, PutUnlock
  <1>3. CASE PutFirst(t) \/ PutLast(t)
    <2>1. CASE PutFirst(t)
      BY <2>1, NullAssumption
         DEF PutFirst, OneOwner, HeldBy, Linked, TypeOK, MessageInv
    <2>2. CASE PutLast(t)
      BY <2>2, NullAssumption
         DEF PutLast, OneOwner, HeldBy, Linked, TypeOK, MessageInv
    <2> QED
      BY <1>3, <2>1, <2>2
  <1>4. CASE \/ GetCall(t) \/ GetWait(t) \/ GetTimeout(t) \/ GetLock(t)
             \/ GetRead(t) \/ GetLast(t) \/ GetUnlock(t) \/ GetDetach(t)
    <2>1. CASE GetCall(t) \/ GetWait(t) \/ GetTimeout(t) \/ GetLock(t)
      <3>1. \A u \in Threads : HeldBy(u)' = HeldBy(u)
        BY <2>1 DEF GetCall, GetWait, GetTimeout, GetLock, HeldBy, TypeOK,
                    MessageInv
      <3> QED
        BY <2>1, <3>1, OwnerUnchanged DEF GetCall, GetWait, GetTimeout, GetLock
    <2>2. CASE GetRead(t)
      <3>1. first # NULL
        BY <2>2, NonEmptyAtRead, NullAssumption DEF GetRead
      <3>2. \A u \in Threads : HeldBy(u)' = HeldBy(u)
        BY <2>2, <3>1 DEF GetRead, HeldBy, TypeOK, MessageInv
      <3> QED
        BY <2>2, <3>2, OwnerUnchanged DEF GetRead
    <2>3. CASE GetLast(t) \/ GetUnlock(t) \/ GetDetach(t)
      <3>1. \A u \in Threads : HeldBy(u)' = HeldBy(u)
        BY <2>3 DEF GetLast, GetUnlock, GetDetach, HeldBy, TypeOK, MessageInv,
                    NoMessagePassingError
      <3> QED
        BY <2>3, <3>1, OwnerUnchanged DEF GetLast, GetUnlock, GetDetach
    <2> QED
      BY <1>4, <2>1, <2>2, <2>3
  <1>5. CASE GetAdvance(t)
    <2>1. chain # <<>> /\ message[t] = chain[1] /\ chain \in Seq(Messages)
      BY <1>5 DEF GetAdvance, ListInv, ListInvAt, TypeOK
    <2>2. /\ Len(chain') = Len(chain) - 1
          /\ DOMAIN chain = 1 .. Len(chain)
          /\ DOMAIN chain' = 1 .. (Len(chain) - 1)
          /\ Len(chain) \in Nat \ {0}
          /\ \A i \in DOMAIN chain' : chain'[i] = chain[i + 1]
      BY <1>5, <2>1 DEF GetAdvance
    <2>3. HeldBy(t)' = chain[1] /\ HeldBy(t) = NULL
      BY <1>5, <2>1 DEF GetAdvance, HeldBy, TypeOK
    <2>4. \A u \in Threads : u # t => HeldBy(u)' = HeldBy(u)
      BY <1>5 DEF GetAdvance, HeldBy, TypeOK
    <2>5. \A i, j \in DOMAIN chain' : chain'[i] = chain'[j] => i = j
      BY <2>2 DEF OneOwner
    <2>6. Linked = Linked' \union {chain[1]} /\ chain[1] \notin Linked'
      <3>1. 1 \in DOMAIN chain
        BY <2>2
      <3>2. \A i \in DOMAIN chain' : i + 1 \in DOMAIN chain /\ i + 1 # 1
        BY <2>2
      <3>3. \A i \in DOMAIN chain : i # 1 => \E j \in DOMAIN chain' : i = j + 1
        <4>1. \A i \in DOMAIN chain : i # 1 => i - 1 \in DOMAIN chain'
                                               /\ i = (i - 1) + 1
          BY <2>2
        <4> QED
          BY <4>1
      <3> QED
        BY <2>2, <3>1, <3>2, <3>3 DEF Linked, OneOwner
    <2>7. heap' = heap
      BY <1>5 DEF GetAdvance
    <2>8. chain[1] # NULL
      BY <2>1, NullAssumption
    <2>9. {HeldBy(u) : u \in Threads}' \ {NULL}
            = ({HeldBy(u) : u \in Threads} \ {NULL}) \union {chain[1]}
      BY <2>3, <2>4, <2>8
    <2>10. heap' = Linked' \union ({HeldBy(u) : u \in Threads}' \ {NULL})
      BY <2>6, <2>7, <2>9 DEF OneOwner
    <2>11. \A u \in Threads : HeldBy(u)' \notin Linked'
      BY <2>3, <2>4, <2>6 DEF OneOwner
    <2>12. \A u, v \in Threads :
             HeldBy(u)' = HeldBy(v)' /\ u # v => HeldBy(u)' = NULL
      BY <2>3, <2>4, <2>6 DEF OneOwner
    <2> QED
      BY <2>5, <2>10, <2>11, <2>12 DEF OneOwner
  <1>6. CASE Release(t)
    BY <1>6, NullAssumption
       DEF Release, OneOwner, HeldBy, Linked, TypeOK, MessageInv
  <1> QED
    BY <1>1, <1>2, <1>3, <1>4, <1>5, <1>6 DEF ThreadStep, PutStep, GetStep

\* A step inside the section: only what the thread itself leaves behind counts.
LEMMA InsideStep ==
  ASSUME IndInv, NEW t \in Threads, pc[t] \in Section,
         NEW to, pc' = [pc EXCEPT ![t] = to],
         ListInvAt(t)', semaphore_read_write' = 1 => WellLinked'
  PROVE  ListInv'
  <1>1. \A u \in Threads : u # t => pc'[u] \notin Section
    BY DEF IndInv, LockInv, TypeOK
  <1>2. \A u \in Threads : u # t => ListInvAt(u)'
    BY <1>1 DEF ListInvAt, Section, PutSection, GetSection
  <1> QED
    BY <1>2 DEF ListInv, ListIntact, WellLinked

\* A step outside the section, or into it, changes no message of the list.
LEMMA OutsideStep ==
  ASSUME IndInv, NEW t \in Threads, pc[t] \notin Section,
         NEW to, pc' = [pc EXCEPT ![t] = to],
         UNCHANGED <<first, last, chain>>,
         \A u \in Threads : u # t => message'[u] = message[u],
         \A m \in Linked : next'[m] = next[m],
         \/ to \notin Section /\ semaphore_read_write' = semaphore_read_write
         \/ /\ semaphore_read_write = 1 /\ semaphore_read_write' = 0
            /\ to \in {"put_test", "get_read"}
  PROVE  ListInv'
  <1>1. /\ WellLinked => WellLinked'
        /\ \A m : HalfAppended(m) => (HalfAppended(m))'
        /\ FirstOK => FirstOK'
        /\ LinksOK => LinksOK'
        /\ LastOK => LastOK'
    BY DEF Linked, WellLinked, HalfAppended, FirstOK, LastOK, LinksOK
  <1>2. ASSUME NEW u \in Threads, u # t
        PROVE  ListInvAt(u)'
    <2>1. ListInvAt(u) /\ pc'[u] = pc[u] /\ message'[u] = message[u]
      BY <1>2 DEF IndInv, ListInv, TypeOK
    <2>2. CASE pc[u] = "put_last"
      <3>1. HalfAppended(message[u])
        BY <2>1, <2>2 DEF ListInvAt
      <3>2. (HalfAppended(message[u]))'
        BY <2>1, <3>1 DEF HalfAppended, FirstOK, LastOK, Linked
      <3>3. pc'[u] = "put_last"
        BY <2>1, <2>2
      <3> QED
        BY <3>2, <3>3 DEF ListInvAt
    <2>3. CASE pc[u] # "put_last"
      BY <1>1, <2>1, <2>3 DEF ListInvAt
    <2> QED
      BY <2>2, <2>3
  <1>3. CASE to \notin Section /\ semaphore_read_write' = semaphore_read_write
    <2>1. ListInvAt(t)'
      BY <1>3 DEF ListInvAt, Section, PutSection, GetSection, IndInv, TypeOK
    <2>2. ListIntact'
      BY <1>1, <1>3 DEF IndInv, ListInv, ListIntact, WellLinked
    <2> QED
      BY <1>2, <2>1, <2>2 DEF ListInv
  <1>4. CASE /\ semaphore_read_write = 1 /\ semaphore_read_write' = 0
             /\ to \in {"put_test", "get_read"}
    <2>1. WellLinked'
      BY <1>1, <1>4 DEF IndInv, ListInv, ListIntact, WellLinked
    <2>2. ListInvAt(t)'
      BY <1>4, <2>1 DEF ListInvAt, IndInv, TypeOK
    <2>3. ListIntact'
      BY <1>4 DEF ListIntact
    <2> QED
      BY <1>2, <2>2, <2>3 DEF ListInv
  <1> QED
    BY <1>3, <1>4

\* The list: what each point of the section leaves behind.
LEMMA ListStep ==
  ASSUME IndInv, NEW t \in Threads, ThreadStep(t)
  PROVE  ListInv'
  <1> USE DEF Goto, Wait, Signal, listVars
  <1>0. /\ TypeOK
        /\ ListInvAt(t)
        /\ pc[t] \in Section => semaphore_read_write = 0
        /\ chain \in Seq(Messages)
        /\ \A p \in {"put_test", "put_first", "put_link", "put_last",
                     "put_signal", "put_unlock", "get_read", "get_advance",
                     "get_last", "get_unlock"} : p \in Section
        /\ \A p \in {"idle", "put_wait", "get_wait", "get_lock",
                     "get_detach", "got"} : p \notin Section
    BY DEF IndInv, LockInv, ListInv, TypeOK, Section, PutSection, GetSection
  <1>1. CASE \E m \in Messages : Create(t, m)
    <2>1. PICK m \in Messages : Create(t, m)
      BY <1>1
    <2>2. m \notin Linked
      BY <2>1 DEF Create, IndInv, OneOwner
    <2>3. \A x \in Linked : next'[x] = next[x]
      BY <2>1, <2>2, <1>0 DEF Create, TypeOK
    <2> QED
      BY <1>0, <2>1, <2>3, OutsideStep DEF Create, TypeOK
  <1>2. CASE PutWait(t)
    <2>1. semaphore_read_write = 1 /\ semaphore_read_write' = 0
      BY <1>0, <1>2 DEF PutWait, TypeOK
    <2> QED
      BY <1>0, <1>2, <2>1, OutsideStep DEF PutWait
  <1>3. CASE PutTest(t)
    <2>1. WellLinked /\ (first = NULL <=> chain = <<>>)
      BY <1>0, <1>3, NullAssumption
         DEF PutTest, ListInvAt, WellLinked, FirstOK
    <2>2. WellLinked'
      BY <1>3, <2>1 DEF PutTest, WellLinked, FirstOK, LastOK, LinksOK
    <2>3. ListInvAt(t)'
      BY <1>0, <1>3, <2>1, <2>2 DEF PutTest, ListInvAt, TypeOK
    <2> QED
      BY <1>0, <1>3, <2>2, <2>3, InsideStep DEF PutTest
  <1>4. CASE PutFirst(t)
    <2>1. chain = <<>> /\ message[t] \in Messages
      BY <1>0, <1>4 DEF PutFirst, ListInvAt, IndInv, MessageInv
    <2>2. /\ chain' = <<message[t]>>
          /\ first' = message[t] /\ last' = message[t]
          /\ next'[message[t]] = NULL
      BY <1>0, <1>4, <2>1 DEF PutFirst, TypeOK
    <2>3. WellLinked'
      BY <2>2 DEF WellLinked, FirstOK, LastOK, LinksOK
    <2>4. ListInvAt(t)'
      BY <1>0, <1>4, <2>3 DEF PutFirst, ListInvAt, TypeOK
    <2> QED
      BY <1>0, <1>4, <2>3, <2>4, InsideStep DEF PutFirst
  <1>5. CASE PutLink(t)
    <2>1. WellLinked /\ chain # <<>>
      BY <1>0, <1>5 DEF PutLink, ListInvAt
    <2>2. /\ Len(chain) \in DOMAIN chain
          /\ last = chain[Len(chain)]
          /\ \A i \in DOMAIN chain : chain[i] = last => i = Len(chain)
          /\ \A i \in DOMAIN chain : chain[i] \in Messages
      BY <1>0, <2>1 DEF WellLinked, LastOK, IndInv, OneOwner
    <2>3. (HalfAppended(message[t]))'
      BY <1>0, <1>5, <2>1, <2>2
         DEF PutLink, HalfAppended, WellLinked, FirstOK, LastOK, LinksOK,
             TypeOK
    <2>4. ListInvAt(t)'
      BY <1>0, <1>5, <2>3 DEF PutLink, ListInvAt, TypeOK
    <2> QED
      <3>1. /\ pc[t] \in Section
            /\ semaphore_read_write' = 0
            /\ pc' = [pc EXCEPT ![t] = "put_last"]
        BY <1>0, <1>5 DEF PutLink
      <3>2. semaphore_read_write' = 1 => WellLinked'
        BY <3>1
      <3> QED
        BY <2>4, <3>1, <3>2, InsideStep
  <1>6. CASE PutLast(t)
    <2>1. /\ HalfAppended(message[t])
          /\ message[t] \in Messages
          /\ message[t] \notin Linked
      BY <1>0, <1>6
         DEF PutLast, ListInvAt, IndInv, MessageInv, OneOwner, HeldBy
    <2>2. /\ DOMAIN chain = 1 .. Len(chain)
          /\ Len(chain) \in Nat \ {0}
          /\ DOMAIN chain' = 1 .. (Len(chain) + 1)
          /\ Len(chain') = Len(chain) + 1
          /\ \A i \in DOMAIN chain : chain'[i] = chain[i]
          /\ chain'[Len(chain) + 1] = message[t]
          /\ chain' # <<>>
      BY <1>0, <1>6, <2>1 DEF PutLast, HalfAppended
    <2>3. /\ next'[message[t]] = NULL
          /\ \A m \in Linked : next'[m] = next[m]
          /\ last' = message[t] /\ first' = first
      BY <1>0, <1>6, <2>1 DEF PutLast, TypeOK, Linked
    <2>4. FirstOK' /\ LastOK'
      BY <2>1, <2>2, <2>3 DEF HalfAppended, FirstOK, LastOK
    <2>5. ASSUME NEW i \in DOMAIN chain'
          PROVE  next'[chain'[i]] =
                   IF i = Len(chain') THEN NULL ELSE chain'[i + 1]
      <3>1. CASE i = Len(chain) + 1
        BY <2>2, <2>3, <3>1
      <3>2. CASE i # Len(chain) + 1
        <4>1. i \in DOMAIN chain
          BY <2>2, <2>5, <3>2
        <4>2. next'[chain'[i]] = next[chain[i]]
          BY <2>2, <2>3, <4>1 DEF Linked
        <4>3. CASE i = Len(chain)
          <5>1. next[chain[i]] = message[t]
            BY <2>1, <4>1, <4>3 DEF HalfAppended
          <5>2. chain'[i + 1] = message[t]
            BY <2>2, <4>3
          <5>3. i # Len(chain')
            <6>1. Len(chain) \in Nat /\ Len(chain') = Len(chain) + 1
              BY <2>2
            <6>2. Len(chain) # Len(chain')
              BY <6>1
            <6> QED
              BY <4>3, <6>2
          <5> QED
            BY <4>2, <5>1, <5>2, <5>3
        <4>4. CASE i # Len(chain)
          <5>1. i + 1 \in DOMAIN chain
            BY <2>2, <4>1, <4>4
          <5> QED
            BY <2>1, <2>2, <4>1, <4>2, <4>4, <5>1, <3>2 DEF HalfAppended
        <4> QED
          BY <4>3, <4>4
      <3> QED
        BY <3>1, <3>2
    <2>6. WellLinked'
      BY <2>4, <2>5 DEF WellLinked, LinksOK
    <2>7. ListInvAt(t)'
      BY <1>0, <1>6, <2>6 DEF PutLast, ListInvAt, TypeOK
    <2> QED
      BY <1>0, <1>6, <2>6, <2>7, InsideStep DEF PutLast
  <1>7. CASE PutSignal(t)
    <2>1. WellLinked'
      BY <1>0, <1>7
         DEF PutSignal, ListInvAt, WellLinked, FirstOK, LastOK, LinksOK
    <2>2. ListInvAt(t)'
      BY <1>0, <1>7, <2>1 DEF PutSignal, ListInvAt, TypeOK
    <2> QED
      BY <1>0, <1>7, <2>1, <2>2, InsideStep DEF PutSignal
  <1>8. CASE PutUnlock(t)
    <2>1. WellLinked'
      BY <1>0, <1>8
         DEF PutUnlock, ListInvAt, WellLinked, FirstOK, LastOK, LinksOK
    <2>2. ListInvAt(t)'
      BY <1>0, <1>8 DEF PutUnlock, ListInvAt, TypeOK
    <2> QED
      BY <1>0, <1>8, <2>1, <2>2, InsideStep DEF PutUnlock
  <1>9. CASE GetCall(t)
    BY <1>0, <1>9, OutsideStep DEF GetCall, TypeOK
  <1>10. CASE GetWait(t)
    BY <1>0, <1>10, OutsideStep DEF GetWait, TypeOK
  <1>11. CASE GetTimeout(t)
    BY <1>0, <1>11, OutsideStep DEF GetTimeout, TypeOK
  <1>12. CASE GetLock(t)
    <2>1. semaphore_read_write = 1 /\ semaphore_read_write' = 0
      BY <1>0, <1>12 DEF GetLock, TypeOK
    <2> QED
      BY <1>0, <1>12, <2>1, OutsideStep DEF GetLock
  <1>13. CASE GetRead(t)
    <2>1. chain # <<>> /\ first = chain[1] /\ first \in Messages /\ WellLinked
      BY <1>0, <1>13, NonEmptyAtRead DEF GetRead, ListInvAt
    <2>2. WellLinked' /\ chain' # <<>> /\ message'[t] = chain'[1]
      BY <1>0, <1>13, <2>1
         DEF GetRead, WellLinked, FirstOK, LastOK, LinksOK, TypeOK
    <2>3. pc'[t] = "get_advance"
      BY <1>0, <1>13, <2>1, NullAssumption DEF GetRead, TypeOK
    <2>4. ListInvAt(t)'
      BY <2>2, <2>3 DEF ListInvAt
    <2> QED
      BY <1>0, <1>13, <2>2, <2>4, InsideStep DEF GetRead
  <1>14. CASE GetAdvance(t)
    <2>1. WellLinked /\ chain # <<>> /\ message[t] = chain[1]
      BY <1>0, <1>14 DEF GetAdvance, ListInvAt
    <2>2. /\ Len(chain') = Len(chain) - 1
          /\ DOMAIN chain = 1 .. Len(chain)
          /\ DOMAIN chain' = 1 .. (Len(chain) - 1)
          /\ Len(chain) \in Nat \ {0}
          /\ \A i \in DOMAIN chain' : chain'[i] = chain[i + 1]
      BY <1>0, <1>14, <2>1 DEF GetAdvance
    <2>3. chain' = <<>> <=> Len(chain) = 1
      <3>1. chain' \in Seq(Messages)
        BY <1>0, <1>14, <2>1 DEF GetAdvance
      <3> QED
        BY <2>2, <3>1
    <2>4. first' = next[chain[1]] /\ next' = next /\ last' = last
      BY <1>14, <2>1 DEF GetAdvance
    <2>5. FirstOK'
      BY <2>1, <2>2, <2>4, <2>3 DEF WellLinked, FirstOK, LinksOK
    <2>6. chain' # <<>> => LastOK'
      BY <2>1, <2>2, <2>4, <2>3 DEF WellLinked, LastOK
    <2>7. LinksOK'
      <3>1. \A i \in DOMAIN chain' :
              /\ i + 1 \in DOMAIN chain
              /\ i + 1 = Len(chain) <=> i = Len(chain')
              /\ i # Len(chain') => /\ i + 1 \in DOMAIN chain'
                                    /\ chain'[i + 1] = chain[(i + 1) + 1]
        BY <2>2
      <3> QED
        BY <2>1, <2>2, <2>4, <3>1 DEF WellLinked, LinksOK
    <2>8. pc'[t] = "get_last" /\ semaphore_read_write' = 0
      BY <1>0, <1>14 DEF GetAdvance, TypeOK
    <2>9. ListInvAt(t)'
      BY <2>5, <2>6, <2>7, <2>8 DEF ListInvAt
    <2> QED
      <3>1. pc[t] \in Section /\ pc' = [pc EXCEPT ![t] = "get_last"]
        BY <1>0, <1>14 DEF GetAdvance
      <3>2. semaphore_read_write' = 1 => WellLinked'
        BY <2>8
      <3> QED
        BY <2>9, <3>1, <3>2, InsideStep
  <1>15. CASE GetLast(t)
    <2>1. FirstOK /\ LinksOK /\ (chain # <<>> => LastOK)
      BY <1>0, <1>15 DEF GetLast, ListInvAt
    <2>2. first = NULL <=> chain = <<>>
      BY <1>0, <2>1, NullAssumption DEF FirstOK
    <2>3. WellLinked'
      BY <1>15, <2>1, <2>2
         DEF GetLast, WellLinked, FirstOK, LastOK, LinksOK
    <2>4. ListInvAt(t)'
      BY <1>0, <1>15, <2>3 DEF GetLast, ListInvAt, TypeOK
    <2> QED
      BY <1>0, <1>15, <2>3, <2>4, InsideStep DEF GetLast
  <1>16. CASE GetUnlock(t)
    <2>1. pc[t] = "get_unlock"
      BY <1>16 DEF GetUnlock, IndInv, NoMessagePassingError
    <2>2. WellLinked'
      BY <1>0, <1>16, <2>1
         DEF GetUnlock, ListInvAt, WellLinked, FirstOK, LastOK, LinksOK
    <2>3. pc' = [pc EXCEPT ![t] = "get_detach"]
      BY <1>16, <2>1 DEF GetUnlock
    <2>4. ListInvAt(t)'
      BY <1>0, <2>3 DEF ListInvAt, TypeOK
    <2> QED
      BY <1>0, <2>1, <2>2, <2>3, <2>4, InsideStep
  <1>17. CASE GetDetach(t)
    <2>1. message[t] \notin Linked
      BY <1>17 DEF GetDetach, IndInv, OneOwner, HeldBy
    <2>2. \A x \in Linked : next'[x] = next[x]
      BY <2>1, <1>0, <1>17 DEF GetDetach, TypeOK
    <2> QED
      BY <1>0, <1>17, <2>2, OutsideStep DEF GetDetach, TypeOK
  <1>18. CASE Release(t)
    BY <1>0, <1>18, OutsideStep DEF Release, TypeOK
  <1> QED
    BY <1>1, <1>2, <1>3, <1>4, <1>5, <1>6, <1>7, <1>8, <1>9, <1>10, <1>11,
       <1>12, <1>13, <1>14, <1>15, <1>16, <1>17, <1>18
       DEF ThreadStep, PutStep, GetStep
-----------------------------------------------------------------------------
(* The theorems.                                                           *)

\* The empty queue satisfies the inductive invariant.
LEMMA IndInvInit == Init => IndInv
  <1> SUFFICES ASSUME Init
               PROVE  IndInv
    OBVIOUS
  <1> USE DEF Init
  <1>1. TypeOK /\ LockInv /\ MessageInv /\ NoMessagePassingError
    BY DEF TypeOK, LockInv, MessageInv, NoMessagePassingError, Section,
           PutSection, GetSection, Points, MessagePointers
  <1>2. OneOwner
    BY DEF OneOwner, HeldBy, Linked
  <1>3. ListInv
    BY DEF ListInv, ListIntact, ListInvAt, FirstOK, LastOK, LinksOK
  <1>4. TokensMatchMessages
    <2>1. Claiming = {} /\ Unsignalled = {}
      BY DEF Claiming, Unsignalled, ClaimPoints
    <2> QED
      BY <2>1, FS_EmptySet DEF TokensMatchMessages
  <1> QED
    BY <1>1, <1>2, <1>3, <1>4 DEF IndInv

\* The inductive invariant is inductive.
LEMMA IndInvNext == IndInv /\ [Next]_vars => IndInv'
  <1> SUFFICES ASSUME IndInv, [Next]_vars
               PROVE  IndInv'
    OBVIOUS
  <1>1. CASE Next
    <2>1. PICK t \in Threads : ThreadStep(t)
      BY <1>1 DEF Next, ThreadStep, Threads
    <2> QED
      BY <2>1, TypeStep, LockStep, MessageStep, OwnerStep, TokensStep, ListStep
         DEF IndInv, ThreadStep
  <1>2. CASE UNCHANGED vars
    <2> USE <1>2 DEF vars, IndInv
    <2>1. TypeOK' /\ LockInv' /\ MessageInv' /\ NoMessagePassingError'
      BY DEF TypeOK, LockInv, MessageInv, NoMessagePassingError
    <2>2. OneOwner'
      BY DEF OneOwner, HeldBy, Linked
    <2>3. TokensMatchMessages'
      BY DEF TokensMatchMessages, Claiming, Unsignalled
    <2>4. ListInv'
      BY DEF ListInv, ListIntact, ListInvAt, WellLinked, HalfAppended, FirstOK,
             LastOK, LinksOK
    <2> QED
      BY <2>1, <2>2, <2>3, <2>4
  <1> QED
    BY <1>1, <1>2

\* The inductive invariant holds of every reachable state of the queue.
THEOREM IndInvHolds == Spec => []IndInv
  BY IndInvInit, IndInvNext, PTL DEF Spec

\* put and get (message.c:174-260) keep every pointer and semaphore in its
\* type; the list lock in particular never exceeds 1.
THEOREM TypeCorrect == Spec => []TypeOK
  <1>1. IndInv => TypeOK
    BY DEF IndInv
  <1> QED
    BY <1>1, IndInvHolds, PTL

\* Whenever the list lock is free, first, last and the next pointers describe
\* exactly the messages put and not yet got.
THEOREM ListAlwaysIntact == Spec => []ListIntact
  <1>1. IndInv => ListIntact
    BY DEF IndInv, ListInv
  <1> QED
    BY <1>1, IndInvHolds, PTL

\* No message leaks, is released twice or reaches two receivers.
THEOREM OneOwnerHolds == Spec => []OneOwner
  <1>1. IndInv => OneOwner
    BY DEF IndInv
  <1> QED
    BY <1>1, IndInvHolds, PTL

\* The counting semaphore always agrees with the list.
THEOREM TokensHold == Spec => []TokensMatchMessages
  <1>1. IndInv => TokensMatchMessages
    BY DEF IndInv
  <1> QED
    BY <1>1, IndInvHolds, PTL

\* The ACTOR_ERROR_MESSAGE_PASSING branch of get is unreachable.
THEOREM NeverMessagePassingError == Spec => []NoMessagePassingError
  <1>1. IndInv => NoMessagePassingError
    BY DEF IndInv
  <1> QED
    BY <1>1, IndInvHolds, PTL

\* A get times out only when no message is left for it.
THEOREM TimeoutsJustified == Spec => TimeoutJustified
  <1> DEFINE A == \A t \in Receivers :
                    pc[t] = "get_wait" /\ pc'[t] = "idle"
                      => Len(chain) = Cardinality(Claiming)
                                        + Cardinality(Unsignalled)
  <1>1. IndInv /\ [Next]_vars => [A]_vars
    <2> SUFFICES ASSUME IndInv, Next, NEW t \in Receivers,
                        pc[t] = "get_wait", pc'[t] = "idle"
                 PROVE  Len(chain) = Cardinality(Claiming)
                                       + Cardinality(Unsignalled)
      OBVIOUS
    <2>1. t \in Threads /\ pc \in [Threads -> Points]
      BY DEF Threads, IndInv, TypeOK
    <2>2. PICK u \in Threads : ThreadStep(u)
      BY DEF Next, ThreadStep, Threads
    <2>3. \E from, to : pc[u] = from /\ pc' = [pc EXCEPT ![u] = to]
      BY <2>2 DEF ThreadStep, PutStep, GetStep, Goto, Create, PutWait, PutTest,
         PutFirst, PutLink, PutLast, PutSignal, PutUnlock, GetCall, GetWait,
         GetTimeout, GetLock, GetRead, GetAdvance, GetLast, GetUnlock,
         GetDetach, Release
    <2>4. u = t
      BY <2>1, <2>3
    <2>5. GetTimeout(t)
      BY <2>1, <2>2, <2>4
         DEF ThreadStep, PutStep, GetStep, Goto, Create, PutWait, PutTest,
             PutFirst, PutLink, PutLast, PutSignal, PutUnlock, GetCall,
             GetWait, GetLock, GetRead, GetAdvance, GetLast, GetUnlock,
             GetDetach, Release
    <2>6. semaphore_messages = 0
      BY <2>5 DEF GetTimeout
    <2>7. IsFiniteSet(Claiming) /\ IsFiniteSet(Unsignalled)
      BY FiniteThreads, FS_Subset DEF Claiming, Unsignalled
    <2>8. Cardinality(Claiming) \in Nat /\ Cardinality(Unsignalled) \in Nat
      BY <2>7, FS_CardinalityType
    <2> QED
      BY <2>6, <2>8 DEF IndInv, TokensMatchMessages
  <1> QED
    BY <1>1, IndInvHolds, PTL DEF Spec, TimeoutJustified
-----------------------------------------------------------------------------
(* The queue implements the mailbox: linking a message is Put, unlinking   *)
(* it is Get, create and release are Obtain and Dispose, and every other   *)
(* step is invisible.                                                      *)

\* The empty queue is the empty mailbox.
LEMMA MailboxInitially == Init => MB!MailboxInit
  BY DEF Init, MB!MailboxInit, MB!Threads, HeldBy, Threads

\* The abstract function of messages in hand changes where HeldBy does.
LEMMA HeldChange ==
  ASSUME NEW t \in Threads, NEW m, HeldBy(t)' = m,
         \A u \in Threads : u # t => HeldBy(u)' = HeldBy(u)
  PROVE  [u \in Threads |-> HeldBy(u)]' =
           [[u \in Threads |-> HeldBy(u)] EXCEPT ![t] = m]
  OBVIOUS

\* Every step of the queue is a step of the mailbox or invisible.
LEMMA MailboxStep ==
  ASSUME IndInv, Next
  PROVE  [MB!MailboxNext]_(MB!mailboxVars)
  <1> USE DEF IndInv, Goto, listVars
  <1>0. MB!Threads = Threads
    BY DEF MB!Threads, Threads
  <1>1. ASSUME NEW t \in Senders, NEW m \in Messages, Create(t, m)
        PROVE  MB!Obtain(t, m)
    <2>1. t \in Threads
      BY DEF Threads
    <2>2. HeldBy(t) = NULL /\ HeldBy(t)' = m
      BY <1>1, <2>1 DEF Create, HeldBy, MessageInv, TypeOK
    <2>3. \A u \in Threads : u # t => HeldBy(u)' = HeldBy(u)
      BY <1>1, <2>1 DEF Create, HeldBy, TypeOK
    <2>4. m \notin Linked \union {HeldBy(u) : u \in Threads}
      BY <1>1, NullAssumption DEF Create, OneOwner
    <2>5. chain' = chain
      BY <1>1 DEF Create
    <2>6. [u \in Threads |-> HeldBy(u)]' =
            [[u \in Threads |-> HeldBy(u)] EXCEPT ![t] = m]
      BY <2>1, <2>2, <2>3, HeldChange
    <2> QED
      BY <1>0, <2>1, <2>2, <2>4, <2>5, <2>6
         DEF MB!Obtain, MB!Queued, MB!Owned, Linked
  <1>2. ASSUME NEW t \in Senders, PutFirst(t) \/ PutLast(t)
        PROVE  MB!Put(t)
    <2>1. t \in Threads
      BY DEF Threads
    <2>2. HeldBy(t) = message[t] /\ message[t] # NULL /\ HeldBy(t)' = NULL
      BY <1>2, <2>1, NullAssumption
         DEF PutFirst, PutLast, HeldBy, MessageInv, TypeOK
    <2>3. \A u \in Threads : u # t => HeldBy(u)' = HeldBy(u)
      BY <1>2, <2>1 DEF PutFirst, PutLast, HeldBy, TypeOK
    <2>4. chain' = Append(chain, HeldBy(t))
      BY <1>2, <2>2 DEF PutFirst, PutLast
    <2>5. [u \in Threads |-> HeldBy(u)]' =
            [[u \in Threads |-> HeldBy(u)] EXCEPT ![t] = NULL]
      BY <2>1, <2>2, <2>3, HeldChange
    <2> QED
      BY <1>0, <2>1, <2>2, <2>4, <2>5 DEF MB!Put
  <1>3. ASSUME NEW t \in Receivers, GetAdvance(t)
        PROVE  MB!Get(t)
    <2>1. t \in Threads
      BY DEF Threads
    <2>2. chain # <<>> /\ message[t] = chain[1] /\ chain \in Seq(Messages)
      BY <1>3, <2>1 DEF GetAdvance, ListInv, ListInvAt, TypeOK
    <2>3. HeldBy(t) = NULL /\ HeldBy(t)' = Head(chain)
      BY <1>3, <2>1, <2>2 DEF GetAdvance, HeldBy, TypeOK
    <2>4. \A u \in Threads : u # t => HeldBy(u)' = HeldBy(u)
      BY <1>3, <2>1 DEF GetAdvance, HeldBy, TypeOK
    <2>5. chain' = Tail(chain)
      BY <1>3 DEF GetAdvance
    <2>6. [u \in Threads |-> HeldBy(u)]' =
            [[u \in Threads |-> HeldBy(u)] EXCEPT ![t] = Head(chain)]
      BY <2>1, <2>3, <2>4, HeldChange
    <2> QED
      BY <1>0, <2>1, <2>2, <2>3, <2>5, <2>6 DEF MB!Get
  <1>4. ASSUME NEW t \in Receivers, Release(t)
        PROVE  MB!Dispose(t)
    <2>1. t \in Threads
      BY DEF Threads
    <2>2. HeldBy(t) # NULL /\ HeldBy(t)' = NULL
      BY <1>4, <2>1, NullAssumption DEF Release, HeldBy, MessageInv, TypeOK
    <2>3. \A u \in Threads : u # t => HeldBy(u)' = HeldBy(u)
      BY <1>4, <2>1 DEF Release, HeldBy, TypeOK
    <2>4. chain' = chain
      BY <1>4 DEF Release
    <2>5. [u \in Threads |-> HeldBy(u)]' =
            [[u \in Threads |-> HeldBy(u)] EXCEPT ![t] = NULL]
      BY <2>1, <2>2, <2>3, HeldChange
    <2> QED
      BY <1>0, <2>1, <2>2, <2>4, <2>5 DEF MB!Dispose
  <1>5. ASSUME NEW t \in Threads,
               \/ PutWait(t) \/ PutTest(t) \/ PutLink(t) \/ PutSignal(t)
               \/ PutUnlock(t) \/ GetCall(t) \/ GetWait(t) \/ GetTimeout(t)
               \/ GetLock(t) \/ GetRead(t) \/ GetLast(t) \/ GetUnlock(t)
               \/ GetDetach(t)
        PROVE  UNCHANGED MB!mailboxVars
    <2>1. /\ chain' = chain
          /\ \A u \in Threads : u # t => HeldBy(u)' = HeldBy(u)
      BY <1>5
         DEF PutWait, PutTest, PutLink, PutSignal, PutUnlock, GetCall, GetWait,
             GetTimeout, GetLock, GetRead, GetLast, GetUnlock, GetDetach,
             HeldBy, TypeOK
    <2>2. HeldBy(t)' = HeldBy(t)
      <3>1. CASE GetRead(t)
        <4>1. first # NULL
          BY <3>1, NonEmptyAtRead, NullAssumption DEF GetRead
        <4> QED
          BY <3>1, <4>1 DEF GetRead, HeldBy, TypeOK, MessageInv
      <3>2. CASE PutWait(t) \/ PutTest(t) \/ PutLink(t) \/ PutSignal(t)
                   \/ PutUnlock(t)
        BY <3>2 DEF PutWait, PutTest, PutLink, PutSignal, PutUnlock, HeldBy,
                    TypeOK
      <3>3. CASE GetCall(t) \/ GetWait(t) \/ GetTimeout(t) \/ GetLock(t)
        BY <3>3 DEF GetCall, GetWait, GetTimeout, GetLock, HeldBy, TypeOK,
                    MessageInv
      <3>4. CASE GetLast(t) \/ GetUnlock(t) \/ GetDetach(t)
        BY <3>4 DEF GetLast, GetUnlock, GetDetach, HeldBy, TypeOK, MessageInv,
                    NoMessagePassingError
      <3> QED
        BY <1>5, <3>1, <3>2, <3>3, <3>4
    <2>3. [u \in Threads |-> HeldBy(u)]' = [u \in Threads |-> HeldBy(u)]
      BY <2>1, <2>2
    <2> QED
      BY <2>1, <2>3 DEF MB!mailboxVars
  <1> QED
    BY <1>1, <1>2, <1>3, <1>4, <1>5
       DEF Next, PutStep, GetStep, Threads, MB!MailboxNext

\* Every behaviour of the list, its semaphores and its threads is a behaviour
\* of the first-in first-out mailbox.
THEOREM QueueImplementsMailbox == Spec => ImplementsMailbox
  <1>1. IndInv /\ [Next]_vars => [MB!MailboxNext]_(MB!mailboxVars)
    <2>1. ASSUME UNCHANGED vars
          PROVE  UNCHANGED MB!mailboxVars
      BY <2>1 DEF vars, MB!mailboxVars, HeldBy
    <2> QED
      BY <2>1, MailboxStep
  <1> QED
    BY <1>1, MailboxInitially, IndInvHolds, PTL
       DEF Spec, ImplementsMailbox, MB!MailboxSpec
=============================================================================
