-------------------------- MODULE HandshakeProofs ---------------------------
(***************************************************************************)
(* Proofs about Handshake, for every set of calls, nodes, ids and keys and *)
(* every size of the table.                                                *)
(***************************************************************************)
EXTENDS Handshake, TLAPS

(***************************************************************************)
(* The inductive invariant.  What stands is right because of how each call *)
(* came to where it is: the parts follow a call from its socket to the     *)
(* entry it sets.                                                          *)
(***************************************************************************)

\* A call that has begun has a node and a key, one that has not has nothing.
CallInv ==
  \A c \in Calls :
    IF pc[c] = "idle" THEN on[c] = NULL /\ peer[c] = NULL
                      ELSE on[c] \in Nodes /\ key[c] \in Keys

\* A socket leads to a call of the other kind that has begun; a server has
\* accepted a call that leads to it.
PeerInv ==
  /\ \A c \in Clients : peer[c] # NULL => peer[c] \in Servers
  /\ \A s \in Servers :
       /\ pc[s] # "send_key"
       /\ pc[s] = "accept" => peer[s] = NULL
       /\ peer[s] # NULL => peer[s] \in Clients /\ peer[peer[s]] = s
  /\ \A c \in Calls :
       /\ peer[c] # NULL => pc[peer[c]] # "idle"
       /\ pc[c] \notin {"idle", "accept", "failed"} => peer[c] # NULL

\* A server that has sent anything, or is about to, has been given the key of
\* the client.
KeyInv ==
  \A s \in Servers :
    pc[s] \in {"send_id", "recv_id", "check", "start", "set", "done"}
        \/ sent[s] # {}
      => peer[s] # NULL /\ key[peer[s]] = key[s]

\* A call that has received an id and passed the check.
Received(c) == pc[c] \in {"check", "start", "set", "done"}
Checked(c) == pc[c] \in {"start", "set", "done"}

AgreeInv ==
  \A c \in Calls :
    /\ Received(c) =>
         /\ peer[c] # NULL /\ peer[peer[c]] = c
         /\ key[c] = key[peer[c]]
         /\ node_id[c] = id[on[peer[c]]]
    /\ Checked(c) => node_id[c] # id[on[c]]

\* A connection stands only once its call has started it.
UpInv == \A c \in up : pc[c] \in {"set", "done"}

\* Two calls that start or have started a side for the same place.
SamePlace(c, u) == on[c] = on[u] /\ node_id[c] = node_id[u]

Starting(c) == pc[c] \in {"start", "set"}

OneStarts ==
  \A c, u \in Calls :
    Starting(c) /\ Starting(u) /\ SamePlace(c, u) => c = u

FreeForStarting ==
  \A c \in Calls : Starting(c) /\ node_id[c] < MaxRemote => Entry(c) = NULL

EntryOfDone ==
  \A c \in up : pc[c] = "done" /\ node_id[c] < MaxRemote => Entry(c) = c

EntryOfUp ==
  \A n \in Nodes : \A i \in 0 .. MaxRemote - 1 :
    remote_nodes[n][i] # NULL =>
      /\ remote_nodes[n][i] \in up
      /\ on[remote_nodes[n][i]] = n
      /\ node_id[remote_nodes[n][i]] = i

\* As long as there was no race: one call at a time is on its way to a place,
\* and the place is free; a connection that is not is the one its place names.
EntryInv ==
  races = {} => OneStarts /\ FreeForStarting /\ EntryOfDone /\ EntryOfUp

IndInv ==
  /\ TypeOK
  /\ CallInv
  /\ PeerInv
  /\ KeyInv
  /\ AgreeInv
  /\ UpInv
  /\ EntryInv
-----------------------------------------------------------------------------
(* Every step keeps the inductive invariant: one lemma for each part.      *)

\* Where a call goes to, it may be, unless it is past a check it has not made.
LEMMA PointStep ==
  ASSUME TypeOK, NEW c \in Calls, NEW to \in Points,
         pc' = [pc EXCEPT ![c] = to],
         node_id' = node_id,
         Checked(c)' => node_id[c] < MaxRemote \/ Beyond(c)
  PROVE  /\ pc' \in [Calls -> Points]
         /\ \A u \in Calls : Checked(u)' => node_id'[u] < MaxRemote \/ Beyond(u)'
  BY DEF TypeOK, Checked, Beyond

\* Types: the place of an entry that is set is in the table or just behind it.
LEMMA TypeStep ==
  ASSUME IndInv, Next
  PROVE  TypeOK'
  <1> USE DEF IndInv, Goto, Fail, callVars, talkVars, tableVars
  <1>t. \A c \in Calls : Checked(c) => node_id[c] < MaxRemote \/ Beyond(c)
    BY DEF TypeOK, Checked
  <1>p. Points = {"idle", "accept", "send_key", "recv_key", "send_id", "recv_id",
                  "check", "start", "set", "done", "failed"}
    BY DEF Points
  <1>c. Clients \subseteq Calls /\ Servers \subseteq Calls
    BY DEF Calls
  <1>0. ASSUME NEW c \in Calls, NEW to \in Points,
               pc' = [pc EXCEPT ![c] = to],
               node_id' = node_id,
               to \notin {"start", "set", "done"} \/ Checked(c),
               UNCHANGED <<id, remote_nodes, on, key, peer, sent, up>>,
               closed' \in {closed, closed \union {c}},
               races' = races
        PROVE  TypeOK'
    <2>1. Checked(c)' => node_id[c] < MaxRemote \/ Beyond(c)
      BY <1>t, <1>0 DEF Checked, TypeOK
    <2>2. /\ pc' \in [Calls -> Points]
          /\ \A u \in Calls :
               Checked(u)' => node_id'[u] < MaxRemote \/ Beyond(u)'
      BY <1>0, <2>1, PointStep
    <2> QED
      BY <1>0, <2>2 DEF TypeOK, Checked
  <1>1. ASSUME NEW c \in Clients, NEW s \in Servers, NEW n \in Nodes,
               NEW k \in Keys, Connect(c, s, n, k)
        PROVE  TypeOK'
    BY <1>1, <1>c, <1>p DEF Connect, Call, TypeOK, Beyond
  <1>2. ASSUME NEW s \in Servers, NEW n \in Nodes, NEW k \in Keys,
               Listen(s, n, k)
        PROVE  TypeOK'
    BY <1>2, <1>c, <1>p DEF Listen, Call, TypeOK, Beyond
  <1>3. ASSUME NEW c \in Clients, NEW s \in Servers, Accept(s, c)
        PROVE  TypeOK'
    BY <1>3, <1>c, <1>p DEF Accept, TypeOK, Beyond
  <1>4. ASSUME NEW c \in Calls, SendKey(c) \/ SendId(c)
        PROVE  TypeOK'
    <2>1. sent' \in [Calls -> SUBSET {"key", "id"}]
      BY <1>4 DEF SendKey, SendId, Send, TypeOK
    <2> QED
      BY <1>4, <1>p, <2>1 DEF SendKey, SendId, Send, TypeOK, Beyond
  <1>5. ASSUME NEW c \in Calls, ReceiveKey(c) \/ WrongKey(c) \/ TalkFails(c)
        PROVE  TypeOK'
    BY <1>0, <1>5, <1>p DEF ReceiveKey, WrongKey, TalkFails
  <1>6. ASSUME NEW c \in Calls, ReceiveId(c)
        PROVE  TypeOK'
    <2>1. peer[c] \in Calls /\ peer[c] # NULL
      BY <1>6 DEF ReceiveId, PeerInv, TypeOK
    <2>2. pc[peer[c]] # "idle"
      BY <2>1, <1>6 DEF ReceiveId, PeerInv
    <2>3. id[on[peer[c]]] \in Ids
      BY <2>1, <2>2 DEF CallInv, TypeOK
    <2> QED
      BY <1>6, <1>p, <2>3 DEF ReceiveId, TypeOK, Beyond
  <1>7. ASSUME NEW c \in Calls, Check(c)
        PROVE  TypeOK'
    <2>1. node_id[c] < MaxRemote \/ Beyond(c)
      BY <1>7 DEF Check, Acceptable
    <2>2. races' \subseteq {"overlap", "late", "unspawned"}
      BY <1>7 DEF Check, TypeOK
    <2>3. /\ pc' \in [Calls -> Points]
          /\ \A u \in Calls :
               Checked(u)' => node_id'[u] < MaxRemote \/ Beyond(u)'
      BY <1>7, <1>p, <2>1, PointStep DEF Check
    <2> QED
      BY <1>7, <2>2, <2>3 DEF Check, TypeOK, Checked
  <1>8. ASSUME NEW c \in Calls, CheckFails(c) \/ StartFails(c)
        PROVE  TypeOK'
    BY <1>0, <1>8, <1>p DEF CheckFails, StartFails
  <1>9. ASSUME NEW c \in Calls, Start(c)
        PROVE  TypeOK'
    BY <1>9, <1>p DEF Start, TypeOK, Beyond
  <1>12. ASSUME NEW c \in Calls, Restart(c) \/ RestartFails(c)
         PROVE  TypeOK'
    <2>1. remote_nodes' \in [Nodes -> [Indices -> Calls \union {NULL}]]
      <3>1. CASE Restart(c)
        BY <3>1 DEF Restart, TypeOK
      <3>2. CASE RestartFails(c)
        BY <3>2 DEF RestartFails, TypeOK
      <3> QED
        BY <1>12, <3>1, <3>2
    <2>2. races' \subseteq {"overlap", "late", "unspawned"}
      BY <1>12 DEF Restart, RestartFails, TypeOK
    <2> QED
      BY <1>12, <2>1, <2>2 DEF Restart, RestartFails, TypeOK, Beyond
  <1>10. ASSUME NEW c \in Calls, SetEntry(c) \/ End(c)
         PROVE  TypeOK'
    <2>1. pc[c] \in {"set", "done"}
      BY <1>10 DEF SetEntry, End, UpInv
    <2>2. remote_nodes' \in [Nodes -> [Indices -> Calls \union {NULL}]]
      BY <1>10 DEF SetEntry, End, TypeOK
    <2>3. races' \subseteq {"overlap", "late", "unspawned"}
      BY <1>10 DEF SetEntry, End, TypeOK
    <2>4. /\ pc' \in [Calls -> Points]
          /\ \A u \in Calls :
               Checked(u)' => node_id'[u] < MaxRemote \/ Beyond(u)'
      BY <1>10, <1>p, <1>t, <2>1 DEF SetEntry, End, TypeOK, Beyond, Checked
    <2> QED
      BY <1>10, <2>2, <2>3, <2>4 DEF SetEntry, End, TypeOK, Checked
  <1>11. ASSUME NEW n \in Nodes, Crash(n)
         PROVE  TypeOK'
    <2>1. remote_nodes' \in [Nodes -> [Indices -> Calls \union {NULL}]]
      BY <1>11 DEF Crash, TypeOK
    <2> QED
      BY <1>11, <1>p, <2>1 DEF Crash, TypeOK, Beyond
  <1> QED
    BY <1>1, <1>2, <1>3, <1>4, <1>5, <1>6, <1>7, <1>8, <1>9, <1>10, <1>11, <1>12
       DEF Next, CallStep

\* Sockets: a node and a key come with the first step, and a socket is led to
\* one peer for good.
LEMMA SocketStep ==
  ASSUME IndInv, Next
  PROVE  CallInv' /\ PeerInv'
  <1> USE HandshakeAssumption
      DEF IndInv, Goto, Fail, callVars, talkVars, tableVars, TypeOK, CallInv,
          PeerInv, Calls
  <1>1. ASSUME NEW c \in Clients, NEW s \in Servers, NEW n \in Nodes,
               NEW k \in Keys, Connect(c, s, n, k)
        PROVE  CallInv' /\ PeerInv'
    BY <1>1 DEF Connect, Call
  <1>2. ASSUME NEW s \in Servers, NEW n \in Nodes, NEW k \in Keys,
               Listen(s, n, k)
        PROVE  CallInv' /\ PeerInv'
    BY <1>2 DEF Listen, Call
  <1>3. ASSUME NEW c \in Clients, NEW s \in Servers, Accept(s, c)
        PROVE  CallInv' /\ PeerInv'
    BY <1>3 DEF Accept
  <1>4. ASSUME NEW c \in Calls, CallStep(c)
        PROVE  CallInv' /\ PeerInv'
    <2>1. /\ UNCHANGED <<on, key, peer>>
          /\ pc[c] \notin {"idle", "accept", "failed"}
          /\ \E to \in Points :
               /\ to \notin {"idle", "accept", "send_key"}
               /\ pc' = [pc EXCEPT ![c] = to]
      BY <1>4 DEF CallStep, SendKey, SendId, Send, ReceiveKey, WrongKey,
                  ReceiveId, TalkFails, Check, CheckFails, Start, StartFails,
                  SetEntry, Points
    <2>2. PICK to \in Points :
            /\ to \notin {"idle", "accept", "send_key"}
            /\ pc' = [pc EXCEPT ![c] = to]
      BY <2>1
    <2>3. \A u \in Calls :
            /\ pc'[u] = "idle" <=> pc[u] = "idle"
            /\ pc'[u] = "accept" <=> pc[u] = "accept"
            /\ pc'[u] = "send_key" => pc[u] = "send_key"
            /\ pc'[u] \notin {"idle", "accept", "failed"}
                 => pc[u] \notin {"idle", "accept", "failed"}
      BY <2>1, <2>2
    <2>4. CallInv'
      BY <2>1, <2>3
    <2>5. PeerInv'
      BY <2>1, <2>3
    <2> QED
      BY <2>4, <2>5
  <1>5. ASSUME NEW c \in Calls, Restart(c) \/ RestartFails(c) \/ End(c)
        PROVE  CallInv' /\ PeerInv'
    BY <1>5 DEF Restart, RestartFails, End
  <1>6. ASSUME NEW n \in Nodes, Crash(n)
        PROVE  CallInv' /\ PeerInv'
    BY <1>6 DEF Crash
  <1> QED
    BY <1>1, <1>2, <1>3, <1>4, <1>5, <1>6 DEF Next

\* Keys: only a server that has compared the keys sends.
LEMMA KeyStep ==
  ASSUME IndInv, Next
  PROVE  KeyInv'
  <1> USE HandshakeAssumption
      DEF IndInv, Goto, Fail, callVars, talkVars, tableVars, TypeOK, KeyInv, Calls
  <1>1. ASSUME NEW c \in Clients, NEW s \in Servers, NEW n \in Nodes,
               NEW k \in Keys, Connect(c, s, n, k)
        PROVE  KeyInv'
    BY <1>1 DEF Connect, Call, PeerInv
  <1>2. ASSUME NEW s \in Servers, NEW n \in Nodes, NEW k \in Keys,
               Listen(s, n, k)
        PROVE  KeyInv'
    BY <1>2 DEF Listen, Call, PeerInv, CallInv
  <1>3. ASSUME NEW c \in Clients, NEW s \in Servers, Accept(s, c)
        PROVE  KeyInv'
    BY <1>3 DEF Accept, PeerInv
  <1>4. ASSUME NEW c \in Calls, SendKey(c) \/ SendId(c)
        PROVE  KeyInv'
    BY <1>4 DEF SendKey, SendId, Send, PeerInv
  <1>5. ASSUME NEW c \in Calls, ReceiveKey(c)
        PROVE  KeyInv'
    BY <1>5 DEF ReceiveKey, PeerInv
  <1>6. ASSUME NEW c \in Calls, WrongKey(c) \/ TalkFails(c) \/ ReceiveId(c)
        PROVE  KeyInv'
    BY <1>6 DEF WrongKey, TalkFails, ReceiveId
  <1>7. ASSUME NEW c \in Calls,
               \/ Check(c) \/ CheckFails(c) \/ Start(c) \/ StartFails(c)
               \/ SetEntry(c) \/ Restart(c) \/ RestartFails(c) \/ End(c)
        PROVE  KeyInv'
    BY <1>7 DEF Check, CheckFails, Start, StartFails, SetEntry, Restart,
                RestartFails, End
  <1>8. ASSUME NEW n \in Nodes, Crash(n)
        PROVE  KeyInv'
    BY <1>8 DEF Crash
  <1> QED
    BY <1>1, <1>2, <1>3, <1>4, <1>5, <1>6, <1>7, <1>8 DEF Next, CallStep

\* Agreement: an id comes from the call at the other end, which has sent it
\* only after the keys were found equal.
LEMMA AgreeStep ==
  ASSUME IndInv, Next
  PROVE  AgreeInv'
  <1> USE HandshakeAssumption
      DEF IndInv, Goto, Fail, callVars, talkVars, tableVars, TypeOK, AgreeInv,
          Received, Checked, Calls
  <1>1. ASSUME NEW c \in Clients, NEW s \in Servers, NEW n \in Nodes,
               NEW k \in Keys, Connect(c, s, n, k)
        PROVE  AgreeInv'
    BY <1>1 DEF Connect, Call, CallInv, PeerInv
  <1>2. ASSUME NEW s \in Servers, NEW n \in Nodes, NEW k \in Keys,
               Listen(s, n, k)
        PROVE  AgreeInv'
    BY <1>2 DEF Listen, Call, CallInv, PeerInv
  <1>3. ASSUME NEW c \in Clients, NEW s \in Servers, Accept(s, c)
        PROVE  AgreeInv'
    BY <1>3 DEF Accept, PeerInv
  <1>4. ASSUME NEW c \in Calls, SendKey(c) \/ SendId(c) \/ ReceiveKey(c)
        PROVE  AgreeInv'
    BY <1>4 DEF SendKey, SendId, Send, ReceiveKey
  <1>5. ASSUME NEW c \in Calls, WrongKey(c) \/ TalkFails(c)
        PROVE  AgreeInv'
    BY <1>5 DEF WrongKey, TalkFails
  <1>6. ASSUME NEW c \in Calls, ReceiveId(c)
        PROVE  AgreeInv'
    <2>1. peer[c] # NULL /\ peer[peer[c]] = c /\ sent[peer[c]] # {}
      BY <1>6 DEF ReceiveId, Arrived, PeerInv
    <2>2. key[c] = key[peer[c]]
      BY <2>1, <1>6 DEF ReceiveId, KeyInv, PeerInv
    <2> QED
      BY <1>6, <2>1, <2>2 DEF ReceiveId
  <1>7. ASSUME NEW c \in Calls, Check(c) \/ CheckFails(c)
        PROVE  AgreeInv'
    BY <1>7 DEF Check, CheckFails, Acceptable
  <1>8. ASSUME NEW c \in Calls,
               \/ Start(c) \/ StartFails(c) \/ SetEntry(c)
               \/ Restart(c) \/ RestartFails(c) \/ End(c)
        PROVE  AgreeInv'
    BY <1>8 DEF Start, StartFails, SetEntry, Restart, RestartFails, End
  <1>9. ASSUME NEW n \in Nodes, Crash(n)
        PROVE  AgreeInv'
    BY <1>9 DEF Crash
  <1> QED
    BY <1>1, <1>2, <1>3, <1>4, <1>5, <1>6, <1>7, <1>8, <1>9 DEF Next, CallStep

\* What stands has been started and not yet ended.
LEMMA UpStep ==
  ASSUME IndInv, Next
  PROVE  UpInv'
  <1> USE HandshakeAssumption
      DEF IndInv, Goto, Fail, callVars, talkVars, tableVars, TypeOK, UpInv, Calls
  <1>1. ASSUME NEW c \in Clients, NEW s \in Servers, NEW n \in Nodes,
               NEW k \in Keys, Connect(c, s, n, k)
        PROVE  UpInv'
    BY <1>1 DEF Connect
  <1>2. ASSUME NEW s \in Servers, NEW n \in Nodes, NEW k \in Keys,
               Listen(s, n, k)
        PROVE  UpInv'
    BY <1>2 DEF Listen
  <1>3. ASSUME NEW c \in Clients, NEW s \in Servers, Accept(s, c)
        PROVE  UpInv'
    BY <1>3 DEF Accept
  <1>4. ASSUME NEW c \in Calls, CallStep(c)
        PROVE  UpInv'
    BY <1>4 DEF CallStep, SendKey, SendId, Send, ReceiveKey, WrongKey,
                ReceiveId, TalkFails, Check, CheckFails, Start, StartFails,
                SetEntry
  <1>5. ASSUME NEW c \in Calls, Restart(c) \/ RestartFails(c) \/ End(c)
        PROVE  UpInv'
    BY <1>5 DEF Restart, RestartFails, End
  <1>6. ASSUME NEW n \in Nodes, Crash(n)
        PROVE  UpInv'
    BY <1>6 DEF Crash
  <1> QED
    BY <1>1, <1>2, <1>3, <1>4, <1>5, <1>6 DEF Next

\* Entries: a step of one call changes the entry of its own place at most.
LEMMA EntryStep ==
  ASSUME IndInv, Next
  PROVE  EntryInv'
  <1> SUFFICES ASSUME races' = {}
               PROVE  (OneStarts /\ FreeForStarting /\ EntryOfDone /\ EntryOfUp)'
    BY DEF EntryInv
  <1> USE HandshakeAssumption
      DEF IndInv, Goto, Fail, callVars, talkVars, tableVars, Entry, SamePlace,
          Starting
  <1>0. /\ races = {}
        /\ OneStarts /\ FreeForStarting /\ EntryOfDone /\ EntryOfUp
    <2>1. races \subseteq races'
      BY DEF Next, CallStep, Connect, Listen, Accept, SendKey, SendId, Send,
             ReceiveKey, WrongKey, ReceiveId, TalkFails, Check, CheckFails,
             Start, StartFails, SetEntry, Restart, RestartFails, End, Crash
    <2> QED
      BY <2>1 DEF EntryInv
  <1>p. \A c \in Calls : Checked(c) =>
          /\ on[c] \in Nodes
          /\ node_id[c] \in Indices
          /\ node_id[c] < MaxRemote => node_id[c] \in 0 .. MaxRemote - 1
    <2> SUFFICES ASSUME NEW c \in Calls, Checked(c)
                 PROVE  /\ on[c] \in Nodes
                        /\ node_id[c] \in Indices
                        /\ node_id[c] < MaxRemote
                             => node_id[c] \in 0 .. MaxRemote - 1
      OBVIOUS
    <2>1. on[c] \in Nodes
      BY DEF Checked, CallInv
    <2>2. peer[c] \in Calls /\ pc[peer[c]] # "idle"
      BY DEF Checked, Received, AgreeInv, PeerInv, TypeOK
    <2>3. node_id[c] \in Ids
      BY <2>2 DEF Checked, Received, AgreeInv, CallInv, TypeOK
    <2>4. node_id[c] < MaxRemote \/ node_id[c] = MaxRemote
      BY DEF TypeOK, Checked, Beyond
    <2>5. node_id[c] \in Nat /\ MaxRemote \in Nat
      BY <2>3
    <2> QED
      BY <2>1, <2>4, <2>5 DEF Indices
  <1>u. \A c \in up : c \in Calls /\ pc[c] \in {"set", "done"}
    BY DEF UpInv, TypeOK
  <1>1. ASSUME UNCHANGED <<remote_nodes, up>>,
               \A c \in Calls :
                 /\ pc'[c] = "done" <=> pc[c] = "done"
                 /\ pc[c] # "idle" => on'[c] = on[c]
                 /\ Starting(c) \/ c \in up => node_id'[c] = node_id[c]
                 /\ Starting(c)' => Starting(c)
        PROVE  (OneStarts /\ FreeForStarting /\ EntryOfDone /\ EntryOfUp)'
    <2>1. \A c \in up : on'[c] = on[c] /\ node_id'[c] = node_id[c]
      BY <1>1 DEF UpInv, TypeOK
    <2>2. OneStarts' /\ FreeForStarting'
      BY <1>0, <1>1 DEF OneStarts, FreeForStarting
    <2>3. EntryOfDone'
      BY <1>0, <1>1, <2>1 DEF EntryOfDone, TypeOK
    <2>4. EntryOfUp'
      BY <1>0, <1>1, <2>1 DEF EntryOfUp
    <2> QED
      BY <2>2, <2>3, <2>4
  <1>2. ASSUME NEW c \in Clients, NEW s \in Servers, NEW n \in Nodes,
               NEW k \in Keys, Connect(c, s, n, k)
        PROVE  (OneStarts /\ FreeForStarting /\ EntryOfDone /\ EntryOfUp)'
    BY <1>1, <1>2 DEF Connect, Call, TypeOK, Calls
  <1>3. ASSUME NEW s \in Servers, NEW n \in Nodes, NEW k \in Keys,
               Listen(s, n, k)
        PROVE  (OneStarts /\ FreeForStarting /\ EntryOfDone /\ EntryOfUp)'
    BY <1>1, <1>3 DEF Listen, Call, TypeOK, Calls
  <1>4. ASSUME NEW c \in Clients, NEW s \in Servers, Accept(s, c)
        PROVE  (OneStarts /\ FreeForStarting /\ EntryOfDone /\ EntryOfUp)'
    BY <1>1, <1>4 DEF Accept, TypeOK, Calls
  <1>5. ASSUME NEW c \in Calls,
               \/ SendKey(c) \/ SendId(c) \/ ReceiveKey(c) \/ WrongKey(c)
               \/ TalkFails(c) \/ CheckFails(c) \/ StartFails(c)
        PROVE  (OneStarts /\ FreeForStarting /\ EntryOfDone /\ EntryOfUp)'
    BY <1>1, <1>5 DEF SendKey, SendId, Send, ReceiveKey, WrongKey, TalkFails,
                      CheckFails, StartFails, TypeOK
  <1>6. ASSUME NEW c \in Calls, ReceiveId(c)
        PROVE  (OneStarts /\ FreeForStarting /\ EntryOfDone /\ EntryOfUp)'
    BY <1>1, <1>6 DEF ReceiveId, TypeOK, UpInv
  <1>7. ASSUME NEW c \in Calls, Check(c)
        PROVE  (OneStarts /\ FreeForStarting /\ EntryOfDone /\ EntryOfUp)'
    <2>1. ~ Overlaps(c)
      BY <1>0, <1>7 DEF Check
    <2>2. OneStarts'
      BY <1>0, <1>7, <2>1 DEF Check, OneStarts, Overlaps, TypeOK
    <2>3. node_id[c] < MaxRemote => Entry(c) = NULL
      BY <1>7 DEF Check, Acceptable, Beyond
    <2>4. FreeForStarting'
      BY <1>0, <1>7, <2>3 DEF Check, FreeForStarting, TypeOK
    <2>5. EntryOfDone' /\ EntryOfUp'
      BY <1>0, <1>7 DEF Check, EntryOfDone, EntryOfUp, TypeOK
    <2> QED
      BY <2>2, <2>4, <2>5
  <1>8. ASSUME NEW c \in Calls, Start(c)
        PROVE  (OneStarts /\ FreeForStarting /\ EntryOfDone /\ EntryOfUp)'
    BY <1>0, <1>8 DEF Start, OneStarts, FreeForStarting, EntryOfDone, EntryOfUp,
                      TypeOK
  <1>9. ASSUME NEW c \in Calls, SetEntry(c)
        PROVE  (OneStarts /\ FreeForStarting /\ EntryOfDone /\ EntryOfUp)'
    <2>1. /\ c \in up /\ pc[c] = "set"
          /\ up' = up /\ pc' = [pc EXCEPT ![c] = "done"]
          /\ UNCHANGED <<on, node_id>>
      BY <1>0, <1>9 DEF SetEntry
    <2>2. /\ on[c] \in Nodes /\ node_id[c] \in Indices
          /\ \A n \in Nodes : \A i \in Indices :
               remote_nodes'[n][i] =
                 IF n = on[c] /\ i = node_id[c] THEN c ELSE remote_nodes[n][i]
      BY <1>9, <1>p, <2>1 DEF SetEntry, Checked, TypeOK
    <2>3. OneStarts'
      BY <1>0, <2>1 DEF OneStarts, TypeOK
    <2>4. FreeForStarting'
      <3> SUFFICES ASSUME NEW u \in Calls, Starting(u)', node_id[u] < MaxRemote
                   PROVE  Entry(u)' = NULL
        BY <2>1 DEF FreeForStarting
      <3>1. Starting(u) /\ u # c
        BY <2>1 DEF TypeOK
      <3>2. ~ SamePlace(u, c) /\ Entry(u) = NULL
        BY <1>0, <2>1, <3>1 DEF OneStarts, FreeForStarting
      <3> QED
        BY <1>p, <2>1, <2>2, <3>1, <3>2 DEF Checked
    <2>5. EntryOfDone'
      <3> SUFFICES ASSUME NEW u \in up, pc'[u] = "done", node_id[u] < MaxRemote
                   PROVE  Entry(u)' = u
        BY <2>1 DEF EntryOfDone
      <3>1. CASE u = c
        BY <2>1, <2>2, <3>1
      <3>2. CASE u # c
        <4>1. pc[u] = "done" /\ Entry(u) = u /\ u # NULL
          BY <1>0, <1>u, <2>1, <3>2 DEF EntryOfDone, TypeOK
        <4>2. ~ SamePlace(u, c)
          BY <1>0, <1>u, <2>1, <4>1 DEF FreeForStarting
        <4> QED
          BY <1>p, <1>u, <2>1, <2>2, <4>1, <4>2 DEF Checked
      <3> QED
        BY <3>1, <3>2
    <2>6. EntryOfUp'
      BY <1>0, <2>1, <2>2 DEF EntryOfUp, Indices
    <2> QED
      BY <2>3, <2>4, <2>5, <2>6
  <1>12. ASSUME NEW c \in Calls, Restart(c)
         PROVE  (OneStarts /\ FreeForStarting /\ EntryOfDone /\ EntryOfUp)'
    <2>1. /\ c \in up /\ pc[c] = "done"
          /\ UNCHANGED <<on, pc, node_id, up>>
      BY <1>0, <1>12, <1>u DEF Restart
    <2>2. /\ on[c] \in Nodes /\ node_id[c] \in Indices
          /\ \A n \in Nodes : \A i \in Indices :
               remote_nodes'[n][i] =
                 IF n = on[c] /\ i = node_id[c] THEN c ELSE remote_nodes[n][i]
      BY <1>12, <1>p, <2>1 DEF Restart, Checked, TypeOK
    <2>3. node_id[c] < MaxRemote => Entry(c) = c
      BY <1>0, <2>1 DEF EntryOfDone
    <2>4. \A n \in Nodes : \A i \in Indices :
            i < MaxRemote => remote_nodes'[n][i] = remote_nodes[n][i]
      BY <2>2, <2>3
    <2>5. OneStarts' /\ FreeForStarting'
      BY <1>0, <1>p, <2>1, <2>4 DEF OneStarts, FreeForStarting, Checked
    <2>6. EntryOfDone'
      BY <1>0, <1>p, <1>u, <2>1, <2>4 DEF EntryOfDone, Checked
    <2>7. EntryOfUp'
      BY <1>0, <2>1, <2>4 DEF EntryOfUp, Indices
    <2> QED
      BY <2>5, <2>6, <2>7
  <1>13. ASSUME NEW c \in Calls, RestartFails(c)
         PROVE  FALSE
    BY <1>0, <1>13 DEF RestartFails
  <1>10. ASSUME NEW c \in Calls, End(c)
         PROVE  (OneStarts /\ FreeForStarting /\ EntryOfDone /\ EntryOfUp)'
    <2>1. /\ c \in up /\ pc[c] \in {"set", "done"}
          /\ up' = up \ {c}
          /\ UNCHANGED <<on, pc, node_id>>
      BY <1>10, <1>u DEF End
    <2>2. /\ on[c] \in Nodes /\ node_id[c] \in Indices
          /\ \A n \in Nodes : \A i \in Indices :
               remote_nodes'[n][i] =
                 IF n = on[c] /\ i = node_id[c] THEN NULL ELSE remote_nodes[n][i]
      BY <1>10, <1>p, <2>1 DEF End, Checked, TypeOK
    <2>3. OneStarts'
      BY <1>0, <2>1 DEF OneStarts
    <2>4. FreeForStarting'
      BY <1>0, <1>p, <2>1, <2>2 DEF FreeForStarting, Checked
    <2>5. EntryOfDone'
      <3> SUFFICES ASSUME NEW u \in up, u # c, pc[u] = "done",
                          node_id[u] < MaxRemote
                   PROVE  Entry(u)' = u
        BY <2>1 DEF EntryOfDone
      <3>1. Entry(u) = u /\ u # NULL
        BY <1>0, <1>u DEF EntryOfDone, Calls
      <3>2. ~ SamePlace(u, c)
        <4>1. CASE pc[c] = "set"
          BY <1>0, <1>u, <2>1, <3>1, <4>1 DEF FreeForStarting
        <4>2. CASE pc[c] = "done"
          BY <1>0, <2>1, <3>1, <4>2 DEF EntryOfDone
        <4> QED
          BY <2>1, <4>1, <4>2
      <3> QED
        BY <1>p, <1>u, <2>1, <2>2, <3>1, <3>2 DEF Checked
    <2>6. EntryOfUp'
      BY <1>0, <2>1, <2>2 DEF EntryOfUp, Indices
    <2> QED
      BY <2>3, <2>4, <2>5, <2>6
  <1>11. ASSUME NEW n \in Nodes, Crash(n)
         PROVE  (OneStarts /\ FreeForStarting /\ EntryOfDone /\ EntryOfUp)'
    <2>1. /\ UNCHANGED <<on, node_id>>
          /\ \A c \in Calls : IF on[c] = n THEN pc'[c] = "failed" /\ c \notin up'
                             ELSE pc'[c] = pc[c] /\ (c \in up' <=> c \in up)
          /\ up' \subseteq up
      BY <1>11 DEF Crash
    <2>2. \A m \in Nodes : \A i \in Indices :
            remote_nodes'[m][i] = IF m = n THEN NULL ELSE remote_nodes[m][i]
      BY <1>11 DEF Crash, TypeOK
    <2>3. OneStarts'
      BY <1>0, <2>1 DEF OneStarts
    <2>4. FreeForStarting'
      BY <1>0, <1>p, <2>1, <2>2 DEF FreeForStarting, Checked
    <2>5. EntryOfDone'
      BY <1>0, <1>p, <1>u, <2>1, <2>2 DEF EntryOfDone, Checked
    <2>6. EntryOfUp'
      BY <1>0, <1>u, <2>1, <2>2 DEF EntryOfUp, Indices
    <2> QED
      BY <2>3, <2>4, <2>5, <2>6
  <1> QED
    BY <1>2, <1>3, <1>4, <1>5, <1>6, <1>7, <1>8, <1>9, <1>10, <1>11, <1>12,
       <1>13
       DEF Next, CallStep
-----------------------------------------------------------------------------
(* The theorems.                                                           *)

LEMMA InitIndInv == Init => IndInv
  <1> SUFFICES ASSUME Init
               PROVE  IndInv
    OBVIOUS
  <1> USE HandshakeAssumption DEF Init
  <1>1. TypeOK
    BY DEF TypeOK, Points, Indices
  <1>2. CallInv /\ PeerInv /\ KeyInv
    BY DEF CallInv, PeerInv, KeyInv, Calls
  <1>3. AgreeInv /\ UpInv
    BY DEF AgreeInv, UpInv, Received, Checked
  <1>4. EntryInv
    BY DEF EntryInv, OneStarts, FreeForStarting, EntryOfDone, EntryOfUp,
           Starting, Indices
  <1> QED
    BY <1>1, <1>2, <1>3, <1>4 DEF IndInv

LEMMA NextIndInv == IndInv /\ [Next]_vars => IndInv'
  <1> SUFFICES ASSUME IndInv, [Next]_vars
               PROVE  IndInv'
    OBVIOUS
  <1>1. CASE Next
    BY <1>1, TypeStep, SocketStep, KeyStep, AgreeStep, UpStep, EntryStep
       DEF IndInv
  <1>2. CASE UNCHANGED vars
    <2> USE <1>2 DEF vars, callVars, talkVars, tableVars
    <2>1. TypeOK'
      BY DEF IndInv, TypeOK, Beyond
    <2>2. CallInv' /\ PeerInv' /\ KeyInv'
      BY DEF IndInv, CallInv, PeerInv, KeyInv
    <2>3. AgreeInv' /\ UpInv'
      BY DEF IndInv, AgreeInv, UpInv, Received, Checked
    <2>4. EntryInv'
      BY DEF IndInv, EntryInv, OneStarts, FreeForStarting, EntryOfDone,
             EntryOfUp, Starting, SamePlace, Entry
    <2> QED
      BY <2>1, <2>2, <2>3, <2>4 DEF IndInv
  <1> QED
    BY <1>1, <1>2

\* What the handshake has brought together at each point of a call holds in
\* every state (distributer.c:290-511).
THEOREM Invariance == Spec => []IndInv
  BY InitIndInv, NextIndInv, PTL DEF Spec

\* Every variable keeps its type; an entry is set inside the table or in the
\* place behind it that connect reaches (distributer.c:360, 494).
THEOREM TypeCorrect == Spec => []TypeOK
  <1>1. IndInv => TypeOK
    BY DEF IndInv
  <1> QED
    BY <1>1, Invariance, PTL

\* Only calls that have accepted each other and hold the same key make a
\* connection, and never one of a node to its own id (distributer.c:361, 466,
\* 495).
THEOREM StandsOnlyWithPeer == Spec => []StandsWithPeer
  <1>1. IndInv => StandsWithPeer
    BY DEF IndInv, TypeOK, StandsWithPeer, UpInv, AgreeInv, Received, Checked
  <1> QED
    BY <1>1, Invariance, PTL

\* Without a race, which a sender that cannot be started again is one of, a node
\* has one connection to an id of its table at most (distributer.c:193, 273, 360,
\* 494).
THEOREM OneConnectionHolds == Spec => []OneConnection
  <1>1. ASSUME IndInv
        PROVE  OneConnection
    <2> SUFFICES ASSUME races = {}, NEW c \in up, NEW u \in up,
                        SamePlace(c, u), node_id[c] < MaxRemote
                 PROVE  c = u
      BY DEF OneConnection, SamePlace
    <2>1. OneStarts /\ FreeForStarting /\ EntryOfDone
      BY <1>1 DEF IndInv, EntryInv
    <2>2. \A v \in up : v \in Calls /\ v # NULL /\ pc[v] \in {"set", "done"}
      BY <1>1, HandshakeAssumption DEF IndInv, UpInv, TypeOK
    <2>3. Entry(c) = Entry(u) /\ node_id[u] < MaxRemote
      BY DEF SamePlace, Entry
    <2>4. CASE pc[c] = "set" /\ pc[u] = "set"
      BY <2>1, <2>2, <2>4 DEF OneStarts, Starting
    <2>5. CASE pc[c] = "done" \/ pc[u] = "done"
      BY <2>1, <2>2, <2>3, <2>5 DEF FreeForStarting, EntryOfDone, Starting
    <2> QED
      BY <2>2, <2>4, <2>5
  <1> QED
    BY <1>1, Invariance, PTL

\* Without a race, every entry of a table is a connection of that node that
\* stands (distributer.c:213, 273).
THEOREM EntryStandsHolds == Spec => []EntryStands
  <1>1. IndInv => EntryStands
    BY DEF IndInv, EntryInv, EntryOfUp, EntryStands
  <1> QED
    BY <1>1, Invariance, PTL
=============================================================================
