----------------------------- MODULE Handshake ------------------------------
(***************************************************************************)
(* How two nodes become connected (actor_distributer_connect_to_node and   *)
(* actor_distributer_listen of src/distributer.c).  A call of listen       *)
(* accepts one of the calls of connect that have reached its socket.  The  *)
(* two exchange key and node ids, each looks up the id of the other in its *)
(* own table of remote nodes, and each starts its own side of the          *)
(* connection.  Any send or recv may fail: the network may, a recv waits   *)
(* for 10 s at most, and it may return less than was asked for.            *)
(*                                                                         *)
(* A side of a connection is denoted by the call that made it. What goes   *)
(* on in it is the subject of Connection: here it stands from the start    *)
(* of its processes until the socket is shut down, by either side, and     *)
(* meanwhile sets its entry anew when its sender is replaced. An entry of  *)
(* the table names the side whose sender it is.                            *)
(***************************************************************************)
EXTENDS Naturals

CONSTANTS
  Clients,     \* the calls of connect
  Servers,     \* the calls of listen
  Nodes,       \* the nodes, each in a program of its own
  Ids,         \* the ids a node may have been given
  Keys,        \* the keys callers pass
  MaxRemote,   \* ACTOR_NODE_MAX_REMOTE_NODES
  NULL         \* ACTOR_INVALID_ID, and no call

Calls == Clients \union Servers

ASSUME HandshakeAssumption ==
  /\ Clients \intersect Servers = {}
  /\ Ids \subseteq Nat
  /\ MaxRemote \in Nat
  /\ NULL \notin Calls \union Nodes \union Keys \union Nat

VARIABLES
  id,           \* the id of each node
  remote_nodes, \* the side of a connection each node has for each id
  on,           \* the node of each call
  key,          \* the key of each call
  pc,           \* where each call is
  peer,         \* the call at the other end of its socket
  sent,         \* what it has sent: its key, the id of its node
  closed,       \* the calls whose socket was closed or shut down
  node_id,      \* the id it has received
  up,           \* the sides of connections that stand
  races         \* history: the races that have happened

callVars == <<id, on, key>>
talkVars == <<peer, sent, closed, node_id>>
tableVars == <<remote_nodes, up, races>>
vars == <<callVars, pc, talkVars, tableVars>>

\* The table, and the place behind it.
Indices == 0 .. MaxRemote

Points == {"idle", "accept", "send_key", "recv_key", "send_id", "recv_id",
           "check", "start", "set", "done", "failed"}

Init ==
  /\ id \in [Nodes -> Ids]
  /\ remote_nodes = [n \in Nodes |-> [i \in Indices |-> NULL]]
  /\ on = [c \in Calls |-> NULL]
  /\ key = [c \in Calls |-> NULL]
  /\ pc = [c \in Calls |-> "idle"]
  /\ peer = [c \in Calls |-> NULL]
  /\ sent = [c \in Calls |-> {}]
  /\ closed = {}
  /\ node_id = [c \in Calls |-> NULL]
  /\ up = {}
  /\ races = {}

Goto(c, from, to) ==
  /\ pc[c] = from
  /\ pc' = [pc EXCEPT ![c] = to]

\* The call closes its socket and returns an error.
Fail(c) ==
  /\ pc' = [pc EXCEPT ![c] = "failed"]
  /\ closed' = closed \union {c}

-----------------------------------------------------------------------------
(* The sockets.                                                            *)

Call(c, n, k) ==
  /\ on' = [on EXCEPT ![c] = n]
  /\ key' = [key EXCEPT ![c] = k]
  /\ UNCHANGED id

\* listen: the call waits for a connection, for ever if none comes.
Listen(s, n, k) ==
  /\ Goto(s, "idle", "accept")
  /\ Call(s, n, k)
  /\ UNCHANGED <<talkVars, tableVars>>

\* connect reaches a socket that is listened on, accepted yet or not.
Connect(c, s, n, k) ==
  /\ Goto(c, "idle", "send_key")
  /\ pc[s] = "accept"
  /\ peer' = [peer EXCEPT ![c] = s]
  /\ Call(c, n, k)
  /\ UNCHANGED <<sent, closed, node_id, tableVars>>

\* The socket listened on is closed, and with it any other connection to it.
Accept(s, c) ==
  /\ Goto(s, "accept", "recv_key")
  /\ peer[c] = s
  /\ peer' = [peer EXCEPT ![s] = c]
  /\ UNCHANGED <<callVars, sent, closed, node_id, tableVars>>

Send(c, what, from, to) ==
  /\ Goto(c, from, to)
  /\ sent' = [sent EXCEPT ![c] = @ \union {what}]
  /\ UNCHANGED <<callVars, peer, closed, node_id, tableVars>>

\* What the call at the other end has sent to call c is there.
Arrived(c, what) == peer[peer[c]] = c /\ what \in sent[peer[c]]

TalkFails(c) ==
  /\ pc[c] \in {"send_key", "recv_key", "send_id", "recv_id"}
  /\ Fail(c)
  /\ UNCHANGED <<callVars, peer, sent, node_id, tableVars>>

-----------------------------------------------------------------------------
(* The exchange.                                                           *)

SendKey(c) == Send(c, "key", "send_key", "send_id")
SendId(c) == Send(c, "id", "send_id", "recv_id")

\* Mutant: the key is received but not compared.
ReceiveKeyOnly(s) ==
  /\ Goto(s, "recv_key", "send_id")
  /\ Arrived(s, "key")
  /\ UNCHANGED <<callVars, talkVars, tableVars>>

ReceiveKey(s) ==
  /\ Goto(s, "recv_key", "send_id")
  /\ Arrived(s, "key")
  /\ key[peer[s]] = key[s]
  /\ UNCHANGED <<callVars, talkVars, tableVars>>

WrongKey(s) ==
  /\ pc[s] = "recv_key"
  /\ Arrived(s, "key")
  /\ key[peer[s]] # key[s]
  /\ Fail(s)
  /\ UNCHANGED <<callVars, peer, sent, node_id, tableVars>>

\* Mutant: part of an id is taken for all of it.
ReceiveIdPart(c) ==
  /\ Goto(c, "recv_id", "check")
  /\ Arrived(c, "id")
  /\ \E i \in Indices : node_id' = [node_id EXCEPT ![c] = id[on[peer[c]]] + i]
  /\ UNCHANGED <<callVars, peer, sent, closed, tableVars>>

ReceiveId(c) ==
  /\ Goto(c, "recv_id", "check")
  /\ Arrived(c, "id")
  /\ node_id' = [node_id EXCEPT ![c] = id[on[peer[c]]]]
  /\ UNCHANGED <<callVars, peer, sent, closed, tableVars>>

\* connect looks at one id more than there are places in the table; behind it
\* there may be anything.
Beyond(c) == c \in Clients /\ node_id[c] = MaxRemote

Entry(c) == remote_nodes[on[c]][node_id[c]]

Acceptable(c) == node_id[c] # id[on[c]] /\ node_id[c] < MaxRemote /\ Entry(c) = NULL

\* Another call on that node is about to start a side for the same id.
Overlaps(c) ==
  \E u \in Calls \ {c} :
    on[u] = on[c] /\ node_id[u] = node_id[c] /\ pc[u] \in {"start", "set"}

\* Mutant: an id that is in use is not refused.
CheckOwnOnly(c) ==
  /\ Goto(c, "check", "start")
  /\ node_id[c] # id[on[c]] /\ node_id[c] < MaxRemote
  /\ races' = IF Overlaps(c) THEN races \union {"overlap"} ELSE races
  /\ UNCHANGED <<callVars, talkVars, remote_nodes, up>>

Check(c) ==
  /\ Goto(c, "check", "start")
  /\ Acceptable(c) \/ (Beyond(c) /\ node_id[c] # id[on[c]])
  /\ races' = IF Overlaps(c) THEN races \union {"overlap"} ELSE races
  /\ UNCHANGED <<callVars, talkVars, remote_nodes, up>>

\* Mutant: the socket is not closed.
CheckFailsOpen(c) ==
  /\ Goto(c, "check", "failed")
  /\ ~ Acceptable(c)
  /\ UNCHANGED <<callVars, talkVars, tableVars>>

CheckFails(c) ==
  /\ pc[c] = "check"
  /\ ~ Acceptable(c)
  /\ Fail(c)
  /\ UNCHANGED <<callVars, peer, sent, node_id, tableVars>>

-----------------------------------------------------------------------------
(* actor_distributer_start_connectors.                                     *)

Start(c) ==
  /\ Goto(c, "start", "set")
  /\ up' = up \union {c}
  /\ UNCHANGED <<callVars, talkVars, remote_nodes, races>>

StartFails(c) ==
  /\ pc[c] = "start"
  /\ Fail(c)
  /\ UNCHANGED <<callVars, peer, sent, node_id, tableVars>>

\* The race "late": the connection has ended before its entry is set.
SetEntry(c) ==
  /\ Goto(c, "set", "done")
  /\ remote_nodes' = [remote_nodes EXCEPT ![on[c]][node_id[c]] = c]
  /\ races' = IF c \in up THEN races ELSE races \union {"late"}
  /\ UNCHANGED <<callVars, talkVars, up>>

\* The supervisor has started another sender in the place of one that has timed
\* out, and sets the entry to it.  The race "late": before it is set by SetEntry.
Restart(c) ==
  /\ c \in up
  /\ remote_nodes' = [remote_nodes EXCEPT ![on[c]][node_id[c]] = c]
  /\ races' = IF pc[c] = "set" THEN races \union {"late"} ELSE races
  /\ UNCHANGED <<callVars, pc, talkVars, up>>

\* The race "unspawned": no other sender can be started, and the entry is set to
\* ACTOR_INVALID_ID while the connection stands.
RestartFails(c) ==
  /\ c \in up
  /\ remote_nodes' = [remote_nodes EXCEPT ![on[c]][node_id[c]] = NULL]
  /\ races' = races \union {"unspawned"}
  /\ UNCHANGED <<callVars, pc, talkVars, up>>

\* Mutant: the entry is left as it is.
EndOnly(c) ==
  /\ c \in up
  /\ up' = up \ {c}
  /\ closed' = closed \union {c}
  /\ UNCHANGED <<callVars, pc, peer, sent, node_id, remote_nodes, races>>

\* The supervisor shuts the connection down and clears the entry, whoever's it
\* is: after a disconnect, or a fault of the network, or when the other side
\* has closed its socket.
End(c) ==
  /\ c \in up
  /\ up' = up \ {c}
  /\ closed' = closed \union {c}
  /\ remote_nodes' = [remote_nodes EXCEPT ![on[c]][node_id[c]] = NULL]
  /\ UNCHANGED <<callVars, pc, peer, sent, node_id, races>>

\* The program of a node is killed and started again with the same id.
Crash(n) ==
  LET dead == {c \in Calls : on[c] = n}
  IN  /\ pc' = [c \in Calls |-> IF c \in dead THEN "failed" ELSE pc[c]]
      /\ closed' = closed \union dead
      /\ up' = up \ dead
      /\ remote_nodes' = [remote_nodes EXCEPT ![n] = [i \in Indices |-> NULL]]
      /\ UNCHANGED <<callVars, peer, sent, node_id, races>>

CallStep(c) ==
  \/ SendKey(c)
  \/ SendId(c)
  \/ ReceiveKey(c)
  \/ WrongKey(c)
  \/ ReceiveId(c)
  \/ TalkFails(c)
  \/ Check(c)
  \/ CheckFails(c)
  \/ Start(c)
  \/ StartFails(c)
  \/ SetEntry(c)

Next ==
  \/ \E c \in Clients, s \in Servers :
       \/ \E n \in Nodes, k \in Keys : Connect(c, s, n, k)
       \/ Accept(s, c)
  \/ \E s \in Servers, n \in Nodes, k \in Keys : Listen(s, n, k)
  \/ \E c \in Calls : CallStep(c) \/ Restart(c) \/ RestartFails(c) \/ End(c)
  \/ \E n \in Nodes : Crash(n)

Spec == Init /\ [][Next]_vars

\* A call goes on, and what Connection shows of the end of a connection is
\* taken as given: it ends if the socket at the other end is closed.
Fairness ==
  \A c \in Calls :
    /\ WF_vars(CallStep(c))
    /\ WF_vars(peer[c] \in closed /\ End(c))

FairSpec == Spec /\ Fairness

-----------------------------------------------------------------------------
(* Properties.                                                             *)

TypeOK ==
  /\ id \in [Nodes -> Ids]
  /\ remote_nodes \in [Nodes -> [Indices -> Calls \union {NULL}]]
  /\ on \in [Calls -> Nodes \union {NULL}]
  /\ key \in [Calls -> Keys \union {NULL}]
  /\ pc \in [Calls -> Points]
  /\ peer \in [Calls -> Calls \union {NULL}]
  /\ sent \in [Calls -> SUBSET {"key", "id"}]
  /\ closed \subseteq Calls
  /\ node_id \in [Calls -> Ids \union {NULL}]
  /\ \A c \in Calls :
       pc[c] \in {"start", "set", "done"} => node_id[c] < MaxRemote \/ Beyond(c)
  /\ up \subseteq Calls
  /\ races \subseteq {"overlap", "late", "unspawned"}

\* A connection stands only between two calls that have accepted each other:
\* both were given the same key, and the ids of their nodes differ
\* (distributer.c:361, 466, 495).
StandsWithPeer ==
  \A c \in up :
    /\ peer[peer[c]] = c
    /\ key[c] = key[peer[c]]
    /\ id[on[c]] # id[on[peer[c]]]

\* A node has one connection to an id of its table at most, whoever connects
\* or listens at the same time, however earlier connections have ended and
\* senders were replaced, unless two calls check the entry before either has set
\* it (distributer.c:360, 494, 273), an entry is set late (273), or it was lost
\* with a sender that could not be started again (193).
OneConnection ==
  races = {} =>
    \A c, u \in up :
      on[c] = on[u] /\ node_id[c] = node_id[u] /\ node_id[c] < MaxRemote
        => c = u

\* An entry names a connection of its node that stands there, so that an id is
\* never refused for a connection that has ended (distributer.c:213, 273), under
\* the same conditions.
EntryStands ==
  races = {} =>
    \A n \in Nodes : \A i \in 0 .. MaxRemote - 1 :
      remote_nodes[n][i] # NULL =>
        /\ remote_nodes[n][i] \in up
        /\ on[remote_nodes[n][i]] = n

\* In the end both sides of a connection stand or neither does: the half of a
\* connection whose other half has timed out, was refused, could not be started
\* or was lost in a crash does not stay (distributer.c:331-377, 455-511).
EventuallyAgree == \A c \in Calls : <>[](c \in up => peer[c] \in up)
=============================================================================
