------------------------------- MODULE Actors -------------------------------
(***************************************************************************)
(* What a node promises its processes: a message reaches the mailbox of    *)
(* the process it was sent to, once, and in the order in which its sender  *)
(* sent it, as long as that process has not ended.  A message for one that *)
(* has ended may be lost, and a message for one that is gone, or for a pid *)
(* nobody had, may reach any process that got the pid.  Messages are taken *)
(* from a mailbox in the order of arrival.  Node is shown to implement     *)
(* this specification.                                                     *)
(***************************************************************************)
EXTENDS Sequences

CONSTANTS
  Processes,   \* the processes that can be spawned
  Root,        \* the process main spawns first
  NULL         \* no process, no message

VARIABLES
  life,        \* whether each process is unborn, alive, ended or gone
  transit,     \* the message each process is sending, or NULL
  mailbox      \* the messages each process has not received yet

actorsVars == <<life, transit, mailbox>>

\* What comes after each part of a life.
After == [unborn |-> "alive", alive |-> "ended", ended |-> "gone", gone |-> "gone"]

\* An error message tells the end of the process it is from.
Message == [type : {"user", "error"}, from : Processes,
            meant : Processes \union {NULL}]

ActorsInit ==
  /\ life = [p \in Processes |-> IF p = Root THEN "alive" ELSE "unborn"]
  /\ transit = [p \in Processes |-> NULL]
  /\ mailbox = [p \in Processes |-> <<>>]

\* A process is spawned, its function returns, or its pid is given back.
Turn(p) ==
  /\ life'[p] = After[life[p]]
  /\ life' = [life EXCEPT ![p] = life'[p]]
  /\ UNCHANGED <<transit, mailbox>>

\* The last message of a process is the one that tells its end.
Post(p) ==
  /\ life[p] = "alive" /\ transit[p] = NULL
  /\ transit'[p] \in Message /\ transit'[p].from = p
  /\ transit' = [transit EXCEPT ![p] = transit'[p]]
  /\ life' = IF transit'[p].type = "error" THEN [life EXCEPT ![p] = "ended"]
                                          ELSE life
  /\ UNCHANGED mailbox

Lost(m) == m.meant = NULL \/ life[m.meant] \in {"ended", "gone"}
Elsewhere(m) == m.meant = NULL \/ life[m.meant] = "gone"

\* A send is over when the message is in a mailbox or lost.
Arrive(p) ==
  /\ transit[p] # NULL /\ transit'[p] = NULL
  /\ transit' = [transit EXCEPT ![p] = NULL]
  /\ \/ \E u \in Processes :
          /\ u = transit[p].meant \/ Elsewhere(transit[p])
          /\ mailbox' = [mailbox EXCEPT ![u] = Append(@, transit[p])]
     \/ Lost(transit[p]) /\ UNCHANGED mailbox
  /\ UNCHANGED life

\* A process that is alive receives a message; what is left when it ends is
\* released.
Take(p) ==
  /\ life[p] # "unborn" /\ mailbox[p] # <<>>
  /\ mailbox' = [mailbox EXCEPT ![p] = Tail(@)]
  /\ UNCHANGED <<life, transit>>

ActorsNext ==
  \E p \in Processes :
    \/ Turn(p)
    \/ Post(p)
    \/ Arrive(p)
    \/ Take(p)

ActorsSpec == ActorsInit /\ [][ActorsNext]_actorsVars
=============================================================================
