------------------------------- MODULE MCNode -------------------------------
(* TLC instances of Node.                                                  *)
EXTENDS Node, TLC

MCSymmetry == Permutations(Processes \ {Root}) \union Permutations(Messages)

\* Run node ends where a slot has been taken between its two clears, but goes
\* on while there are no messages and no supervisors.
MCNoReuseYet ==
  reused => heap = {} /\ \A p \in Processes : supervisor_pid[p] = ACTOR_INVALID_ID

\* Run node_told numbers the processes, which differ in nothing else, in the
\* order in which they are spawned.
MCInOrder ==
  \A p, q \in Processes : p < q /\ pc[q] # "unborn" => pc[p] # "unborn"

\* The slot beyond the table is tried by the first process alone, while it is
\* the only one: nobody sees it.
MCBeyond ==
  \A p \in Processes :
    /\ supervisor_pid[p] < Size
    /\ destination_pid[p] = Size =>
         \A q \in Processes \ {Root} : pc[q] = "unborn"

\* A new message is the first that is free: messages differ in nothing else.
MCFirstFree == \A m \in heap' \ heap, k \in Messages \ heap : m <= k
=============================================================================
