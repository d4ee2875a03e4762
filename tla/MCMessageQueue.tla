--------------------------- MODULE MCMessageQueue ---------------------------
(* TLC instances of MessageQueue.                                          *)
EXTENDS MessageQueue, TLC

\* Threads of one role, and messages, are interchangeable.
MCSymmetry ==
  Permutations(Senders) \union Permutations(Receivers)
    \union Permutations(Messages)
=============================================================================
