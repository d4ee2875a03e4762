--------------------------- MODULE MCProcessTable ---------------------------
(* TLC instances of ProcessTable.                                          *)
EXTENDS ProcessTable, TLC

MCSymmetry == Permutations(Processes) \union Permutations(Queues)

\* Explore up to the first slot reused between its clears, or update lost.
OnlyLate == races \subseteq {"late"}
=============================================================================
