---------------------------- MODULE MCConnection ----------------------------
(* TLC instances of Connection.                                            *)
EXTENDS Connection, TLC

MCSymmetry == Permutations(Connections) \union Permutations(Nodes)

\* A bound for instances with two connections: nothing is looked at beyond the
\* first race but the overlap of the two, and there they are on their own.
OneRaceAtMost == races = {} \/ (races = {"overlap"} /\ Users = {})
=============================================================================
