---------------------------- MODULE MCHandshake -----------------------------
(* TLC instances of Handshake.                                             *)
EXTENDS Handshake, TLC

MCSymmetry ==
  Permutations(Clients) \union Permutations(Servers)
    \union Permutations(Nodes) \union Permutations(Keys)
=============================================================================
