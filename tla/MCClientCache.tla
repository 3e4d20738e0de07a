--------------------------- MODULE MCClientCache ---------------------------
(* ClientCache on small sets of tasks, clients and loops. *)
EXTENDS ClientCache, TLC

\* Tasks and clients are interchangeable in Init, Next and every invariant and
\* action property.
Symmetry == Permutations(Tasks) \union Permutations(Clients)
=============================================================================
