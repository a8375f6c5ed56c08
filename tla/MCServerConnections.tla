------------------------- MODULE MCServerConnections -------------------------
(***************************************************************************)
(* Instances of ServerConnections for TLC.                                 *)
(***************************************************************************)
EXTENDS ServerConnections, TLC

\* Addresses are interchangeable, and so are threads; no fairness names either.
Symmetry == Permutations(Addrs) \cup Permutations(Apps)
=============================================================================
