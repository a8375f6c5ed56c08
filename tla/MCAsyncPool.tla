----------------------------- MODULE MCAsyncPool -----------------------------
(***************************************************************************)
(* Instances of AsyncPool for TLC.                                         *)
(***************************************************************************)
EXTENDS AsyncPool, TLC

\* Connections are interchangeable; senders are not used as such, because the
\* fairness of a run is stated per sender.
PeerSymmetry == Permutations(Peers)
=============================================================================
