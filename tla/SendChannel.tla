----------------------------- MODULE SendChannel -----------------------------
(***************************************************************************)
(* What arc::CAsyncs promises to a caller whose send returned true: the    *)
(* data is disposed of exactly once, either handed to uv_write for the     *)
(* connection it was meant for, or discarded because that connection is no *)
(* longer there; and that happens eventually.  It promises no order.       *)
(***************************************************************************)
EXTENDS Sequences

CONSTANTS Data, Peers, PeerOf(_)

VARIABLES
    queued,    \* data accepted and not yet disposed of
    wire,      \* per connection, what was handed to uv_write
    discarded  \* what was given up

chan == <<queued, wire, discarded>>

Written == UNION {{wire[p][k] : k \in DOMAIN wire[p]} : p \in Peers}

Init ==
    /\ queued = {}
    /\ wire = [p \in Peers |-> <<>>]
    /\ discarded = {}

Accept(d) ==
    /\ d \notin queued \cup Written \cup discarded
    /\ queued' = queued \cup {d}
    /\ UNCHANGED <<wire, discarded>>

Deliver(d) ==
    /\ d \in queued
    /\ queued' = queued \ {d}
    /\ wire' = [wire EXCEPT ![PeerOf(d)] = Append(@, d)]
    /\ UNCHANGED discarded

Discard(d) ==
    /\ d \in queued
    /\ queued' = queued \ {d}
    /\ discarded' = discarded \cup {d}
    /\ UNCHANGED wire

Next == \E d \in Data : Accept(d) \/ Deliver(d) \/ Discard(d)

Spec ==
    /\ Init /\ [][Next]_chan
    /\ \A d \in Data : WF_chan(Deliver(d) \/ Discard(d))
=============================================================================
