------------------------------- MODULE Delivery -------------------------------
(***************************************************************************)
(* What reliable packets promise to the two applications: none arrives     *)
(* that was not offered, and none arrives again unless the receiver forgot *)
(* it in the meantime.  It forgets a packet when the sender is finished    *)
(* with it, which lets the packet arrive again only if the network         *)
(* reorders datagrams, or when it has heard nothing of it for too long.    *)
(* With fairness every packet arrives.                                     *)
(***************************************************************************)
EXTENDS Naturals

CONSTANTS
    Packet,
    CountMax,  \* arrivals are counted up to here
    Reorders,  \* the network reorders datagrams
    Expires    \* the receiver forgets packets after some time

VARIABLES
    offered,   \* the packets given to the library to send
    finished,  \* those that the sender will not send again
    count,     \* how often each packet was given to the receiving application
    forgotten  \* how the receiver has forgotten each packet since: "done", "timeout"

vars == <<offered, finished, count, forgotten>>

Init ==
    /\ offered = {} /\ finished = {}
    /\ count = [p \in Packet |-> 0]
    /\ forgotten = [p \in Packet |-> {}]

(* A packet that cannot be sent is finished at once. *)
Offer(p) ==
    /\ p \notin offered
    /\ offered' = offered \cup {p}
    /\ finished' \in {finished, finished \cup {p}}
    /\ UNCHANGED <<count, forgotten>>

Finish(P) ==
    /\ P \subseteq offered
    /\ finished' = finished \cup P
    /\ UNCHANGED <<offered, count, forgotten>>

MayDeliver(p) ==
    \/ count[p] = 0
    \/ "timeout" \in forgotten[p]
    \/ "done" \in forgotten[p] /\ Reorders

Deliver(p) ==
    /\ p \in offered /\ MayDeliver(p)
    /\ count' = [count EXCEPT ![p] = IF @ < CountMax THEN @ + 1 ELSE @]
    /\ forgotten' = [forgotten EXCEPT ![p] = {}]
    /\ UNCHANGED <<offered, finished>>

Forget(p) ==
    /\ p \in finished
    /\ forgotten' = [forgotten EXCEPT ![p] = @ \cup {"done"}]
    /\ UNCHANGED <<offered, finished, count>>

Expire(P) ==
    /\ Expires
    /\ P \subseteq offered
    /\ forgotten' = [p \in Packet |->
                       IF p \in P THEN forgotten[p] \cup {"timeout"} ELSE forgotten[p]]
    /\ UNCHANGED <<offered, finished, count>>

Next ==
    \/ \E p \in Packet : Offer(p) \/ Deliver(p) \/ Forget(p)
    \/ \E P \in SUBSET Packet : Finish(P) \/ Expire(P)

Spec == Init /\ [][Next]_vars

LiveSpec == Spec /\ \A p \in Packet : WF_vars(count[p] = 0 /\ Deliver(p))

=============================================================================
