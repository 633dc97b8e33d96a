------------------------------ MODULE ClientMap ------------------------------
(***************************************************************************)
(* What the map of the clients of one service (container/clients.go)       *)
(* promises to a lookup, with no word about how clients come into it: an   *)
(* instance has one client, young or adult, which stays for good, and a    *)
(* connection that is lost is not made again.  Discovery.tla implements    *)
(* this; Gateway.tla forwards over it.                                     *)
(***************************************************************************)
CONSTANT Services  \* instances of the service

VARIABLES
    client,  \* client[s]: "none", or the service_state of the client's Meta
    live     \* instances whose client has a connection that works

vars == <<client, live>>

Init == client = [s \in Services |-> "none"] /\ live = {}

Add(s) ==
    /\ client[s] = "none"
    /\ \E state \in {"young", "adult"} : client' = [client EXCEPT ![s] = state]
    /\ live' = live \cup {s}

Grow(s) ==
    /\ client[s] = "young"
    /\ client' = [client EXCEPT ![s] = "adult"]
    /\ UNCHANGED live

Break(s) ==
    /\ s \in live
    /\ live' = live \ {s}
    /\ UNCHANGED client

Next == \E s \in Services : Add(s) \/ Grow(s) \/ Break(s)

Spec == Init /\ [][Next]_vars
=============================================================================
