------------------------------ MODULE MCRouting ------------------------------
(* Two logic services, a packet for two channels, users' entries of one key. *)
EXTENDS Routing

CONSTANTS s1, s2, c1, c2, OwnValue

MCAddresses == {<<c1, c2>>}

MCMaxPushes == s1 :> 2 @@ s2 :> 1

\* The clients' packets carry one entry of their own.
MCUserMetas == {<<[key |-> "own", value |-> OwnValue]>>}

=============================================================================
