------------------------------- MODULE Outbox -------------------------------
(***************************************************************************)
(* What the sending half of a channel promises to the goroutines that push *)
(* to it, with no word about how: a bounded first-in first-out buffer that *)
(* is emptied in order until the connection breaks, after which nothing    *)
(* leaves it any more.  Channel.tla implements it with a Go channel and a  *)
(* writer goroutine, and Wire.tla with the bytes of a connection.          *)
(***************************************************************************)
EXTENDS Naturals, Sequences

CONSTANTS Payloads,  \* the messages that may be pushed
          Bound      \* the most messages held between Push and the wire

VARIABLES queue,     \* accepted and not yet written, oldest first
          sent,      \* written to the connection, oldest first
          broken     \* a write has failed: nothing is sent any more

vars == <<queue, sent, broken>>

Init == queue = << >> /\ sent = << >> /\ broken = FALSE

Accept(m) ==
    /\ Len(queue) < Bound
    /\ queue' = Append(queue, m)
    /\ UNCHANGED <<sent, broken>>

Deliver ==
    /\ queue # << >>
    /\ ~broken
    /\ sent' = Append(sent, Head(queue))
    /\ queue' = Tail(queue)
    /\ UNCHANGED broken

\* A failure shows only when something is being sent.
Break ==
    /\ queue # << >>
    /\ ~broken
    /\ broken' = TRUE
    /\ UNCHANGED <<queue, sent>>

Next == (\E m \in Payloads : Accept(m)) \/ Deliver \/ Break

Spec == Init /\ [][Next]_vars

FairSpec == Spec /\ WF_vars(Deliver \/ Break)
=============================================================================
