------------------------------- MODULE Gateway -------------------------------
(***************************************************************************)
(* The way up: a gateway's connections, each with the goroutine of its     *)
(* server (tcp/server.go, websocket/server.go) that calls Accept, Readloop *)
(* and Disconnect, and the goroutines of Receive that Readloop starts      *)
(* (services/gateway/serv/handler.go); what they Forward to the instances  *)
(* of a logic service (container/container.go), and the replies.           *)
(*                                                                         *)
(* The clients of the instances come and go as ClientMap.tla allows, which *)
(* Discovery.tla implements.  The ids Accept makes are unique              *)
(* (Sequence.tla), so a connection stands for its id and CheckRepeated of  *)
(* Server.tla never refuses one.  All commands go to one service here.     *)
(***************************************************************************)
EXTENDS Naturals

CONSTANTS
    Conns,      \* connections, and the channel ids of those that are let in
    Instances,  \* the instances of the logic service
    Asserted,   \* whether a client passes the type assertion of Services: FALSE
                \*   for the tcp.Client of buildClient, TRUE for one with the
                \*   methods of wxf.Service; the cases considered
    None        \* no packet

ASSUME AssertedAssumption == Asserted \subseteq BOOLEAN

VARIABLES
    service,    \* whether a client passes that assertion
    process,    \* the gateway is "up", has "ended" or "panicked"
    client,     \* client[i] and live: the map of the clients, as in ClientMap.tla
    live,
    pc,         \* pc[c]: "accept" (to begin with), "add", "read", "remove",
                \*   "disconnect" or "done"
    job,        \* job[c]: what a goroutine of Receive was given, or None
    registered, \* the channels in the server's map
    announced,  \* connections whose sign-in a Send has taken (history)
    arrived,    \* packets a logic service gets (history)
    replies,    \* replies on their way back
    got         \* got[c]: the connections whose packets are answered by the
                \*   replies that c was pushed (history)

clients == <<client, live>>
conns == <<pc, job, registered>>
mail == <<announced, arrived>>
down == <<replies, got>>
vars == <<service, process, clients, conns, mail, down>>

ClientMap == INSTANCE ClientMap WITH Services <- Instances

\* A packet from c that names ch as its channel.
Packet(kind, c, ch) == [kind |-> kind, from |-> c, channel |-> ch]

Init ==
    /\ service \in Asserted /\ process = "up"
    /\ ClientMap!Init
    /\ pc = [c \in Conns |-> "accept"]
    /\ job = [c \in Conns |-> None]
    /\ registered = {}
    /\ announced = {} /\ arrived = {}
    /\ replies = {} /\ got = [c \in Conns |-> {}]

-----------------------------------------------------------------------------
(* Forward: lookup, and Send of the client that it chose.                  *)

Adult == {i \in Instances : client[i] = "adult"}

\* The type assertion is tried on each client in the map, young ones included.
Panics == ~service /\ \E i \in Instances : client[i] # "none"

\* The process ends there and then.
Panic ==
    /\ Panics
    /\ process' = "panicked"
    /\ UNCHANGED <<conns, mail>>

\* Send takes the packet.  The selector takes the hash of the channel as an
\* index into a list that a sync.Map has put in any order, so any adult client
\* may be chosen, and where its connection is broken the packet can get lost.
ForwardOK(p) ==
    /\ ~Panics
    /\ announced' = IF p.kind = "signin" THEN announced \cup {p.from} ELSE announced
    /\ \E i \in Adult : arrived' = IF i \in live THEN arrived \cup {p} ELSE arrived
    /\ UNCHANGED process

\* There is no adult client, or Send notices that the connection is broken.
ForwardFails ==
    /\ ~Panics
    /\ Adult = {} \/ ~(Adult \subseteq live)
    /\ UNCHANGED <<process, mail>>

-----------------------------------------------------------------------------
(* The goroutine of a connection. *)

Goto(c, from, to) == pc[c] = from /\ pc' = [pc EXCEPT ![c] = to]

\* The read fails or times out, or it is no login packet with a valid token.
AcceptRefuses(c) ==
    /\ Goto(c, "accept", "done")
    /\ UNCHANGED <<process, job, registered, mail>>

\* Changed form: Accept takes no notice of an error of Forward.
AcceptForwardsAnyway(c) ==
    /\ pc[c] = "accept"
    /\ \/ Panic
       \/ Goto(c, "accept", "add") /\ ForwardOK(Packet("signin", c, c))
       \/ Goto(c, "accept", "add") /\ ForwardFails
    /\ UNCHANGED <<job, registered>>

\* The sign-in goes to the login service under the new id, and the connection
\* is let in when Forward has taken it.
AcceptForwards(c) ==
    /\ pc[c] = "accept"
    /\ \/ Panic
       \/ Goto(c, "accept", "add") /\ ForwardOK(Packet("signin", c, c))
       \/ Goto(c, "accept", "done") /\ ForwardFails
    /\ UNCHANGED <<job, registered>>

\* Changed form: the channel is not put into the map.
AddForgotten(c) ==
    /\ Goto(c, "add", "read")
    /\ UNCHANGED <<process, job, registered, mail>>

Add(c) ==
    /\ Goto(c, "add", "read")
    /\ registered' = registered \cup {c}
    /\ UNCHANGED <<process, job, mail>>

\* Readloop hands a message to a goroutine of its own; the model has one such
\* goroutine of a connection at a time.  The client may have written any
\* channel into its packet.
ReadMessage(c) ==
    /\ pc[c] = "read" /\ job[c] = None
    /\ \E ch \in Conns : job' = [job EXCEPT ![c] = Packet("message", c, ch)]
    /\ UNCHANGED <<process, pc, registered, mail>>

\* The client is gone, or Shutdown has closed the connection.
ReadEnd(c) ==
    /\ Goto(c, "read", "remove")
    /\ UNCHANGED <<process, job, registered, mail>>

Remove(c) ==
    /\ Goto(c, "remove", "disconnect")
    /\ registered' = registered \ {c}
    /\ UNCHANGED <<process, job, mail>>

\* Changed form: the packet has no channel, which Forward takes for an error.
DisconnectUnnamed(c) ==
    /\ Goto(c, "disconnect", "done")
    /\ UNCHANGED <<process, job, registered, mail>>

\* An error is logged and the sign-out is lost.
Disconnect(c) ==
    /\ pc[c] = "disconnect"
    /\ \/ Panic
       \/ Goto(c, "disconnect", "done") /\ (ForwardOK(Packet("signout", c, c)) \/ ForwardFails)
    /\ UNCHANGED <<job, registered>>

\* Changed form: the channel in the packet is left as it came.
ReceiveTrusting(c) ==
    /\ job[c] # None
    /\ \/ Panic
       \/ /\ job' = [job EXCEPT ![c] = None]
          /\ ForwardOK(job[c]) \/ ForwardFails
          /\ UNCHANGED <<pc, registered>>

\* Receive writes the id of the connection into the packet and forwards it.
\* An error, or a packet that is not forwarded at all, goes no further.
Receive(c) ==
    /\ job[c] # None
    /\ \/ Panic
       \/ /\ job' = [job EXCEPT ![c] = None]
          /\ \/ ForwardOK([job[c] EXCEPT !.channel = c])
             \/ ForwardFails
             \/ UNCHANGED <<process, mail>>
          /\ UNCHANGED <<pc, registered>>

-----------------------------------------------------------------------------
(* The way back, the clients, and the end of the process. *)

\* A logic service answers a packet on its channel; Routing.tla has the details.
Answer ==
    /\ Adult \cap live # {}
    /\ \E p \in arrived : replies' = replies \cup {[to |-> p.channel, for |-> p.from]}
    /\ UNCHANGED <<service, process, clients, conns, mail, got>>

\* pushMessage: "channel not found", or the push to the channel.
PushMessage(r) ==
    /\ r \in replies
    /\ replies' = replies \ {r}
    /\ got' = IF r.to \in registered THEN [got EXCEPT ![r.to] = @ \cup {r.for}] ELSE got
    /\ UNCHANGED <<service, process, clients, conns, mail>>

\* With the connection to an instance what was on its way back is lost.
ClientsChange ==
    /\ ClientMap!Next
    /\ \/ Adult \cap live \subseteq live' /\ UNCHANGED replies
       \/ ~(Adult \cap live \subseteq live') /\ \E kept \in SUBSET replies : replies' = kept
    /\ UNCHANGED <<service, process, conns, mail, got>>

\* Start returns after a signal, or the process is killed.  Nobody waits for
\* the goroutines of connections that Shutdown has closed.
End ==
    /\ process' = "ended"
    /\ pc' = [c \in Conns |-> "done"] /\ job' = [c \in Conns |-> None]
    /\ registered' = {} /\ replies' = {}
    /\ UNCHANGED <<service, clients, mail, got>>

\* What the goroutine of a connection does without waiting for the peer.
Proceed(c) == Add(c) \/ Remove(c) \/ Disconnect(c)

Connection(c) ==
    /\ \/ AcceptRefuses(c) \/ AcceptForwards(c)
       \/ ReadMessage(c) \/ ReadEnd(c) \/ Receive(c) \/ Proceed(c)
    /\ UNCHANGED <<service, clients, down>>

Replies == [to : Conns, for : Conns]

Next ==
    /\ process = "up"
    /\ \/ \E c \in Conns : Connection(c)
       \/ \E r \in Replies : PushMessage(r)
       \/ Answer \/ ClientsChange \/ End

Spec == Init /\ [][Next]_vars

\* The goroutine of a connection goes on where it waits for nobody, and so do
\* the read loops of the clients.  Nothing else need happen.
FairSpec ==
    /\ Spec
    /\ \A c \in Conns :
          WF_vars(process = "up" /\ Proceed(c) /\ UNCHANGED <<service, clients, down>>)
    /\ \A r \in Replies : WF_vars(process = "up" /\ PushMessage(r))

-----------------------------------------------------------------------------
(* Properties. *)

\* Every variable keeps to its type.
TypeOK ==
    /\ service \in BOOLEAN /\ process \in {"up", "ended", "panicked"}
    /\ client \in [Instances -> {"none", "young", "adult"}] /\ live \subseteq Instances
    /\ pc \in [Conns -> {"accept", "add", "read", "remove", "disconnect", "done"}]
    /\ registered \subseteq Conns /\ announced \subseteq Conns
    /\ replies \subseteq Replies
    /\ got \in [Conns -> SUBSET Conns]

\* handler.go:119-124: nobody is served, and nothing of anybody reaches a logic
\* service, be it from a goroutine that outlives the connection, unless the
\* sign-in was sent before.
LoginFirst ==
    /\ \A c \in Conns : pc[c] \in {"add", "read", "remove", "disconnect"} => c \in announced
    /\ \A p \in arrived : p.channel \in announced

\* handler.go:59, container.go:182-187: what a client is pushed answers a packet
\* of its own, whatever channels clients write into their packets, while
\* connections come and go.
OwnReplies == \A c \in Conns : got[c] \subseteq {c}

\* Every adult client works.
Healthy == Adult # {} /\ Adult \subseteq live

\* handler.go:30-41: the sign-out of a connection that ends reaches the login
\* service, unless a client is broken by then or the process comes to its end.
SignOutArrives ==
    \A c \in Conns : pc[c] = "disconnect" /\ Healthy ~>
        Packet("signout", c, c) \in arrived \/ ~Healthy \/ process # "up"

\* A reply on its way to a connection that is being read is pushed to it, unless
\* that ends first.  One that comes earlier is lost: Accept has forwarded the
\* sign-in before the channel is in the map (handler.go:127).
ReplyArrives ==
    \A c \in Conns : [to |-> c, for |-> c] \in replies /\ pc[c] = "read" ~>
        c \in got[c] \/ pc[c] # "read" \/ ~Healthy \/ process # "up"

\* "Forward (gateway service upstream) forward message to server(logic service)"
\* (container.go:124): it comes back to its caller.
ForwardReturns == process # "panicked"
=============================================================================
