------------------------------- MODULE Routing -------------------------------
(***************************************************************************)
(* The way down: from a logic service that pushes a packet to a gateway,   *)
(* through the gateway's read loop for that service, to the channels of    *)
(* the clients (container/container.go, services/server/serv/handler.go).  *)
(*                                                                         *)
(* The meta of a packet is a list of keys and values that every hop adds   *)
(* to, reads or takes from.  A channel is the bounded outbox of Outbox.tla, *)
(* which Channel.tla implements.  A connection between the two processes   *)
(* that breaks is not made again (Discovery.tla).                          *)
(***************************************************************************)
EXTENDS Naturals, Sequences, SequencesExt

CONSTANTS
    Services,   \* the logic services the gateway is connected to
    Channels,   \* the clients' channels at the gateway
    Gateway,    \* the id of the gateway
    Addresses,  \* the lists of channels that handlers push to
    UserMetas,  \* the meta of the clients' own packets
    Bound,      \* the most payloads held between Push and the wire
    MaxPushes   \* MaxPushes[s]: the pushes of s considered

DestServer == "dest.server"
DestChannels == "dest.channels"

ASSUME MaxPushesAssumption == MaxPushes \in [Services -> Nat]

ASSUME AddressesAssumption == Addresses \subseteq Seq(Channels) \ {<< >>}

\* A list of entries.  Clients leave the two routing keys alone.
ASSUME UserMetaAssumption ==
    \A meta \in UserMetas :
        /\ meta \in Seq(ToSet(meta))
        /\ \A i \in 1..Len(meta) : meta[i].key \notin {DestServer, DestChannels}

VARIABLES
    made,        \* made[s]: how many pushes s has made
    link,        \* link[s]: packets on their way from s to the gateway
    up,          \* the services whose connection to the gateway works
    pc,          \* pc[s]: the gateway's read loop for s: "read", "find" or "push"
    payload,     \* payload[s]: what the loop pushes, while it does
    rest,        \* rest[s]: the channels it has still to push to
    registered,  \* the channels in the server's map
    queue,       \* queue[c], sent[c], broken[c]: the outbox of c
    sent,
    broken

loops == <<pc, payload, rest>>
boxes == <<queue, sent, broken>>
wire == <<made, link, up>>
vars == <<wire, loops, registered, boxes>>

Nothing == [from |-> Gateway, id |-> 0, meta |-> << >>, to |-> << >>, user |-> << >>]

Init ==
    /\ made = [s \in Services |-> 0]
    /\ link = [s \in Services |-> << >>]
    /\ up = Services
    /\ pc = [s \in Services |-> "read"]
    /\ payload = [s \in Services |-> Nothing]
    /\ rest = [s \in Services |-> << >>]
    /\ registered = Channels
    /\ queue = [c \in Channels |-> << >>]
    /\ sent = [c \in Channels |-> << >>]
    /\ broken = [c \in Channels |-> FALSE]

-----------------------------------------------------------------------------
(* The meta of a packet. *)

AddMeta(meta, key, value) == Append(meta, [key |-> key, value |-> value])

\* The positions of a key.  FindMeta returns the value at the first of them.
At(meta, key) == {i \in 1..Len(meta) : meta[i].key = key}

FindMeta(meta, key) ==
    meta[CHOOSE i \in At(meta, key) : \A j \in At(meta, key) : i <= j].value

\* Changed form: the loop ends with the first entry it took out.
DelMetaFirst(meta, key) ==
    IF At(meta, key) = {} THEN meta
    ELSE RemoveAt(meta, CHOOSE i \in At(meta, key) : \A j \in At(meta, key) : i <= j)

\* copy(p.Meta[i:], p.Meta[i+1:]) and p.Meta[:length-1]: the entries behind
\* position i of the array move up within the slice, which gets shorter.
Deleted(slice, i) ==
    [array |-> [j \in DOMAIN slice.array |->
                    slice.array[IF i <= j /\ j < slice.len THEN j + 1 ELSE j]],
     len |-> slice.len - 1]

\* The loop ranges over the array as it was long at first: the slice p.Meta
\* after each position of it.
Slices(meta, key) ==
    LET slice[i \in 0..Len(meta)] ==
            IF i = 0 THEN [array |-> meta, len |-> Len(meta)]
            ELSE IF slice[i - 1].array[i].key = key THEN Deleted(slice[i - 1], i)
            ELSE slice[i - 1]
    IN slice

DelMeta(meta, key) ==
    LET end == Slices(meta, key)[Len(meta)] IN SubSeq(end.array, 1, end.len)

-----------------------------------------------------------------------------
(* The logic service. *)

\* container.Push: the packet goes to the service's channel for the gateway.
\* What is pushed when the connection is gone is lost, and left out.
Push(s, meta, to, user) ==
    /\ s \in up
    /\ made[s] < MaxPushes[s]
    /\ made' = [made EXCEPT ![s] = @ + 1]
    /\ link' = [link EXCEPT ![s] =
          Append(@, [from |-> s, id |-> made[s] + 1, to |-> to, user |-> user,
                     meta |-> AddMeta(meta, DestServer, Gateway)])]
    /\ UNCHANGED <<up, loops, registered, boxes>>

\* A handler pushes a packet of its own to several channels.
DispatcherPush(s) ==
    \E to \in Addresses : Push(s, AddMeta(<< >>, DestChannels, to), to, << >>)

\* Receive finds no session, and RespErr sends the request itself back, with
\* the client's meta and the server key that Forward has added to it.
RespErr(s) ==
    \E c \in Channels, user \in UserMetas :
        LET request == AddMeta(user, DestServer, Gateway)
        IN Push(s, AddMeta(request, DestChannels, <<c>>), <<c>>, user)

-----------------------------------------------------------------------------
(* The connection, and the gateway's read loop for one service. *)

\* The service fails (as it does at a sign-in, whose missing meta entry Receive
\* asserts to be a string), or the network does, and the last of the packets on
\* their way are lost.  readLoop returns at the error it reads behind the
\* others, and is at "read" for good here.
LinkBreaks(s) ==
    /\ s \in up
    /\ up' = up \ {s}
    /\ \E kept \in 0..Len(link[s]) : link' = [link EXCEPT ![s] = SubSeq(@, 1, kept)]
    /\ UNCHANGED <<made, loops, registered, boxes>>

\* readLoop and the first part of pushMessage.
ReadPacket(s) ==
    LET p == Head(link[s])
        accepted == At(p.meta, DestServer) # {} /\ At(p.meta, DestChannels) # {}
                    /\ FindMeta(p.meta, DestServer) = Gateway
    IN
    /\ pc[s] = "read" /\ link[s] # << >>
    /\ link' = [link EXCEPT ![s] = Tail(@)]
    /\ IF accepted
       THEN /\ pc' = [pc EXCEPT ![s] = "find"]
            /\ rest' = [rest EXCEPT ![s] = FindMeta(p.meta, DestChannels)]
            /\ \E once \in {DelMeta(p.meta, DestServer)} :
                  payload' = [payload EXCEPT ![s] =
                                [p EXCEPT !.meta = DelMeta(once, DestChannels)]]
       ELSE UNCHANGED loops
    /\ UNCHANGED <<made, up, registered, boxes>>

\* Where the loop goes on with the channels ids still to push to.
GoOn(s, ids) ==
    /\ rest' = [rest EXCEPT ![s] = ids]
    /\ pc' = [pc EXCEPT ![s] = IF ids = << >> THEN "read" ELSE "find"]
    /\ payload' = [payload EXCEPT ![s] = IF ids = << >> THEN Nothing ELSE @]

\* Changed form: pushMessage returns at a channel it does not find.
FindChannelReturns(s) ==
    /\ pc[s] = "find"
    /\ IF Head(rest[s]) \in registered
       THEN pc' = [pc EXCEPT ![s] = "push"] /\ UNCHANGED <<payload, rest>>
       ELSE GoOn(s, << >>)
    /\ UNCHANGED <<wire, registered, boxes>>

\* Changed form: the loop waits for a channel that it does not find.
FindChannelWaits(s) ==
    /\ pc[s] = "find"
    /\ Head(rest[s]) \in registered
    /\ pc' = [pc EXCEPT ![s] = "push"]
    /\ UNCHANGED <<payload, rest>>
    /\ UNCHANGED <<wire, registered, boxes>>

\* Server.Push looks the channel up ("channel not found" is logged)...
FindChannel(s) ==
    /\ pc[s] = "find"
    /\ IF Head(rest[s]) \in registered
       THEN pc' = [pc EXCEPT ![s] = "push"] /\ UNCHANGED <<payload, rest>>
       ELSE GoOn(s, Tail(rest[s]))
    /\ UNCHANGED <<wire, registered, boxes>>

\* Changed form: the channel takes whatever it is given.
PushChannelUnbounded(s) ==
    LET c == Head(rest[s]) IN
    /\ pc[s] = "push"
    /\ queue' = [queue EXCEPT ![c] = Append(@, payload[s])]
    /\ GoOn(s, Tail(rest[s]))
    /\ UNCHANGED <<wire, registered, sent, broken>>

\* Changed form: the loop over the channels starts again.
PushChannelAgain(s) ==
    LET c == Head(rest[s]) IN
    /\ pc[s] = "push"
    /\ Len(queue[c]) < Bound
    /\ queue' = [queue EXCEPT ![c] = Append(@, payload[s])]
    /\ GoOn(s, rest[s])
    /\ UNCHANGED <<wire, registered, sent, broken>>

\* ... and pushes to it, when there is room.  The loop waits here.
PushChannel(s) ==
    LET c == Head(rest[s]) IN
    /\ pc[s] = "push"
    /\ Len(queue[c]) < Bound
    /\ queue' = [queue EXCEPT ![c] = Append(@, payload[s])]
    /\ GoOn(s, Tail(rest[s]))
    /\ UNCHANGED <<wire, registered, sent, broken>>

-----------------------------------------------------------------------------
(* The channels. *)

\* The connection ends and its goroutine unregisters the channel.
Leave(c) ==
    /\ c \in registered
    /\ registered' = registered \ {c}
    /\ UNCHANGED <<wire, loops, boxes>>

Deliver(c) ==
    /\ queue[c] # << >> /\ ~broken[c]
    /\ sent' = [sent EXCEPT ![c] = Append(@, Head(queue[c]))]
    /\ queue' = [queue EXCEPT ![c] = Tail(@)]
    /\ UNCHANGED <<wire, loops, registered, broken>>

\* A write fails, and with it the writer.
Break(c) ==
    /\ queue[c] # << >> /\ ~broken[c]
    /\ broken' = [broken EXCEPT ![c] = TRUE]
    /\ UNCHANGED <<wire, loops, registered, queue, sent>>

ReadLoop(s) == ReadPacket(s) \/ FindChannel(s) \/ PushChannel(s)
Outbox(c) == Deliver(c) \/ Break(c)

Next ==
    \/ \E s \in Services : DispatcherPush(s) \/ RespErr(s) \/ ReadLoop(s) \/ LinkBreaks(s)
    \/ \E c \in Channels : Leave(c) \/ Outbox(c)

Spec == Init /\ [][Next]_vars

\* The read loops and the writers run.  Nobody need push or leave, and no
\* connection need break.
FairSpec ==
    /\ Spec
    /\ \A s \in Services : WF_vars(ReadLoop(s))
    /\ \A c \in Channels : WF_vars(Outbox(c))

-----------------------------------------------------------------------------
(* Properties. *)

Held(c) == sent[c] \o queue[c]

\* Every variable keeps to its type.
TypeOK ==
    /\ \A s \in Services : made[s] \in 0..MaxPushes[s] /\ Len(link[s]) <= made[s]
    /\ pc \in [Services -> {"read", "find", "push"}]
    /\ \A s \in Services : rest[s] = << >> <=> pc[s] = "read"
    /\ registered \subseteq Channels
    /\ \A c \in Channels : Len(queue[c]) <= Bound

\* container.go:177-179: what a client is sent has lost both routing keys and
\* kept the client's own meta, though RespErr adds the server key to a packet
\* that has it already, and DelMeta shortens the list it ranges over.
CleanPayload ==
    \A c \in Channels : \A p \in ToSet(Held(c)) : p.meta = p.user

\* container.go:182-187, 297-315: a channel gets the packets of a service in
\* the order in which the service pushed them, each once and only if it is
\* addressed by it, whatever other services push meanwhile.
InOrder ==
    \A c \in Channels :
        LET held == Held(c)
        IN \A i \in 1..Len(held) :
              /\ c \in ToSet(held[i].to)
              /\ \A j \in 1..Len(held) :
                    i < j /\ held[i].from = held[j].from => held[i].id < held[j].id

\* The packets of s on their way to c: sent by s, in the hand of the read loop,
\* or in the outbox.
Due(s, c) ==
    {p.id : p \in {q \in ToSet(link[s]) : c \in ToSet(q.to)}
                 \cup {q \in {payload[s]} : c \in ToSet(rest[s])}
                 \cup {q \in ToSet(queue[c]) : q.from = s}}

Got(s, c) == {p.id : p \in {q \in ToSet(sent[c]) : q.from = s}}

\* The read loop waits for a writer that is dead.
Stuck(s) ==
    pc[s] = "push" /\ broken[Head(rest[s])] /\ Len(queue[Head(rest[s])]) = Bound

\* container.go:182-187, 298-315: no packet on its way to a channel gets lost,
\* whatever becomes of the other channels it addresses, unless the channel is
\* gone or the connection breaks.
NothingLost ==
    [][\A s \in Services, c \in registered' :
         up = up' => Due(s, c) \subseteq (Due(s, c) \cup Got(s, c))']_vars

\* Each is written in the end, whatever holds the read loops of other services,
\* unless the writer of its channel is dead or a dead writer holds the packet's
\* own read loop for ever.
Arrives ==
    []<>(\A s \in Services, c \in Channels : Due(s, c) = {} \/ broken[c] \/ Stuck(s))

\* What a channel may be given.
Payloads ==
    {[from |-> s, id |-> n, meta |-> user, to |-> to, user |-> user] :
        s \in Services, n \in UNION {1..MaxPushes[t] : t \in Services}, user \in UserMetas \cup {<< >>},
        to \in Addresses \cup {<<c>> : c \in Channels}}

Box(c) == INSTANCE Outbox WITH
    queue <- queue[c], sent <- sent[c], broken <- broken[c]

\* The read loops use every channel as Outbox.tla allows, which is what
\* Channel.tla implements.
UsesOutboxes ==
    /\ \A c \in Channels : Box(c)!Init
    /\ [][\A c \in Channels : Box(c)!Next \/ UNCHANGED Box(c)!vars]_boxes

=============================================================================
