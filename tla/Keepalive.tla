------------------------------ MODULE Keepalive ------------------------------
(***************************************************************************)
(* The heartbeat of one connection and the deadlines at its two ends: the  *)
(* client's ticker and the deadline of its Read (tcp/client.go,            *)
(* websocket/client.go), the read deadline an acceptor sets at the server  *)
(* (services/gateway/serv/handler.go, services/server/serv/handler.go),    *)
(* and the write deadline of the server's channel (channel.go), which two  *)
(* goroutines set, for a client that sends and pings and does not read.    *)
(* Nobody closes the connection on purpose; a host, or the network between *)
(* the two, may fail without a word.                                       *)
(*                                                                         *)
(* Time is counted in ticks, and a ticker or a deadline by what is left of *)
(* it.  One that is due, and a frame that can be read, are served before   *)
(* time goes on: the network and the goroutines are fast beside waits of   *)
(* seconds and minutes.                                                    *)
(***************************************************************************)
EXTENDS Integers

CONSTANTS
    LoginWait,   \* DefaultLoginWait, ten seconds
    Heartbeat,   \* DefaultHeartbeat, 55 seconds
    ReadWait,    \* DefaultReadWait of the client, three minutes
    WriteWait,   \* writeWait of the channel, ten seconds
    ChannelWait, \* readWait of the channel, a minute at the gateway
    Acceptors    \* the acceptors considered, of "deadline" and "none"

\* constants.go:15-18, and the two sorts of acceptors.
ASSUME WaitsAssumption ==
    /\ {LoginWait, Heartbeat, ReadWait, WriteWait, ChannelWait} \subseteq Nat \ {0}
    /\ Heartbeat < ReadWait
    /\ Acceptors \subseteq {"deadline", "none"}

VARIABLES
    acceptor,  \* "deadline": Accept sets a read deadline (gateway, logic service)
               \* "none": it sets none (defaultAcceptor of tcp/server.go)
    server,    \* "accept", "read" (in Readloop), "closed", or "gone" silently
    client,    \* "dial", "up", "ended" (its Read returned an error), or "gone"
    toServer,  \* pings on their way
    toClient,  \* pongs on their way
    beat,      \* until the client's next ping
    cRead,     \* until the client's read deadline
    sRead,     \* until the server's read deadline, or Never
    stalled,   \* the client does not call Read any more, and goes on pinging
    writer,    \* writeLoop: "idle", "blocked" in a write, "dead" after an error
    ponging,   \* Readloop is held up in the write of a pong
    sWrite     \* until the server's write deadline, while a write is blocked

ends == <<acceptor, server, client>>
wires == <<toServer, toClient>>
timers == <<beat, cRead, sRead>>
blocking == <<writer, ponging, sWrite>>
keepaliveVars == <<ends, wires, timers, stalled, blocking>>

Never == LoginWait + 1

\* The connection is accepted, with or without a read deadline.
KeepaliveInit ==
    /\ acceptor \in Acceptors
    /\ server = "accept" /\ client = "dial"
    /\ toServer = 0 /\ toClient = 0
    /\ beat = Heartbeat /\ cRead = ReadWait
    /\ sRead = IF acceptor = "deadline" THEN LoginWait ELSE Never
    /\ stalled = FALSE /\ writer = "idle" /\ ponging = FALSE /\ sWrite = 0

-----------------------------------------------------------------------------
(* The two ends. *)

\* Changed form: the deadline of Accept is taken back.
LoginCleared ==
    /\ server = "accept" /\ client = "dial"
    /\ server' = "read" /\ client' = "up"
    /\ sRead' = Never
    /\ UNCHANGED <<acceptor, wires, beat, cRead, stalled, blocking>>

\* The frame of the login is read and Accept returns: Readloop starts.  At the
\* other end Connect starts the heartbeat, and the first Read sets its
\* deadline.  Readloop sets a write deadline only: that of Accept stays.
Login ==
    /\ server = "accept" /\ client = "dial"
    /\ server' = "read" /\ client' = "up"
    /\ UNCHANGED <<acceptor, wires, timers, stalled, blocking>>

\* Changed form: the ping sets the deadline of the reads with that of its write.
PingSetsDeadline ==
    /\ client = "up" /\ beat = 0
    /\ beat' = Heartbeat
    /\ cRead' = ReadWait
    /\ toServer' = IF server = "read" THEN 1 ELSE toServer
    /\ UNCHANGED <<ends, toClient, sRead, stalled, blocking>>

\* The ticker of heartbeatLoop.  A ping to a host that is gone is lost; of the
\* pings that wait to be read the model keeps one.
Ping ==
    /\ client = "up" /\ beat = 0
    /\ beat' = Heartbeat
    /\ toServer' = IF server = "read" THEN 1 ELSE toServer
    /\ UNCHANGED <<ends, toClient, cRead, sRead, stalled, blocking>>

\* Readloop waits for a frame.
InRead == server = "read" /\ ~ponging

\* Readloop reads a ping, answers it and comes round to SetWriteDeadline,
\* which does nothing for the read deadline.
ServerReads ==
    /\ InRead /\ toServer > 0
    /\ writer # "blocked"
    /\ toServer' = 0
    /\ toClient' = IF stalled THEN toClient ELSE 1
    /\ UNCHANGED <<ends, timers, stalled, blocking>>

\* Changed form: the pong is written by a goroutine of its own.
PongHeldUpAside ==
    /\ InRead /\ toServer > 0
    /\ writer = "blocked"
    /\ toServer' = 0
    /\ sWrite' = ChannelWait
    /\ UNCHANGED <<ends, toClient, timers, stalled, writer, ponging>>

\* Where writeLoop waits for room on the socket the write of the pong waits,
\* too, and it has set the deadline of both.
PongHeldUp ==
    /\ InRead /\ toServer > 0
    /\ writer = "blocked"
    /\ toServer' = 0
    /\ ponging' = TRUE
    /\ sWrite' = WriteWait
    /\ UNCHANGED <<ends, toClient, timers, stalled, writer>>

\* A message, of which the client may send any number at any time: Readloop
\* hands it on, comes round and puts the deadline of a blocked write off.
ServerReadsMessage ==
    /\ InRead /\ client = "up"
    /\ writer = "blocked"
    /\ sWrite' = ChannelWait
    /\ UNCHANGED <<ends, wires, timers, stalled, writer, ponging>>

\* The client's reader stops calling Read.
Stall ==
    /\ client = "up" /\ ~stalled
    /\ stalled' = TRUE
    /\ UNCHANGED <<ends, wires, timers, blocking>>

\* writeLoop sets its deadline and finds no room: the peer does not read, or
\* is gone.
WriteBlocks ==
    /\ server = "read" /\ writer = "idle"
    /\ stalled \/ client = "gone"
    /\ writer' = "blocked"
    /\ sWrite' = WriteWait
    /\ UNCHANGED <<ends, wires, timers, stalled, ponging>>

\* The write fails, and with it writeLoop.  Readloop takes no notice of the
\* error of its own write and reads on.
WriteTimeout ==
    /\ server = "read" /\ writer = "blocked" /\ sWrite = 0
    /\ writer' = "dead"
    /\ ponging' = FALSE
    /\ UNCHANGED <<ends, wires, timers, stalled, sWrite>>

\* Changed form: the deadline is set once, before the first Read.
ClientReadsOnce ==
    /\ client = "up" /\ ~stalled /\ toClient > 0
    /\ toClient' = 0
    /\ UNCHANGED <<ends, toServer, timers, stalled, blocking>>

\* Read returns a frame, and the next call sets the deadline again.
ClientReads ==
    /\ client = "up" /\ ~stalled /\ toClient > 0
    /\ toClient' = 0
    /\ cRead' = ReadWait
    /\ UNCHANGED <<ends, toServer, beat, sRead, stalled, blocking>>

\* ReadFrame fails at the read deadline, in Accept or in Readloop, and the
\* server closes the connection, which ends a blocked write as well.
ServerTimeout ==
    /\ server = "accept" \/ InRead
    /\ sRead = 0
    /\ server' = "closed" /\ writer' = "dead"
    /\ UNCHANGED <<acceptor, client, wires, timers, stalled, ponging, sWrite>>

\* Read fails at its deadline and its caller, the read loop, ends.
ClientTimeout ==
    /\ client = "up" /\ ~stalled /\ cRead = 0
    /\ client' = "ended"
    /\ UNCHANGED <<acceptor, server, wires, timers, stalled, blocking>>

\* The client's Read, or its dial, fails on a connection that was closed.
SeesClosed ==
    /\ server = "closed" /\ client \in {"dial", "up"} /\ ~stalled
    /\ client' = "ended"
    /\ UNCHANGED <<acceptor, server, wires, timers, stalled, blocking>>

\* One end fails, or the network does for it.
Vanish ==
    /\ \/ client \in {"dial", "up"} /\ client' = "gone" /\ server # "gone"
          /\ UNCHANGED <<server, writer>>
       \/ server \in {"accept", "read"} /\ server' = "gone" /\ client # "gone"
          /\ writer' = "dead" /\ UNCHANGED client
    /\ UNCHANGED <<acceptor, wires, timers, stalled, ponging, sWrite>>

-----------------------------------------------------------------------------
(* Time. *)

Due ==
    \/ client = "up" /\ beat = 0
    \/ client = "up" /\ ~stalled /\ (cRead = 0 \/ toClient > 0)
    \/ InRead /\ toServer > 0
    \/ (server = "accept" \/ InRead) /\ sRead = 0
    \/ server = "closed" /\ client \in {"dial", "up"} /\ ~stalled
    \/ writer = "blocked" /\ sWrite = 0

TimePasses ==
    /\ ~Due
    /\ server \in {"accept", "read"} \/ client = "up"
    /\ beat' = IF client = "up" THEN beat - 1 ELSE beat
    /\ cRead' = IF client = "up" /\ ~stalled THEN cRead - 1 ELSE cRead
    /\ sRead' = IF sRead \in {0, Never} THEN sRead ELSE sRead - 1
    /\ sWrite' = IF writer = "blocked" THEN sWrite - 1 ELSE sWrite
    /\ UNCHANGED <<ends, wires, stalled, writer, ponging>>

Served ==
    \/ Ping \/ ServerReads \/ PongHeldUp \/ ClientReads
    \/ ServerTimeout \/ ClientTimeout \/ WriteTimeout \/ SeesClosed

KeepaliveNext ==
    \/ Login \/ Served \/ Vanish \/ TimePasses
    \/ Stall \/ WriteBlocks \/ ServerReadsMessage

KeepaliveSpec == KeepaliveInit /\ [][KeepaliveNext]_keepaliveVars

\* What is due happens, and time passes.  Nobody need log in, vanish or stall,
\* and messages come when the client likes.
KeepaliveFairSpec ==
    KeepaliveSpec /\ WF_keepaliveVars(Served) /\ WF_keepaliveVars(TimePasses)

-----------------------------------------------------------------------------
(* Properties. *)

\* Every variable keeps to its type.
KeepaliveTypeOK ==
    /\ acceptor \in {"deadline", "none"}
    /\ server \in {"accept", "read", "closed", "gone"}
    /\ client \in {"dial", "up", "ended", "gone"}
    /\ toServer \in 0..1 /\ toClient \in 0..1
    /\ beat \in 0..Heartbeat /\ cRead \in 0..ReadWait
    /\ sRead \in 0..Never
    /\ stalled \in BOOLEAN /\ ponging \in BOOLEAN
    /\ writer \in {"idle", "blocked", "dead"}
    /\ sWrite \in 0..(WriteWait + ChannelWait)

BothUp == server = "read" /\ client = "up"

EndStep == server' = "closed" \/ client' = "ended"

\* channel.go:79 and the heartbeat: a connection both ends of which are up, one
\* pinging and the other answering, is not ended by a deadline of either.
KeptAlive == [][BothUp => ~EndStep]_keepaliveVars

\* The same where Accept sets no deadline: the heartbeat renews the client's
\* read deadline (tcp/client.go:108) before it is over, at every ping.
KeptWithoutDeadline == [][acceptor = "none" /\ BothUp => ~EndStep]_keepaliveVars

\* An end that fails without a word is noticed by the other.  The client of
\* such a server leaves its Read (tcp/client.go:109), however many pings the
\* network still takes from it; a gateway or a logic service closes the
\* connection, for which there is only the deadline left over from Accept.
DeadPeerNoticed ==
    /\ (server = "gone" /\ client = "up") ~> (client = "ended" \/ stalled)
    /\ (acceptor = "deadline" /\ client = "gone") ~> (server = "closed")

\* channel.go:79, 89, 103: a write to a client that does not read ends, though
\* every message of this client puts its deadline off.  It is the client's own
\* ping that ends it: the pong holds Readloop up, so that nothing puts the
\* deadline off any more.
BlockedWriteEnds == writer = "blocked" ~> writer # "blocked"

-----------------------------------------------------------------------------
(* How long that takes. *)

Longer(m, n) == IF m > n THEN m ELSE n

\* A number of ticks, at most most, that no step makes larger and each tick
\* makes smaller.
RunsDown(left, after, most) ==
    left \in 0..most /\ after \in 0..left /\ (TimePasses => after < left)

\* A client whose server is gone reads what is left and waits for its deadline.
ClientAlone == server = "gone" /\ client = "up" /\ ~stalled
ClientLeft == IF toClient > 0 THEN ReadWait ELSE cRead

\* A server with a deadline whose client is gone waits for it and, before it
\* can see it, for a pong that is held up.
ServerAlone == acceptor = "deadline" /\ client = "gone" /\ server \in {"accept", "read"}
ServerLeft ==
    LET held == IF ponging THEN sWrite
                ELSE IF toServer > 0 /\ writer # "dead" THEN WriteWait ELSE 0
    IN  Longer(sRead, held)

\* A blocked write waits for the pong that will hold Readloop up, or for the
\* deadline that a last message set.
Blocked == writer = "blocked"
Longest == Longer(WriteWait, ChannelWait)
BlockedLeft ==
    IF ponging THEN sWrite
    ELSE IF toServer > 0 THEN Longest
    ELSE IF client = "up" THEN beat + Longest
    ELSE sWrite

\* tcp/client.go:109, and the deadline left over from Accept: a client leaves
\* its Read within ReadWait of the failure of its server, and such a server
\* closes within LoginWait or, for a pong that is held up, WriteWait.
NoticedInTime ==
    [][/\ ClientAlone /\ ClientAlone' => RunsDown(ClientLeft, ClientLeft', ReadWait)
       /\ ServerAlone /\ ServerAlone' =>
             RunsDown(ServerLeft, ServerLeft', Longer(LoginWait, WriteWait))]_keepaliveVars

\* channel.go:79, 89, 103: a write that blocks ends within a heartbeat and the
\* longer one of the two deadlines, whatever the client sends.
BlockedInTime ==
    [][Blocked /\ Blocked' => RunsDown(BlockedLeft, BlockedLeft', Heartbeat + Longest)]_keepaliveVars

=============================================================================
