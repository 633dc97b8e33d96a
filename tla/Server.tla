------------------------------- MODULE Server -------------------------------
(***************************************************************************)
(* The connection registry of a server (tcp/server.go, websocket/server.go *)
(* and the ChannelMap of channels.go): one goroutine per connection that   *)
(* accepts, registers, reads, unregisters and closes it, beside Shutdown.  *)
(* Both servers take the same steps; they differ in one test of Shutdown.  *)
(* What happens inside Readloop and Push is Channel.tla.                   *)
(***************************************************************************)
EXTENDS Naturals, FiniteSets

CONSTANTS
    Conns,      \* connections; each connects at most once
    Ids,        \* channel ids
    Acceptors,  \* the acceptors considered, of "unique" and "chosen"
    Protocols,  \* the servers considered, of "tcp" and "ws"
    None        \* no connection, no id

ASSUME NoneAssumption == None \notin Conns \cup Ids

VARIABLES
    acceptor,   \* "unique": Accept makes a new id for each connection
                \*   (generateChannelID of the gateway, defaultAcceptor)
                \* "chosen": the id is the one the peer sends (logic service)
    protocol,   \* which of the two servers it is
    pc,         \* pc[c]: where the goroutine of connection c is
    cid,        \* cid[c]: the id Accept returned for c
    open,       \* open[c]: the socket is not closed by this process
    channels,   \* channels[id]: the ChannelMap, a sync.Map
    announced,  \* connections Accept let in (a gateway has forwarded the login)
    signedOut,  \* connections Disconnect was called for
    spc,        \* Shutdown: "idle", "range", "closing", "returned", "expired"
    unvisited,  \* ids Range has still to visit
    snapshot,   \* the channels All has collected and Shutdown not yet closed
    registered  \* connections in the map when Shutdown began (history)

connVars == <<pc, cid, open, channels, announced, signedOut>>
shutVars == <<spc, unvisited, snapshot, registered>>
deployed == <<acceptor, protocol>>  \* chosen once and for all
vars == <<deployed, connVars, shutVars>>

Init ==
    /\ acceptor \in Acceptors /\ protocol \in Protocols
    /\ pc = [c \in Conns |-> "idle"]
    /\ cid = [c \in Conns |-> None]
    /\ open = [c \in Conns |-> FALSE]
    /\ channels = [id \in Ids |-> None]
    /\ announced = {} /\ signedOut = {}
    /\ spc = "idle" /\ unvisited = {} /\ snapshot = {} /\ registered = {}

Goto(c, from, to) == pc[c] = from /\ pc' = [pc EXCEPT ![c] = to]
CloseConn(c) == open' = [open EXCEPT ![c] = FALSE]

-----------------------------------------------------------------------------
(* The goroutine of a connection. *)

\* lst.Accept and the go statement, or the HTTP server calling the handler.
\* The listener is never closed: connections come after Shutdown, too.
Connect(c) ==
    /\ Goto(c, "idle", "accept")
    /\ open' = [open EXCEPT ![c] = TRUE]
    /\ UNCHANGED <<cid, channels, announced, signedOut, shutVars, deployed>>

\* Changed form: the sequence in the ids starts again.
AcceptOKRepeats(c, id) ==
    /\ Goto(c, "accept", "check")
    /\ cid' = [cid EXCEPT ![c] = id]
    /\ announced' = announced \cup {c}
    /\ UNCHANGED <<open, channels, signedOut, shutVars, deployed>>

AcceptOK(c, id) ==
    /\ Goto(c, "accept", "check")
    /\ acceptor = "unique" => \A d \in Conns : cid[d] # id
    /\ cid' = [cid EXCEPT ![c] = id]
    /\ announced' = announced \cup {c}
    /\ UNCHANGED <<open, channels, signedOut, shutVars, deployed>>

AcceptFail(c) ==
    /\ Goto(c, "accept", "done")
    /\ CloseConn(c)
    /\ UNCHANGED <<cid, channels, announced, signedOut, shutVars, deployed>>

\* s.Get(id) finds a channel: "channelId is repeated".
CheckRepeated(c) ==
    /\ Goto(c, "check", "done")
    /\ channels[cid[c]] # None
    /\ CloseConn(c)
    /\ UNCHANGED <<cid, channels, announced, signedOut, shutVars, deployed>>

CheckFree(c) ==
    /\ Goto(c, "check", "add")
    /\ channels[cid[c]] = None
    /\ UNCHANGED <<cid, open, channels, announced, signedOut, shutVars, deployed>>

\* s.Add(channel): a Store, over whatever the key holds by now.
Add(c) ==
    /\ Goto(c, "add", "read")
    /\ channels' = [channels EXCEPT ![cid[c]] = c]
    /\ UNCHANGED <<cid, open, announced, signedOut, shutVars, deployed>>

\* Readloop returns: the peer left, or the socket was closed by Shutdown.
ReadEnd(c) ==
    /\ Goto(c, "read", "remove")
    /\ UNCHANGED <<cid, open, channels, announced, signedOut, shutVars, deployed>>

\* Changed form: the entry stays in the map.
RemoveForgotten(c) ==
    /\ Goto(c, "remove", "disconnect")
    /\ UNCHANGED <<cid, open, channels, announced, signedOut, shutVars, deployed>>

\* Changed form: the state listener is not told.
RemoveQuietly(c) ==
    /\ Goto(c, "remove", "close")
    /\ channels' = [channels EXCEPT ![cid[c]] = None]
    /\ UNCHANGED <<cid, open, announced, signedOut, shutVars, deployed>>

\* s.Remove(channel.ID()): by key, whichever channel is there.
Remove(c) ==
    /\ Goto(c, "remove", "disconnect")
    /\ channels' = [channels EXCEPT ![cid[c]] = None]
    /\ UNCHANGED <<cid, open, announced, signedOut, shutVars, deployed>>

Disconnect(c) ==
    /\ Goto(c, "disconnect", "close")
    /\ signedOut' = signedOut \cup {c}
    /\ UNCHANGED <<cid, open, channels, announced, shutVars, deployed>>

Close(c) ==
    /\ Goto(c, "close", "done")
    /\ CloseConn(c)
    /\ UNCHANGED <<cid, channels, announced, signedOut, shutVars, deployed>>

\* What the goroutine does without waiting for the peer.
Proceed(c) ==
    \/ CheckRepeated(c) \/ CheckFree(c) \/ Add(c)
    \/ Remove(c) \/ Disconnect(c) \/ Close(c)

-----------------------------------------------------------------------------
(* Shutdown, the first call (s.Do); later calls do nothing. *)

\* Whether the body goes on after the compare-and-swap of quit, which always
\* succeeds here: the websocket server takes success for "already closed".
GoesOn == protocol = "tcp"

ShutdownStart ==
    /\ spc = "idle"
    /\ registered' = {channels[id] : id \in Ids} \ {None}
    /\ IF GoesOn
       THEN spc' = "range" /\ unvisited' = Ids
       ELSE spc' = "returned" /\ UNCHANGED unvisited
    /\ UNCHANGED <<connVars, deployed, snapshot>>

\* sync.Map.Range is no snapshot: each key shows its value at its own moment.
RangeVisit(id) ==
    /\ spc = "range"
    /\ id \in unvisited
    /\ unvisited' = unvisited \ {id}
    /\ snapshot' = snapshot \cup ({channels[id]} \ {None})
    /\ UNCHANGED <<connVars, deployed, spc, registered>>

RangeEnd ==
    /\ spc = "range"
    /\ unvisited = {}
    /\ spc' = IF snapshot = {} THEN "returned" ELSE "closing"
    /\ UNCHANGED <<connVars, deployed, unvisited, snapshot, registered>>

\* Changed form: the loop ends after the first channel.
ShutdownCloseFirst(c, expired) ==
    /\ spc = "closing"
    /\ c \in snapshot
    /\ CloseConn(c)
    /\ snapshot' = snapshot \ {c}
    /\ spc' = IF expired THEN "expired" ELSE "returned"
    /\ UNCHANGED <<pc, cid, channels, announced, signedOut, unvisited, registered,
                   deployed>>

\* ch.Close() of the next channel, then the test of ctx.Done().
ShutdownClose(c, expired) ==
    /\ spc = "closing"
    /\ c \in snapshot
    /\ CloseConn(c)
    /\ snapshot' = snapshot \ {c}
    /\ spc' = IF expired THEN "expired"
              ELSE IF snapshot' = {} THEN "returned" ELSE "closing"
    /\ UNCHANGED <<pc, cid, channels, announced, signedOut, unvisited, registered,
                   deployed>>

Shutdown ==
    \/ ShutdownStart \/ RangeEnd
    \/ \E id \in Ids : RangeVisit(id)
    \/ \E c \in Conns, expired \in BOOLEAN : ShutdownClose(c, expired)

Next ==
    \/ \E c \in Conns :
        \/ Connect(c) \/ AcceptFail(c) \/ ReadEnd(c)
        \/ \E id \in Ids : AcceptOK(c, id)
        \/ Proceed(c)
    \/ Shutdown

Spec == Init /\ [][Next]_vars

(***************************************************************************)
(* Fairness.  A goroutine that waits for nobody runs.  The peer need not   *)
(* ever leave, so a read ends for certain only when the socket was closed. *)
(* Shutdown, once called, runs; nobody has to call it.                     *)
(***************************************************************************)
FairSpec ==
    /\ Spec
    /\ \A c \in Conns : WF_vars(Proceed(c)) /\ WF_vars(~open[c] /\ ReadEnd(c))
    /\ WF_vars(spc # "idle" /\ Shutdown)

-----------------------------------------------------------------------------
(* Properties. *)

\* Every variable keeps to its type.
TypeOK ==
    /\ acceptor \in Acceptors /\ protocol \in Protocols
    /\ pc \in [Conns -> {"idle", "accept", "check", "add", "read", "remove",
                         "disconnect", "close", "done"}]
    /\ cid \in [Conns -> Ids \cup {None}]
    /\ open \in [Conns -> BOOLEAN]
    /\ channels \in [Ids -> Conns \cup {None}]
    /\ announced \subseteq Conns /\ signedOut \subseteq Conns
    /\ spc \in {"idle", "range", "closing", "returned", "expired"}
    /\ unvisited \subseteq Ids
    /\ snapshot \subseteq Conns /\ registered \subseteq Conns

\* The map never holds a channel under another channel's id, nor one whose
\* goroutine has unregistered it: Push reaches no finished connection through
\* the map, even where ids repeat (Add and Remove go by key,
\* tcp/server.go:134, 140).
NoStaleEntry ==
    \A id \in Ids : channels[id] # None =>
        cid[channels[id]] = id /\ pc[channels[id]] \in {"read", "remove"}

\* Where ids are unique, a connection that is being read can be pushed to by
\* its id: "provide Push method so that upper service could send msg to channel
\* designated" (server.go:14; tcp/server.go:125-141).
Reachable ==
    acceptor = "unique" => \A c \in Conns : pc[c] = "read" => channels[cid[c]] = c

\* Two connections are never served under one id ("channelId is repeated",
\* tcp/server.go:125-130).
OneConnectionPerId ==
    \A c, d \in Conns : pc[c] = "read" /\ pc[d] = "read" /\ cid[c] = cid[d] => c = d

\* Where ids are unique, a connection Accept let in (so that the gateway has
\* forwarded its login) does not end without its sign-out ("when disconnect
\* detected, notify upper layer", server.go:13): a refusal after Accept would leave the user logged in.
AnnouncedIsSignedOut ==
    acceptor = "unique" => \A c \in announced : pc[c] = "done" => c \in signedOut

\* When Shutdown has run to its end, each connection that was registered when
\* it began is closed, or its own goroutine is about to close it
\* (tcp/server.go:168-177 against goroutines that unregister meanwhile).
ShutdownCloses ==
    spc = "returned" =>
        \A c \in registered : ~open[c] \/ pc[c] \in {"disconnect", "close"}

\* Where ids are unique, the tcp server keeps that promise.  The websocket
\* server does not: the test of its compare-and-swap is inverted, and it
\* returns before it has closed anything (websocket/server.go:144).
TcpShutdownCloses == protocol = "tcp" /\ acceptor = "unique" => ShutdownCloses

\* Shutdown comes to an end.  A connection it closed is unregistered and signed
\* out by its own goroutine, and that holds for all a tcp server had when
\* Shutdown began.
ShutdownDrains ==
    /\ spc # "idle" ~> spc \in {"returned", "expired"}
    /\ \A c \in Conns : ~open[c] /\ pc[c] = "read" ~> c \in signedOut /\ pc[c] = "done"
    /\ \A c \in Conns :
        spc = "returned" /\ c \in registered /\ protocol = "tcp" /\ acceptor = "unique"
            ~> pc[c] = "done"
=============================================================================
