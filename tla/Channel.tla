------------------------------ MODULE Channel -------------------------------
(***************************************************************************)
(* One server-side connection (channel.go): the goroutine of the server    *)
(* that runs Readloop and afterwards closes the connection, the writeLoop  *)
(* goroutine that NewChannel starts, and the goroutines that call Push.    *)
(*                                                                         *)
(* A frame leaves the process in several writes (tcp: op code, length,     *)
(* payload; websocket: header, payload), each one atomic on the socket, so *)
(* the wire is a sequence of frame parts.  The event `closed' of           *)
(* ChannelImpl is fired nowhere in the program: the branch of writeLoop    *)
(* that waits for it and the refusal in Push are never taken, and the      *)
(* model has no variable for it.                                           *)
(***************************************************************************)
EXTENDS Integers, Sequences, FiniteSets

CONSTANTS
    Routers,     \* goroutines that call Server.Push
    Handlers,    \* goroutines Readloop starts for the frames it reads
    Payloads,    \* messages; each is pushed at most once
    Cap,         \* capacity of writeChan (5 in the code)
    MaxPings,    \* bound on the ping frames the peer sends
    DataWrites,  \* writes to the socket of one data frame
    PongWrites,  \* writes to the socket of one pong frame
    None,        \* no payload
    Pong         \* the frame that answers a ping

ASSUME CapAssumption == Cap \in Nat \ {0}
ASSUME WritesAssumption == DataWrites \in Nat \ {0} /\ PongWrites \in Nat \ {0}
ASSUME PingsAssumption == MaxPings \in Nat
ASSUME FramesAssumption == None \notin Payloads /\ Pong \notin Payloads

Pushers == Routers \cup Handlers

VARIABLES
    connOpen,    \* the socket has not been closed by this process
    writeChan,   \* the buffered Go channel
    wpc,         \* writeLoop: "select", "first", "drain", "next" or "dead"
    toDrain,     \* chanLen - i of the inner loop of writeLoop
    inHand,      \* << >>, or <<p>> while WriteFrame(OpBinary, p) runs
    part,        \* writes of that frame already made
    wire,        \* the frame parts on the socket, in order
    delivered,   \* payloads whose WriteFrame returned nil
    accepted,    \* payloads taken by writeChan
    fresh,       \* payloads nobody has pushed yet
    pending,     \* pending[p]: the payload of the Push call p is in, or None
    rpc,         \* reader: "read", "pong", "ended" or "closed"
    rpart,       \* writes of the pong already made
    pings        \* pings read so far

writerVars == <<wpc, toDrain, inHand, part, delivered>>
pushVars   == <<accepted, fresh, pending>>
readerVars == <<rpc, rpart, pings>>
vars == <<connOpen, writeChan, writerVars, wire, pushVars, readerVars>>

Token(by, frame, n, last) == [by |-> by, frame |-> frame, part |-> n, last |-> last]

Init ==
    /\ connOpen = TRUE
    /\ writeChan = << >> /\ accepted = << >> /\ delivered = << >> /\ wire = << >>
    /\ wpc = "select" /\ toDrain = 0 /\ inHand = << >> /\ part = 0
    /\ fresh = Payloads
    /\ pending = [p \in Pushers |-> None]
    /\ rpc = "read" /\ rpart = 0 /\ pings = 0

-----------------------------------------------------------------------------
(* Push: HasFired is false always, so the call goes on to the channel send. *)

Call(p, m) ==
    /\ pending[p] = None
    /\ m \in fresh
    /\ fresh' = fresh \ {m}
    /\ pending' = [pending EXCEPT ![p] = m]

\* A goroutine that found the channel in the map pushes to it, whatever has
\* happened to the connection since.
PushCall(p, m) ==
    /\ Call(p, m)
    /\ UNCHANGED <<connOpen, writeChan, writerVars, wire, accepted, readerVars>>

\* Changed form: a send that does not wait for room.
PushSendUnbounded(p) ==
    /\ pending[p] # None
    /\ writeChan' = Append(writeChan, pending[p])
    /\ accepted' = Append(accepted, pending[p])
    /\ pending' = [pending EXCEPT ![p] = None]
    /\ UNCHANGED <<connOpen, writerVars, wire, fresh, readerVars>>

\* The send succeeds when the buffer has room; until then the caller blocks.
PushSend(p) ==
    /\ pending[p] # None
    /\ Len(writeChan) < Cap
    /\ writeChan' = Append(writeChan, pending[p])
    /\ accepted' = Append(accepted, pending[p])
    /\ pending' = [pending EXCEPT ![p] = None]
    /\ UNCHANGED <<connOpen, writerVars, wire, fresh, readerVars>>

-----------------------------------------------------------------------------
(* writeLoop. *)

\* A receive from writeChan: by the select of the outer loop, or the blocking
\* one of the inner loop.
Take(from, to) ==
    /\ wpc = from
    /\ writeChan # << >>
    /\ inHand' = <<Head(writeChan)>>
    /\ writeChan' = Tail(writeChan)
    /\ part' = 0
    /\ wpc' = to
    /\ UNCHANGED <<connOpen, toDrain, delivered, wire, pushVars, readerVars>>

WriterTake  == Take("select", "first")
WriterDrain == Take("drain", "next")

\* Changed form: the inner loop runs once too often (i <= chanLen).
AfterFrameOffByOne ==
    /\ toDrain' = IF wpc = "first" THEN Len(writeChan) + 1 ELSE toDrain - 1
    /\ wpc' = IF toDrain' = 0 THEN "select" ELSE "drain"

\* Changed form: writeLoop returns when it has drained the buffer.
AfterFrameReturns ==
    /\ toDrain' = IF wpc = "first" THEN Len(writeChan) ELSE toDrain - 1
    /\ wpc' = IF toDrain' = 0 THEN "returned" ELSE "drain"

\* Where writeLoop goes when WriteFrame has returned nil: after the first
\* frame it samples len(writeChan), after the others it counts down.
AfterFrame ==
    /\ toDrain' = IF wpc = "first" THEN Len(writeChan) ELSE toDrain - 1
    /\ wpc' = IF toDrain' = 0 THEN "select" ELSE "drain"

\* One write of the frame in hand; the last one ends WriteFrame.
WriterPart ==
    /\ wpc \in {"first", "next"}
    /\ connOpen
    /\ wire' = Append(wire, Token("writer", inHand[1], part + 1, DataWrites))
    /\ \/ /\ part + 1 < DataWrites
          /\ part' = part + 1
          /\ UNCHANGED <<wpc, toDrain, inHand, delivered>>
       \/ /\ part + 1 = DataWrites
          /\ part' = 0
          /\ delivered' = delivered \o inHand
          /\ inHand' = << >>
          /\ AfterFrame
    /\ UNCHANGED <<connOpen, writeChan, pushVars, readerVars>>

\* Changed form: a payload whose write failed is pushed back.
WriterFailRequeues ==
    /\ wpc \in {"first", "next"}
    /\ writeChan' = Append(writeChan, inHand[1])
    /\ inHand' = << >> /\ part' = 0
    /\ AfterFrame
    /\ UNCHANGED <<connOpen, delivered, wire, pushVars, readerVars>>

\* Changed form: the error of WriteFrame is dropped, as Readloop drops it.
WriterFailIgnored ==
    /\ wpc \in {"first", "next"}
    /\ inHand' = << >> /\ part' = 0
    /\ AfterFrame
    /\ UNCHANGED <<connOpen, writeChan, delivered, wire, pushVars, readerVars>>

\* A write fails: the peer is gone, the write deadline has passed or the
\* connection was closed here.  writeLoop returns; the payload is lost.
WriterFail ==
    /\ wpc \in {"first", "next"}
    /\ wpc' = "dead"
    /\ UNCHANGED <<connOpen, writeChan, toDrain, inHand, part, delivered, wire,
                   pushVars, readerVars>>

Writer == WriterTake \/ WriterDrain \/ WriterPart \/ WriterFail

-----------------------------------------------------------------------------
(* Readloop and what the server's goroutine does after it.  A frame with an *)
(* empty payload is skipped and leaves no trace.                            *)

\* go msgLst.Receive(c, payload): the new goroutine answers with a Push.
ReaderData(h, m) ==
    /\ rpc = "read"
    /\ connOpen
    /\ Call(h, m)
    /\ UNCHANGED <<connOpen, writeChan, writerVars, wire, accepted, readerVars>>

ReaderPing ==
    /\ rpc = "read"
    /\ connOpen
    /\ pings < MaxPings
    /\ pings' = pings + 1
    /\ rpc' = "pong"
    /\ rpart' = 0
    /\ UNCHANGED <<connOpen, writeChan, writerVars, wire, pushVars>>

\* The pong is written by the reading goroutine, beside writeLoop.
PongPart ==
    /\ rpc = "pong"
    /\ connOpen
    /\ wire' = Append(wire, Token("reader", Pong, rpart + 1, PongWrites))
    /\ rpart' = rpart + 1
    /\ rpc' = IF rpart' = PongWrites THEN "read" ELSE "pong"
    /\ UNCHANGED <<connOpen, writeChan, writerVars, pushVars, pings>>

\* _ = c.WriteFrame(OpPong, nil): the error is dropped and reading goes on.
PongFail ==
    /\ rpc = "pong"
    /\ rpc' = "read"
    /\ UNCHANGED <<connOpen, writeChan, writerVars, wire, pushVars, rpart, pings>>

\* ReadFrame fails or the peer sends OpClose.
ReaderEnd ==
    /\ rpc = "read"
    /\ rpc' = "ended"
    /\ UNCHANGED <<connOpen, writeChan, writerVars, wire, pushVars, rpart, pings>>

\* channel.Close() of the server's goroutine: Conn.Close of the socket and
\* nothing else.  Server.Remove and Disconnect come before it.
OwnerClose ==
    /\ rpc = "ended"
    /\ rpc' = "closed"
    /\ connOpen' = FALSE
    /\ UNCHANGED <<writeChan, writerVars, wire, pushVars, rpart, pings>>

\* Server.Shutdown closes the channels it finds in the map.
ShutdownClose ==
    /\ rpc # "closed"
    /\ connOpen
    /\ connOpen' = FALSE
    /\ UNCHANGED <<writeChan, writerVars, wire, pushVars, readerVars>>

Next ==
    \/ \E p \in Routers, m \in Payloads : PushCall(p, m)
    \/ \E p \in Pushers : PushSend(p)
    \/ WriterTake \/ WriterDrain \/ WriterPart \/ WriterFail
    \/ \E h \in Handlers, m \in Payloads : ReaderData(h, m)
    \/ ReaderPing \/ PongPart \/ PongFail \/ ReaderEnd
    \/ OwnerClose \/ ShutdownClose

Spec == Init /\ [][Next]_vars

(***************************************************************************)
(* Fairness.  A write on the socket has a deadline, so it succeeds or      *)
(* fails; a goroutine that can run is run (weak fairness of the writer).   *)
(* Go serves the senders blocked on a channel in the order they came: a    *)
(* Push that finds room again and again gets in (strong fairness).         *)
(***************************************************************************)
FairSpec ==
    /\ Spec
    /\ WF_vars(Writer)
    /\ \A p \in Pushers : SF_vars(PushSend(p))

-----------------------------------------------------------------------------
(* Properties. *)

\* Every variable keeps to its type; the buffer of NewChannel (channel.go:29)
\* never holds more than its capacity.
TypeOK ==
    /\ connOpen \in BOOLEAN
    /\ writeChan \in Seq(Payloads) /\ Len(writeChan) <= Cap
    /\ wpc \in {"select", "first", "drain", "next", "dead"}
    /\ toDrain \in Int
    /\ inHand \in Seq(Payloads) /\ Len(inHand) <= 1
    /\ part \in 0..(DataWrites - 1)
    /\ wire \in Seq([by : {"writer", "reader"}, frame : Payloads \cup {Pong},
                     part : Nat, last : Nat])
    /\ delivered \in Seq(Payloads) /\ accepted \in Seq(Payloads)
    /\ fresh \subseteq Payloads
    /\ pending \in [Pushers -> Payloads \cup {None}]
    /\ rpc \in {"read", "pong", "ended", "closed"}
    /\ rpart \in 0..PongWrites
    /\ pings \in 0..MaxPings

\* The receive of the inner loop (channel.go:52) has no select around it: it
\* must find a payload, or writeLoop would sit in it, deaf to `closed'.  It
\* does, because nobody else receives between the sample of len and the loop.
DrainNeverBlocks == wpc = "drain" => toDrain \in 1..Len(writeChan)

\* What Push accepted is what was written, what is being written (or was lost
\* with the writer) and what waits, in the order of acceptance: batching the
\* writes (channel.go:50-57) neither reorders, repeats nor skips a payload.
Fifo == accepted = delivered \o inHand \o writeChan

\* The peer can cut the stream into frames: a part follows the part before it
\* of the same frame, and a frame starts only where another one has ended
\* ("WriteFrame write a frame to w", tcp/connection.go:62).
WholeFrames ==
    \A i \in 1..Len(wire) :
        IF wire[i].part = 1
        THEN i > 1 => wire[i - 1].part = wire[i - 1].last
        ELSE i > 1 /\ wire[i - 1] = [wire[i] EXCEPT !.part = @ - 1]

\* Without pings the writer is alone on the wire, and its frames stay whole
\* even if a write fails in the middle of one (channel.go:46-49, 53-56).
WholeUnlessPinged == pings = 0 => WholeFrames

\* The channel is a bounded outbox: Outbox.tla, from an accepted payload on.
Out == INSTANCE Outbox WITH
    Bound  <- Cap + 1,
    queue  <- inHand \o writeChan,
    sent   <- delivered,
    broken <- (wpc = "dead")

\* Every accepted payload is written, in order, unless a write fails, after
\* which none is (channel.go:42-66 against the promise of Outbox).
OutboxSpec == Out!FairSpec

\* A goroutine blocked in Push (channel.go:115) goes on, or the writer has
\* failed: only a dead writer can hold a pusher for ever.
PushReturns ==
    \A p \in Pushers : pending[p] # None ~> (pending[p] = None \/ wpc = "dead")

\* Push answers "channel has closed" for a channel that was (channel.go:112-
\* 113): at any rate it does not block for ever on one.
PushReturnsOnceClosed ==
    \A p \in Pushers : pending[p] # None /\ ~connOpen ~> pending[p] = None
=============================================================================
