------------------------------- MODULE Client -------------------------------
(***************************************************************************)
(* The client end of a connection (tcp/client.go, websocket/client.go):    *)
(* Connect, Send and Close, called by any goroutine at any time, and the   *)
(* heartbeat loop that a Connect starts.  Read changes no state but its    *)
(* deadline, which is in Keepalive.tla.                                    *)
(*                                                                         *)
(* A frame leaves in several writes.  Of the bytes on a socket the model   *)
(* keeps the goroutine whose frame is unfinished, and whether another one  *)
(* has written into such a frame.                                          *)
(***************************************************************************)
EXTENDS Naturals, FiniteSets

CONSTANTS
    Connectors,     \* goroutines that call Connect, once each; the socket
                    \*   one of them dials goes by its name
    Senders,        \* goroutines that call Send, once each
    Closers,        \* goroutines that call Close, once each
    Kinds,          \* the clients considered, of "tcp" and "ws"
    DataWrites,     \* writes to the socket of one data frame
    ControlWrites,  \* writes of a ping or close frame
    None            \* no socket, no goroutine

ASSUME WritesAssumption == DataWrites \in Nat \ {0} /\ ControlWrites \in Nat \ {0}
ASSUME DistinctAssumption ==
    /\ None \notin Connectors \cup Senders \cup Closers
    /\ Connectors \cap Senders = {} /\ Connectors \cap Closers = {}
    /\ Senders \cap Closers = {}

Threads == Connectors \cup Senders \cup Closers

VARIABLES
    kind,     \* which of the two clients it is
    state,    \* 0, or 1 for connected or connecting
    conn,     \* the socket in c.conn, or None for nil
    open,     \* sockets that are open at this end
    mutex,    \* holder of the client's mutex
    once,     \* the client's Once: "fresh", "running" or "spent"
    pc,       \* pc[t]: where t is.  A Connector whose Connect succeeded goes
              \*   on as the heartbeat loop that the Connect started
    on,       \* on[t]: the socket t writes its frame to
    left,     \* left[t]: writes of that frame still to make
    line,     \* line[s]: whose frame on s is unfinished, or None
    torn      \* sockets on which a frame was written into another

writing == <<on, left, line, torn>>
clientVars == <<kind, state, conn, open, mutex, once, pc, writing>>

ClientInit ==
    /\ kind \in Kinds
    /\ state = 0 /\ conn = None /\ open = {}
    /\ mutex = None /\ once = "fresh"
    /\ pc = [t \in Threads |-> "idle"]
    /\ on = [t \in Threads |-> None]
    /\ left = [t \in Threads |-> 0]
    /\ line = [s \in Connectors |-> None]
    /\ torn = {}

Goto(t, from, to) == pc[t] = from /\ pc' = [pc EXCEPT ![t] = to]

\* The deferred unlock.
Unlock(t) == mutex' = IF mutex = t THEN None ELSE mutex

-----------------------------------------------------------------------------
(* Connect. *)

\* Changed form: state is set without a test of its old value.
ConnectStartAnyway(t) ==
    /\ Goto(t, "idle", "dial")
    /\ state' = 1
    /\ UNCHANGED <<kind, conn, open, mutex, once, writing>>

ConnectStart(t) ==
    /\ Goto(t, "idle", "dial")
    /\ state = 0
    /\ state' = 1
    /\ UNCHANGED <<kind, conn, open, mutex, once, writing>>

\* "client has connected".
ConnectRefused(t) ==
    /\ Goto(t, "idle", "failed")
    /\ state = 1
    /\ UNCHANGED <<kind, state, conn, open, mutex, once, writing>>

DialFail(t) ==
    /\ Goto(t, "dial", "failed")
    /\ state' = 0
    /\ UNCHANGED <<kind, conn, open, mutex, once, writing>>

DialOK(t) ==
    /\ Goto(t, "dial", "tick")
    /\ conn' = t
    /\ open' = open \cup {t}
    /\ UNCHANGED <<kind, state, mutex, once, writing>>

-----------------------------------------------------------------------------
(* One frame.  Send and the ping of the websocket client hold the mutex;   *)
(* the ping of the tcp client and both clients' Close do not.              *)

Writes(t) == IF t \in Senders THEN DataWrites ELSE ControlWrites

Start(t) ==
    /\ on' = [on EXCEPT ![t] = conn]
    /\ left' = [left EXCEPT ![t] = Writes(t)]
    /\ UNCHANGED <<line, torn>>

\* The call of t has returned (a Close remembers where it wrote).
Finish(t) ==
    /\ on' = [on EXCEPT ![t] = IF t \in Closers THEN @ ELSE None]
    /\ left' = [left EXCEPT ![t] = 0]

\* Where t goes on after its frame, and after an error.
Done(t) == IF t \in Senders THEN "sent" ELSE IF t \in Closers THEN "shut" ELSE "tick"

\* Changed form: the heartbeat loop takes no notice of an error.
FailedGoesOn(t) == IF t \in Senders THEN "failed" ELSE IF t \in Closers THEN "shut" ELSE "tick"

Failed(t) == IF t \in Senders THEN "failed" ELSE IF t \in Closers THEN "shut" ELSE "ended"

Lock(t) ==
    /\ Goto(t, "lock", "deadline")
    /\ mutex = None
    /\ mutex' = t
    /\ UNCHANGED <<kind, state, conn, open, once, writing>>

\* SetWriteDeadline on c.conn: it fails on a closed socket, and c.conn may
\* still be nil where Send came while Connect was dialling.
Deadline(t) ==
    /\ pc[t] = "deadline"
    /\ \/ /\ conn = None
          /\ Goto(t, "deadline", "panicked")
          /\ UNCHANGED <<mutex, writing>>
       \/ /\ conn \in Connectors \ open
          /\ Goto(t, "deadline", Failed(t))
          /\ Unlock(t)
          /\ UNCHANGED writing
       \/ /\ conn \in open
          /\ Goto(t, "deadline", "write")
          /\ Start(t)
          /\ UNCHANGED mutex
    /\ UNCHANGED <<kind, state, conn, open, once>>

Part(t) ==
    LET s == on[t]
        inFrame == left[t] < Writes(t)
    IN
    /\ pc[t] = "write"
    /\ s \in open
    /\ torn' = IF line[s] = (IF inFrame THEN t ELSE None) THEN torn ELSE torn \cup {s}
    /\ line' = [line EXCEPT ![s] = IF left[t] = 1 THEN None ELSE t]
    /\ IF left[t] = 1
       THEN Goto(t, "write", Done(t)) /\ Unlock(t) /\ Finish(t)
       ELSE left' = [left EXCEPT ![t] = @ - 1] /\ UNCHANGED <<pc, mutex, on>>
    /\ UNCHANGED <<kind, state, conn, open, once>>

\* Changed form: the error path keeps the mutex.
WriteFailLocked(t) ==
    /\ Goto(t, "write", Failed(t))
    /\ Finish(t)
    /\ UNCHANGED <<kind, state, conn, open, mutex, once, line, torn>>

\* The deadline passed, the peer is gone, or the socket was closed here.  The
\* writes made so far remain, and the socket stays open.
WriteFail(t) ==
    /\ Goto(t, "write", Failed(t))
    /\ Unlock(t)
    /\ Finish(t)
    /\ UNCHANGED <<kind, state, conn, open, once, line, torn>>

-----------------------------------------------------------------------------
(* Send and the heartbeat. *)

SendCall(t) ==
    /\ Goto(t, "idle", IF state = 0 THEN "refused" ELSE "lock")
    /\ UNCHANGED <<kind, state, conn, open, mutex, once, writing>>

\* Changed form: the websocket client pings without the mutex, too.
TickUnlocked(t) ==
    /\ Goto(t, "tick", "deadline")
    /\ UNCHANGED <<kind, state, conn, open, mutex, once, writing>>

Tick(t) ==
    /\ Goto(t, "tick", IF kind = "ws" THEN "lock" ELSE "deadline")
    /\ UNCHANGED <<kind, state, conn, open, mutex, once, writing>>

-----------------------------------------------------------------------------
(* Close. *)

\* tcp: the first call does it all within the Once, or nothing where c.conn is
\* nil, and then no later call does anything either.
CloseFirst(t) ==
    /\ kind = "tcp"
    /\ once = "fresh"
    /\ IF conn = None
       THEN Goto(t, "idle", "closed") /\ once' = "spent" /\ UNCHANGED writing
       ELSE Goto(t, "idle", "write") /\ once' = "running" /\ Start(t)
    /\ UNCHANGED <<kind, state, conn, open, mutex>>

\* tcp: a later call returns when the first one has.
CloseLater(t) ==
    /\ kind = "tcp"
    /\ once = "spent"
    /\ Goto(t, "idle", "closed")
    /\ UNCHANGED <<kind, state, conn, open, mutex, once, writing>>

\* ws: the Once covers the test of nil only, so each call goes on to write.
CloseEach(t) ==
    /\ kind = "ws"
    /\ once' = "spent"
    /\ IF conn = None
       THEN Goto(t, "idle", "panicked") /\ UNCHANGED writing
       ELSE Goto(t, "idle", "write") /\ Start(t)
    /\ UNCHANGED <<kind, state, conn, open, mutex>>

\* Changed form: the socket is left to the peer to close.
CloseSocketForgotten(t) ==
    /\ Goto(t, "shut", "reset")
    /\ UNCHANGED <<kind, state, conn, open, mutex, once, writing>>

\* c.conn.Close(), of the socket that is in c.conn by now.
CloseSocket(t) ==
    /\ Goto(t, "shut", "reset")
    /\ open' = open \ {conn}
    /\ UNCHANGED <<kind, state, conn, mutex, once, writing>>

\* The compare-and-swap of state, and the end of the Once.
CloseState(t) ==
    /\ Goto(t, "reset", "closed")
    /\ state' = 0
    /\ once' = "spent"
    /\ UNCHANGED <<kind, conn, open, mutex, writing>>
-----------------------------------------------------------------------------

\* A panic in any goroutine ends the process.
Crashed == \E t \in Threads : pc[t] = "panicked"

Connect(t) == ConnectStart(t) \/ ConnectRefused(t)
Dial(t) == DialFail(t) \/ DialOK(t)
Write(t) == Deadline(t) \/ Part(t) \/ WriteFail(t)
Close(t) == CloseFirst(t) \/ CloseLater(t) \/ CloseEach(t)

ClientNext ==
    /\ ~Crashed
    /\ \/ \E t \in Connectors : Connect(t) \/ Dial(t) \/ Tick(t)
       \/ \E t \in Senders : SendCall(t)
       \/ \E t \in Closers : Close(t) \/ CloseSocket(t) \/ CloseState(t)
       \/ \E t \in Threads : Lock(t) \/ Write(t)

ClientSpec == ClientInit /\ [][ClientNext]_clientVars

(***************************************************************************)
(* Fairness.  A dial ends (it has a timeout), the ticker ticks, a write    *)
(* ends (a deadline was set before the first frame), the goroutine of a    *)
(* Close runs on, and a mutex that is free again and again is granted.     *)
(* Nobody need call Connect, Send or Close.                                *)
(***************************************************************************)
ConnectorRuns(t) == ~Crashed /\ (Dial(t) \/ Tick(t) \/ Write(t))
SenderRuns(t) == ~Crashed /\ Write(t)
CloserRuns(t) == ~Crashed /\ (CloseSocket(t) \/ CloseState(t) \/ Write(t))
Locks(t) == ~Crashed /\ Lock(t)

ClientFairSpec ==
    /\ ClientSpec
    /\ \A t \in Connectors : WF_clientVars(ConnectorRuns(t))
    /\ \A t \in Senders : WF_clientVars(SenderRuns(t))
    /\ \A t \in Closers : WF_clientVars(CloserRuns(t))
    /\ \A t \in Connectors \cup Senders : SF_clientVars(Locks(t))

-----------------------------------------------------------------------------
(* Properties. *)

\* Every variable keeps to its type.
ClientTypeOK ==
    /\ kind \in Kinds
    /\ state \in 0..1
    /\ conn \in Connectors \cup {None} /\ open \subseteq Connectors
    /\ mutex \in Threads \cup {None}
    /\ once \in {"fresh", "running", "spent"}
    /\ pc \in [Threads -> {"idle", "dial", "tick", "lock", "deadline", "write", "sent",
                           "shut", "reset", "closed", "refused", "failed", "ended",
                           "panicked"}]
    /\ on \in [Threads -> Connectors \cup {None}]
    /\ left \in [Threads -> 0..(DataWrites + ControlWrites)]
    /\ line \in [Connectors -> Connectors \cup Senders \cup Closers \cup {None}]
    /\ torn \subseteq Connectors

\* So far nothing has failed and nobody has called Close.
Quiet ==
    /\ \A t \in Threads : pc[t] \notin {"failed", "ended"}
    /\ \A t \in Closers : pc[t] = "idle"

\* The websocket client writes whole frames, pings between the messages of any
\* number of goroutines, until a write fails or Close is called
\* (websocket/client.go:101-112, 147-156).
WholeUntilTrouble == kind = "ws" /\ Quiet => torn = {}

\* The tcp client never holds two open sockets, however Connect and Close
\* alternate: state is 1 from before a dial until after the socket is closed
\* (tcp/client.go:62-78, 153-162).
SingleSocket == kind = "tcp" => \A s, r \in open : s = r

\* A Close of the websocket client that returned has closed the socket it
\* wrote its close frame to, or a later one took its place
\* (websocket/client.go:126-135).
CloseCloses ==
    \A t \in Closers : pc[t] = "closed" /\ kind = "ws" => on[t] \notin open \/ conn # on[t]

\* A Send that was let in returns: whoever holds the mutex gives it back.
SendReturns ==
    \A t \in Senders : pc[t] = "lock" ~> pc[t] \in {"sent", "failed"} \/ Crashed

\* When the client stays closed, the loop of its heartbeat ends, also one that
\* outlived its own socket (tcp/client.go:121-139).
HeartbeatsEnd ==
    <>[](conn # None /\ conn \notin open) =>
        <>[](\A t \in Connectors : pc[t] \in {"idle", "failed", "ended"} \/ Crashed)
=============================================================================
