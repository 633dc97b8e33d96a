---------------------------- MODULE ClientProofs ----------------------------
(***************************************************************************)
(* Proofs about Client, for any number of goroutines that connect, send    *)
(* and close and any number of writes of a frame, and about Keepalive.     *)
(***************************************************************************)
EXTENDS Client, Keepalive, TLAPS

\* Where each sort of goroutine can be.
PcOK ==
    /\ \A t \in Connectors : pc[t] \in {"idle", "dial", "tick", "lock", "deadline", "write",
                                        "failed", "ended", "panicked"}
    /\ \A t \in Senders : pc[t] \in {"idle", "lock", "deadline", "write", "sent", "refused",
                                     "failed", "panicked"}
    /\ \A t \in Closers : pc[t] \in {"idle", "write", "shut", "reset", "closed", "panicked"}

\* Who writes has a socket to write to and something left to write.
WriteInv ==
    \A t \in Threads : pc[t] = "write" => on[t] \in Connectors /\ left[t] \in 1..Writes(t)

Typed == ClientTypeOK /\ PcOK /\ WriteInv

\* A Close that is past its test of the Once.
Closing(t) == pc[t] \in {"write", "shut", "reset"}

\* The Once is running exactly while one Close is.
OnceInv ==
    /\ \A t \in Closers : Closing(t) => once = "running"
    /\ \A t, u \in Closers : Closing(t) /\ Closing(u) => t = u

\* state is 1 while somebody dials, while a socket is open and, as long as the
\* Once is not spent, from the first connection on.
StateInv ==
    /\ open \subseteq {conn}
    /\ state = 0 => open = {}
    /\ \A t \in Connectors : pc[t] = "dial" => state = 1 /\ open = {}
    /\ \A t, u \in Connectors : pc[t] = "dial" /\ pc[u] = "dial" => t = u
    /\ once # "spent" /\ conn # None =>
        state = 1 /\ \A t \in Connectors : pc[t] # "dial"
    /\ once = "running" => conn # None
    /\ \A t \in Closers : pc[t] = "reset" => open = {}

TcpInv == OnceInv /\ StateInv

LEMMA TypedInit == ClientInit => Typed
<1> SUFFICES ASSUME ClientInit PROVE Typed
  OBVIOUS
<1> USE DistinctAssumption, WritesAssumption DEF ClientInit, Threads
<1>1. ClientTypeOK
  <2>1. /\ kind \in Kinds /\ state \in 0..1 /\ conn \in Connectors \cup {None}
        /\ open \subseteq Connectors /\ mutex \in Threads \cup {None}
        /\ once \in {"fresh", "running", "spent"} /\ torn \subseteq Connectors
    OBVIOUS
  <2>2. pc \in [Threads -> {"idle", "dial", "tick", "lock", "deadline", "write", "sent",
                           "shut", "reset", "closed", "refused", "failed", "ended",
                           "panicked"}]
    OBVIOUS
  <2>3. /\ on \in [Threads -> Connectors \cup {None}]
        /\ left \in [Threads -> 0..(DataWrites + ControlWrites)]
        /\ line \in [Connectors -> Connectors \cup Senders \cup Closers \cup {None}]
    OBVIOUS
  <2>4. QED
    BY <2>1, <2>2, <2>3 DEF ClientTypeOK
<1>2. PcOK
  BY DEF PcOK
<1>3. WriteInv
  BY DEF WriteInv
<1>4. QED
  BY <1>1, <1>2, <1>3 DEF Typed
LEMMA WritesPositive ==
    ASSUME NEW t \in Threads
    PROVE  Writes(t) \in 1..(DataWrites + ControlWrites)
BY WritesAssumption DEF Writes

\* Every step keeps the types.
LEMMA TypedNext == Typed /\ [ClientNext]_clientVars => Typed'
<1> SUFFICES ASSUME Typed, [ClientNext]_clientVars PROVE Typed'
  OBVIOUS
<1> USE DistinctAssumption, WritesAssumption
        DEF Typed, ClientTypeOK, PcOK, WriteInv, Threads, Goto, writing
<1>1. ASSUME NEW t \in Connectors, Connect(t) PROVE Typed'
  BY <1>1 DEF Connect, ConnectStart, ConnectRefused
<1>2. ASSUME NEW t \in Connectors, Dial(t) PROVE Typed'
  BY <1>2 DEF Dial, DialFail, DialOK
<1>3. ASSUME NEW t \in Connectors, Tick(t) PROVE Typed'
  BY <1>3 DEF Tick
<1>4. ASSUME NEW t \in Senders, SendCall(t) PROVE Typed'
  BY <1>4 DEF SendCall
<1>5. ASSUME NEW t \in Closers, CloseFirst(t) \/ CloseEach(t) PROVE Typed'
  <2>1. Writes(t) \in 1..(DataWrites + ControlWrites)
    BY WritesPositive
  <2>2. CASE conn = None
    BY <1>5, <2>2 DEF CloseFirst, CloseEach
  <2>3. CASE conn # None
    BY <1>5, <2>1, <2>3 DEF CloseFirst, CloseEach, Start
  <2>4. QED
    BY <2>2, <2>3
<1>6. ASSUME NEW t \in Closers, CloseLater(t) PROVE Typed'
  BY <1>6 DEF CloseLater
<1>7. ASSUME NEW t \in Closers, CloseSocket(t) \/ CloseState(t) PROVE Typed'
  BY <1>7 DEF CloseSocket, CloseState
<1>8. ASSUME NEW t \in Threads, Lock(t) PROVE Typed'
  BY <1>8 DEF Lock
<1>9. ASSUME NEW t \in Threads, Deadline(t) PROVE Typed'
  <2>1. Writes(t) \in 1..(DataWrites + ControlWrites)
    BY WritesPositive
  <2>2. pc[t] = "deadline"
    BY <1>9 DEF Deadline
  <2>3. CASE Goto(t, "deadline", "panicked") /\ UNCHANGED <<mutex, writing>>
    BY <1>9, <2>2, <2>3 DEF Deadline
  <2>4. CASE Goto(t, "deadline", Failed(t)) /\ Unlock(t) /\ UNCHANGED writing
    BY <1>9, <2>2, <2>4 DEF Deadline, Unlock, Failed
  <2>5. CASE conn \in open /\ Goto(t, "deadline", "write") /\ Start(t) /\ UNCHANGED mutex
    BY <1>9, <2>1, <2>2, <2>5 DEF Deadline, Start
  <2>6. QED
    BY <1>9, <2>3, <2>4, <2>5 DEF Deadline
<1>10. ASSUME NEW t \in Threads, Part(t) PROVE Typed'
  <2>1. /\ pc[t] = "write" /\ on[t] \in Connectors /\ left[t] \in 1..Writes(t)
        /\ Writes(t) \in 1..(DataWrites + ControlWrites)
    BY <1>10, WritesPositive DEF Part
  <2>2. /\ torn' \subseteq Connectors
        /\ line' \in [Connectors -> Connectors \cup Senders \cup Closers \cup {None}]
        /\ UNCHANGED <<kind, state, conn, open, once>>
    BY <1>10, <2>1 DEF Part
  <2>3. CASE left[t] = 1
    <3>1. Goto(t, "write", Done(t)) /\ Unlock(t) /\ Finish(t)
      BY <1>10, <2>3 DEF Part
    <3>2. QED
      BY <2>1, <2>2, <3>1 DEF Done, Unlock, Finish
  <2>4. CASE left[t] # 1
    <3>1. left' = [left EXCEPT ![t] = @ - 1] /\ UNCHANGED <<pc, mutex, on>>
      BY <1>10, <2>4 DEF Part
    <3>2. left[t] - 1 \in 1..Writes(t) /\ left[t] - 1 \in 0..(DataWrites + ControlWrites)
      BY <2>1, <2>4
    <3>3. QED
      BY <2>1, <2>2, <3>1, <3>2 DEF Writes
  <2>5. QED
    BY <2>3, <2>4
<1>11. ASSUME NEW t \in Threads, WriteFail(t) PROVE Typed'
  BY <1>11 DEF WriteFail, Failed, Unlock, Finish
<1>12. CASE UNCHANGED clientVars
  BY <1>12 DEF clientVars, Writes
<1>13. QED
  BY <1>1, <1>2, <1>3, <1>4, <1>5, <1>6, <1>7, <1>8, <1>9, <1>10, <1>11, <1>12
     DEF ClientNext, Close, Write

\* The variables of a client keep to their types, and no write goes to a
\* socket that is not there.
THEOREM TypeCorrect == ClientSpec => [](ClientTypeOK /\ WriteInv)
<1>1. Typed => ClientTypeOK /\ WriteInv
  BY DEF Typed
<1>2. QED
  BY <1>1, TypedInit, TypedNext, PTL DEF ClientSpec

LEMMA TcpInit == ClientInit => TcpInv
<1> SUFFICES ASSUME ClientInit PROVE TcpInv
  OBVIOUS
<1> QED
  BY DistinctAssumption DEF ClientInit, TcpInv, OnceInv, StateInv, Closing, Threads

\* Every step of a tcp client keeps TcpInv.
LEMMA TcpNext == kind = "tcp" /\ Typed /\ TcpInv /\ [ClientNext]_clientVars => TcpInv'
<1> SUFFICES ASSUME kind = "tcp", Typed, TcpInv, [ClientNext]_clientVars PROVE TcpInv'
  OBVIOUS
<1> USE DistinctAssumption
        DEF ClientTypeOK, PcOK, Typed, TcpInv, OnceInv, StateInv, Closing, Threads, Goto
<1>1. ASSUME NEW t \in Connectors, ConnectStart(t) PROVE TcpInv'
  BY <1>1 DEF ConnectStart
<1>2. ASSUME NEW t \in Connectors, ConnectRefused(t) \/ DialFail(t) PROVE TcpInv'
  BY <1>2 DEF ConnectRefused, DialFail
<1>3. ASSUME NEW t \in Connectors, DialOK(t) PROVE TcpInv'
  <2>1. pc[t] = "dial" /\ open = {} /\ state = 1
    BY <1>3 DEF DialOK
  <2>2. once = "spent" \/ conn = None
    BY <2>1
  <2>3. \A x \in Closers : ~Closing(x)
    BY <2>2
  <2>4. QED
    BY <1>3, <2>1, <2>2, <2>3 DEF DialOK
<1>4. ASSUME NEW t \in Connectors, Tick(t) PROVE TcpInv'
  BY <1>4 DEF Tick
<1>5. ASSUME NEW t \in Senders, SendCall(t) PROVE TcpInv'
  BY <1>5 DEF SendCall
<1>6. ASSUME NEW t \in Closers, CloseFirst(t) PROVE TcpInv'
  BY <1>6 DEF CloseFirst
<1>7. ASSUME NEW t \in Closers, CloseLater(t) \/ CloseEach(t) PROVE TcpInv'
  BY <1>7 DEF CloseLater, CloseEach
<1>8. ASSUME NEW t \in Closers, CloseSocket(t) PROVE TcpInv'
  BY <1>8 DEF CloseSocket
<1>9. ASSUME NEW t \in Closers, CloseState(t) PROVE TcpInv'
  BY <1>9 DEF CloseState
<1>10. ASSUME NEW t \in Threads, Lock(t) PROVE TcpInv'
  BY <1>10 DEF Lock
<1>11. ASSUME NEW t \in Threads, Deadline(t) PROVE TcpInv'
  <2>1. t \notin Closers /\ pc[t] = "deadline"
    BY <1>11 DEF Deadline
  <2>2. \E l \in {"panicked", "failed", "ended", "write"} : pc' = [pc EXCEPT ![t] = l]
    BY <1>11, <2>1 DEF Deadline, Failed
  <2>3. QED
    BY <1>11, <2>1, <2>2 DEF Deadline
<1>12. ASSUME NEW t \in Threads, Part(t) PROVE TcpInv'
  <2>1. pc[t] = "write" /\ UNCHANGED <<state, conn, open, once>>
    BY <1>12 DEF Part
  <2>2. CASE pc' = pc
    BY <2>1, <2>2
  <2>3. CASE pc' = [pc EXCEPT ![t] = Done(t)]
    BY <2>1, <2>3 DEF Done
  <2>4. QED
    BY <1>12, <2>2, <2>3 DEF Part
<1>13. ASSUME NEW t \in Threads, WriteFail(t) PROVE TcpInv'
  <2>1. /\ pc[t] = "write" /\ pc' = [pc EXCEPT ![t] = Failed(t)]
        /\ UNCHANGED <<state, conn, open, once>>
    BY <1>13 DEF WriteFail
  <2>2. QED
    BY <2>1 DEF Failed
<1>14. CASE UNCHANGED clientVars
  BY <1>14 DEF clientVars
<1>15. QED
  BY <1>1, <1>2, <1>3, <1>4, <1>5, <1>6, <1>7, <1>8, <1>9, <1>10, <1>11, <1>12, <1>13,
     <1>14 DEF ClientNext, Connect, Dial, Close, Write

\* Which client it is does not change.
LEMMA KindStays == [ClientNext]_clientVars => kind' = kind
BY DEF ClientNext, Connect, ConnectStart, ConnectRefused, Dial, DialFail, DialOK, Tick, SendCall,
       Close, CloseFirst, CloseLater, CloseEach, CloseSocket, CloseState, Lock, Write,
       Deadline, Part, WriteFail, clientVars

\* The tcp client never holds two open sockets, however many goroutines call
\* Connect and Close in whatever order (tcp/client.go:57-89, 153-162).
THEOREM SocketsSafe == ClientSpec => []SingleSocket
<1> DEFINE TInv == Typed /\ (kind = "tcp" => TcpInv)
<1>1. ClientInit => TInv
  BY TypedInit, TcpInit
<1>2. TInv /\ [ClientNext]_clientVars => TInv'
  BY TypedNext, TcpNext, KindStays
<1>3. TInv => SingleSocket
  BY DEF SingleSocket, TcpInv, StateInv
<1>4. QED
  BY <1>1, <1>2, <1>3, PTL DEF ClientSpec

-----------------------------------------------------------------------------
(* The frames of the websocket client. *)

\* Who sets the deadline for a message or ping, or writes it, has the mutex.
MutexInv ==
    \A t \in Connectors \cup Senders : pc[t] \in {"deadline", "write"} => mutex = t

\* The frame that is unfinished on a socket is the one its writer is in.
LineInv ==
    /\ \A s \in Connectors : line[s] # None =>
        /\ pc[line[s]] = "write" /\ on[line[s]] = s
        /\ left[line[s]] < Writes(line[s])
    /\ \A t \in Threads : pc[t] = "write" /\ left[t] < Writes(t) => line[on[t]] = t

WsInv == MutexInv /\ (Quiet => torn = {} /\ LineInv)

LEMMA WsInit == ClientInit => WsInv
<1> SUFFICES ASSUME ClientInit PROVE WsInv
  OBVIOUS
<1> QED
  BY DistinctAssumption DEF ClientInit, WsInv, MutexInv, LineInv, Threads

\* Only one goroutine writes at a time, so each frame begins where the one
\* before it has ended.
LEMMA WsNext == kind = "ws" /\ Typed /\ WsInv /\ [ClientNext]_clientVars => WsInv'
<1> SUFFICES ASSUME kind = "ws", Typed, WsInv, [ClientNext]_clientVars PROVE WsInv'
  OBVIOUS
<1> USE DistinctAssumption, WritesAssumption
        DEF ClientTypeOK, PcOK, WriteInv, Typed, WsInv, MutexInv, LineInv, Quiet, Threads, Goto,
            Writes, writing
<1>1. ASSUME NEW t \in Connectors, Connect(t) PROVE WsInv'
  BY <1>1 DEF Connect, ConnectStart, ConnectRefused
<1>2. ASSUME NEW t \in Connectors, Dial(t) PROVE WsInv'
  BY <1>2 DEF Dial, DialFail, DialOK
<1>3. ASSUME NEW t \in Connectors, Tick(t) PROVE WsInv'
  BY <1>3 DEF Tick
<1>4. ASSUME NEW t \in Senders, SendCall(t) PROVE WsInv'
  BY <1>4 DEF SendCall
<1>5. ASSUME NEW t \in Closers, Close(t) \/ CloseSocket(t) \/ CloseState(t) PROVE WsInv'
  <2>1. ~Quiet'
    BY <1>5 DEF Close, CloseFirst, CloseLater, CloseEach, CloseSocket, CloseState
  <2>2. MutexInv'
    BY <1>5 DEF Close, CloseFirst, CloseLater, CloseEach, CloseSocket, CloseState
  <2>3. QED
    BY <2>1, <2>2
<1>6. ASSUME NEW t \in Threads, Lock(t) PROVE WsInv'
  BY <1>6 DEF Lock
<1>7. ASSUME NEW t \in Threads, Deadline(t) PROVE WsInv'
  <2>1. t \in Connectors \cup Senders /\ pc[t] = "deadline" /\ mutex = t
    BY <1>7 DEF Deadline
  <2>2. CASE Goto(t, "deadline", "panicked") /\ UNCHANGED <<mutex, writing>>
    BY <2>1, <2>2
  <2>3. CASE Goto(t, "deadline", Failed(t)) /\ Unlock(t) /\ UNCHANGED writing
    BY <2>1, <2>3 DEF Unlock, Failed
  <2>4. CASE conn \in open /\ Goto(t, "deadline", "write") /\ Start(t) /\ UNCHANGED mutex
    <3>1. left'[t] = Writes(t) /\ UNCHANGED <<line, torn>>
      BY <2>1, <2>4 DEF Start
    <3>2. QED
      BY <2>1, <2>4, <3>1 DEF Start
  <2>5. QED
    BY <1>7, <2>2, <2>3, <2>4 DEF Deadline
<1>8. ASSUME NEW t \in Threads, Part(t) PROVE WsInv'
  <2> DEFINE s == on[t]
  <2>1. /\ pc[t] = "write" /\ s \in Connectors /\ left[t] \in 1..Writes(t)
        /\ line' = [line EXCEPT ![s] = IF left[t] = 1 THEN None ELSE t]
        /\ torn' = IF line[s] = (IF left[t] < Writes(t) THEN t ELSE None)
                   THEN torn ELSE torn \cup {s}
    BY <1>8 DEF Part
  <2>2. CASE left[t] = 1
    <3>1. Goto(t, "write", Done(t)) /\ Unlock(t) /\ Finish(t)
      BY <1>8, <2>2 DEF Part
    <3>2. MutexInv'
      BY <2>1, <3>1 DEF Done, Unlock
    <3>3. ASSUME Quiet' PROVE torn' = {} /\ LineInv'
      <4>1. Quiet /\ t \in Connectors \cup Senders
        BY <2>1, <3>1, <3>3 DEF Done
      <4>2. \A u \in Threads : pc[u] = "write" => u = t
        BY <2>1, <4>1
      <4>3. torn' = {}
        BY <2>1, <4>1, <4>2
      <4>4. \A r \in Connectors : line'[r] = None
        BY <2>1, <2>2, <4>1, <4>2
      <4>5. \A u \in Threads : pc'[u] # "write"
        BY <2>1, <3>1, <4>2 DEF Done
      <4>6. QED
        BY <4>3, <4>4, <4>5
    <3>4. QED
      BY <3>2, <3>3
  <2>3. CASE left[t] # 1
    <3>1. left' = [left EXCEPT ![t] = @ - 1] /\ UNCHANGED <<pc, mutex, on>>
      BY <1>8, <2>3 DEF Part
    <3>2. ASSUME Quiet' PROVE torn' = {} /\ LineInv'
      <4>1. Quiet /\ t \in Connectors \cup Senders
        BY <2>1, <3>1, <3>2
      <4>2. \A u \in Threads : pc[u] = "write" => u = t
        BY <2>1, <4>1
      <4>3. torn' = {}
        BY <2>1, <4>1, <4>2
      <4>4. line'[s] = t /\ \A r \in Connectors : r # s => line'[r] = None
        BY <2>1, <2>3, <4>1, <4>2
      <4>5. left'[t] < Writes(t)
        BY <2>1, <3>1
      <4>6. QED
        BY <2>1, <3>1, <4>2, <4>3, <4>4, <4>5
    <3>3. QED
      BY <3>1, <3>2
  <2>4. QED
    BY <2>2, <2>3
<1>9. ASSUME NEW t \in Threads, WriteFail(t) PROVE WsInv'
  <2>1. ~Quiet'
    BY <1>9 DEF WriteFail, Failed
  <2>2. MutexInv'
    BY <1>9 DEF WriteFail, Failed, Unlock
  <2>3. QED
    BY <2>1, <2>2
<1>10. CASE UNCHANGED clientVars
  BY <1>10 DEF clientVars
<1>11. QED
  BY <1>1, <1>2, <1>3, <1>4, <1>5, <1>6, <1>7, <1>8, <1>9, <1>10 DEF ClientNext, Write

\* Until something fails or somebody closes, the websocket client's messages
\* and pings are whole frames (websocket/client.go:101-112, 147-156).
THEOREM FramesSafe == ClientSpec => []WholeUntilTrouble
<1> DEFINE WInv == Typed /\ (kind = "ws" => WsInv)
<1>1. ClientInit => WInv
  BY TypedInit, WsInit
<1>2. WInv /\ [ClientNext]_clientVars => WInv'
  BY TypedNext, WsNext, KindStays
<1>3. WInv => WholeUntilTrouble
  BY DEF WholeUntilTrouble, WsInv
<1>4. QED
  BY <1>1, <1>2, <1>3, PTL DEF ClientSpec

-----------------------------------------------------------------------------
(* What Close has closed. *)

\* A socket that is in c.conn, or that a frame was written to, was dialled.
Dialled ==
    \A u \in Connectors : pc[u] \in {"idle", "dial"} => conn # u /\ \A t \in Threads : on[t] # u

\* A Close that is past conn.Close() left its socket closed, or replaced.
Closed ==
    \A t \in Closers : pc[t] \in {"reset", "closed"} => on[t] \notin open \/ conn # on[t]

\* No frame was written before the call.
Unwritten == \A t \in Closers : pc[t] = "idle" => on[t] = None

CloseInv == Dialled /\ Closed /\ Unwritten

LEMMA CloseInit == ClientInit => CloseInv
<1> SUFFICES ASSUME ClientInit PROVE CloseInv
  OBVIOUS
<1> QED
  BY DistinctAssumption DEF ClientInit, CloseInv, Dialled, Closed, Unwritten, Threads

\* A socket that is closed stays so: nobody dials under its name again.
LEMMA CloseNext == Typed /\ CloseInv /\ [ClientNext]_clientVars => CloseInv'
<1> SUFFICES ASSUME Typed, CloseInv, [ClientNext]_clientVars PROVE CloseInv'
  OBVIOUS
<1> USE DistinctAssumption
        DEF ClientTypeOK, PcOK, WriteInv, Typed, CloseInv, Dialled, Closed, Unwritten,
            Threads, Goto, writing
<1>1. ASSUME NEW t \in Connectors, Connect(t) PROVE CloseInv'
  BY <1>1 DEF Connect, ConnectStart, ConnectRefused
<1>2. ASSUME NEW t \in Connectors, Dial(t) PROVE CloseInv'
  BY <1>2 DEF Dial, DialFail, DialOK
<1>3. ASSUME NEW t \in Connectors, Tick(t) PROVE CloseInv'
  BY <1>3 DEF Tick
<1>4. ASSUME NEW t \in Senders, SendCall(t) PROVE CloseInv'
  BY <1>4 DEF SendCall
<1>5. ASSUME NEW t \in Closers, Close(t) PROVE CloseInv'
  BY <1>5 DEF Close, CloseFirst, CloseLater, CloseEach, Start
<1>6. ASSUME NEW t \in Closers, CloseSocket(t) \/ CloseState(t) PROVE CloseInv'
  BY <1>6 DEF CloseSocket, CloseState
<1>7. ASSUME NEW t \in Threads, Lock(t) PROVE CloseInv'
  BY <1>7 DEF Lock
<1>8. ASSUME NEW t \in Threads, Deadline(t) PROVE CloseInv'
  <2>1. t \in Connectors \cup Senders /\ pc[t] = "deadline" /\ UNCHANGED <<conn, open>>
    BY <1>8 DEF Deadline
  <2>2. \E l \in {"panicked", "failed", "ended", "write"} : pc' = [pc EXCEPT ![t] = l]
    BY <1>8, <2>1 DEF Deadline, Failed
  <2>3. on' = on \/ on' = [on EXCEPT ![t] = conn]
    BY <1>8 DEF Deadline, Start
  <2>4. QED
    BY <2>1, <2>2, <2>3
<1>9. ASSUME NEW t \in Threads, Part(t) \/ WriteFail(t) PROVE CloseInv'
  <2>1. pc[t] = "write" /\ UNCHANGED <<conn, open>>
    BY <1>9 DEF Part, WriteFail
  <2>2. \/ UNCHANGED <<pc, on>>
        \/ /\ pc' = [pc EXCEPT ![t] = Done(t)] \/ pc' = [pc EXCEPT ![t] = Failed(t)]
           /\ on' = [on EXCEPT ![t] = IF t \in Closers THEN @ ELSE None]
    BY <1>9 DEF Part, WriteFail, Finish
  <2>3. QED
    BY <2>1, <2>2 DEF Done, Failed
<1>10. CASE UNCHANGED clientVars
  BY <1>10 DEF clientVars
<1>11. QED
  BY <1>1, <1>2, <1>3, <1>4, <1>5, <1>6, <1>7, <1>8, <1>9, <1>10 DEF ClientNext, Write

\* A Close of the websocket client that returned has closed the socket it wrote
\* its close frame to, unless a later one took its place: however many calls of
\* Close and Connect overlap (websocket/client.go:114-135).
THEOREM CloseSafe == ClientSpec => []CloseCloses
<1>1. Typed /\ CloseInv => CloseCloses
  BY DEF CloseInv, Closed, CloseCloses
<1>2. ClientInit => Typed /\ CloseInv
  BY TypedInit, CloseInit
<1>3. Typed /\ CloseInv /\ [ClientNext]_clientVars => (Typed /\ CloseInv)'
  BY TypedNext, CloseNext
<1>4. QED
  BY <1>1, <1>2, <1>3, PTL DEF ClientSpec

-----------------------------------------------------------------------------
(* Keepalive, for every length of the heartbeat and of the deadlines. *)

\* Nothing is sent before the login.
Fresh == client = "dial" =>
    stalled = FALSE /\ toServer = 0 /\ toClient = 0 /\ beat = Heartbeat /\ cRead = ReadWait

\* Only a client that stalled or vanished leaves writeLoop blocked, and Readloop
\* is held up by a blocked writeLoop, neither before Accept has returned.
Unblocked ==
    /\ writer = "blocked" => stalled \/ client = "gone"
    /\ ponging => writer = "blocked" \/ server # "read"
    /\ server = "accept" => writer = "idle" /\ ponging = FALSE /\ toServer = 0

\* Between two pings the client's deadline runs with the ticker, later by
\* ReadWait - Heartbeat; while a ping or its pong is on its way the ticker has
\* just been reset.
Paced == BothUp /\ ~stalled =>
    \/ toServer + toClient = 0 /\ cRead = beat + (ReadWait - Heartbeat)
    \/ toServer + toClient = 1 /\ beat = Heartbeat /\ cRead = ReadWait - Heartbeat

\* What the deadlines of the server's end are set to, and where.
Limits ==
    /\ acceptor = "none" => sRead = Never
    /\ acceptor = "deadline" => sRead <= LoginWait
    /\ sWrite <= WriteWait \/ sWrite <= ChannelWait
    /\ ponging => sWrite <= WriteWait
    /\ writer = "blocked" => server = "read"

KeepInv == KeepaliveTypeOK /\ Fresh /\ Unblocked /\ Paced /\ Limits

LEMMA Waits ==
    /\ LoginWait \in Nat /\ Heartbeat \in Nat /\ ReadWait \in Nat
    /\ WriteWait \in Nat /\ ChannelWait \in Nat
    /\ LoginWait > 0 /\ Heartbeat > 0 /\ WriteWait > 0 /\ ChannelWait > 0
    /\ Heartbeat < ReadWait
BY WaitsAssumption

LEMMA KeepInit == KeepaliveInit => KeepInv
<1> SUFFICES ASSUME KeepaliveInit PROVE KeepInv
  OBVIOUS
<1> USE Waits DEF KeepaliveInit
<1>1. KeepaliveTypeOK
  <2>1. acceptor \in {"deadline", "none"}
    BY WaitsAssumption
  <2>2. sRead \in 0..Never
    BY DEF Never
  <2>3. stalled \in BOOLEAN /\ ponging \in BOOLEAN
    BY Zenon
  <2> QED
    BY <2>1, <2>2, <2>3 DEF KeepaliveTypeOK
<1>2. Fresh /\ Unblocked /\ Paced
  BY DEF Fresh, Unblocked, Paced, BothUp
<1>3. Limits
  BY DEF Limits
<1> QED
  BY <1>1, <1>2, <1>3 DEF KeepInv

LEMMA KeepNext == KeepInv /\ [KeepaliveNext]_keepaliveVars => KeepInv'
<1> SUFFICES ASSUME KeepInv, [KeepaliveNext]_keepaliveVars PROVE KeepInv'
  OBVIOUS
<1> USE Waits DEF KeepInv, KeepaliveTypeOK, Fresh, Unblocked, Paced, Limits, BothUp, Never,
    ends, wires, timers, blocking, InRead
<1>1. CASE Login
  BY <1>1 DEF Login
<1>2. CASE Ping
  <2>1. KeepaliveTypeOK' /\ Fresh' /\ Unblocked'
    BY <1>2 DEF Ping
  <2>2. Paced'
    BY <1>2 DEF Ping
  <2> QED
    BY <1>2, <2>1, <2>2 DEF Ping
<1>3. CASE ServerReads
  BY <1>3 DEF ServerReads
<1>4. CASE ClientReads
  BY <1>4 DEF ClientReads
<1>5. CASE ServerTimeout
  BY <1>5 DEF ServerTimeout
<1>6. CASE ClientTimeout
  BY <1>6 DEF ClientTimeout
<1>7. CASE SeesClosed
  BY <1>7 DEF SeesClosed
<1>8. CASE Vanish
  BY <1>8 DEF Vanish
<1>9. CASE TimePasses
  BY <1>9 DEF TimePasses, Due
<1>10. CASE PongHeldUp
  BY <1>10 DEF PongHeldUp
<1>11. CASE WriteTimeout
  BY <1>11 DEF WriteTimeout
<1>12. CASE Stall
  BY <1>12 DEF Stall
<1>13. CASE WriteBlocks
  BY <1>13 DEF WriteBlocks
<1>14. CASE ServerReadsMessage
  BY <1>14 DEF ServerReadsMessage
<1>15. CASE UNCHANGED keepaliveVars
  BY <1>15 DEF keepaliveVars
<1> QED
  BY <1>1, <1>2, <1>3, <1>4, <1>5, <1>6, <1>7, <1>8, <1>9, <1>10, <1>11, <1>12, <1>13,
    <1>14, <1>15 DEF KeepaliveNext, Served

\* The deadlines and the ticker never run below zero: what is due is served
\* before time goes on.
THEOREM KeepaliveTypeCorrect == KeepaliveSpec => []KeepaliveTypeOK
<1>1. KeepInv => KeepaliveTypeOK
  BY DEF KeepInv
<1> QED
  BY <1>1, KeepInit, KeepNext, PTL DEF KeepaliveSpec

\* With no deadline at the server, a connection both ends of which are up is
\* ended by neither, whatever the two waits are, as long as the heartbeat is
\* the shorter one.
THEOREM HeartbeatKeeps == KeepaliveSpec => KeptWithoutDeadline
<1>1. KeepInv /\ [KeepaliveNext]_keepaliveVars => [acceptor = "none" /\ BothUp => ~EndStep]_keepaliveVars
  <2> SUFFICES ASSUME KeepInv, KeepaliveNext, acceptor = "none", BothUp PROVE ~EndStep
    BY DEF keepaliveVars
  <2>1. server = "read" /\ client = "up" /\ sRead > 0 /\ (stalled \/ cRead > 0)
    BY WaitsAssumption DEF KeepInv, KeepaliveTypeOK, Paced, Limits, BothUp, Never
  <2> QED
    BY <2>1 DEF KeepaliveNext, Served, Login, Ping, ServerReads, PongHeldUp, ServerReadsMessage,
      Stall, WriteBlocks, WriteTimeout, ClientReads, ServerTimeout, ClientTimeout, SeesClosed,
      Vanish, TimePasses, EndStep, InRead, ends, wires
<1> QED
  BY <1>1, KeepInit, KeepNext, PTL DEF KeepaliveSpec, KeptWithoutDeadline

\* A client that is alone sends pings into the void and reads what is left;
\* neither gives it more time.
LEMMA ClientRunsDown ==
    ASSUME KeepInv, KeepaliveNext, ClientAlone, ClientAlone'
    PROVE  RunsDown(ClientLeft, ClientLeft', ReadWait)
<1> USE Waits DEF KeepInv, KeepaliveTypeOK, ClientAlone, ClientLeft, InRead
<1>1. ClientLeft \in 0..ReadWait
  OBVIOUS
<1>2. CASE TimePasses
  BY <1>1, <1>2 DEF TimePasses, Due, RunsDown, ends, wires
<1>3. CASE ~TimePasses /\ Ping
  BY <1>1, <1>3 DEF Ping, RunsDown, ends
<1>4. CASE ~TimePasses /\ ClientReads
  BY <1>1, <1>4 DEF ClientReads, RunsDown, ends
<1>5. UNCHANGED <<toClient, cRead>> /\ ~TimePasses => RunsDown(ClientLeft, ClientLeft', ReadWait)
  BY <1>1 DEF RunsDown
<1>6. \/ TimePasses \/ Ping \/ ClientReads \/ UNCHANGED <<toClient, cRead>>
  BY DEF KeepaliveNext, Served, Login, ServerReads, PongHeldUp, ServerReadsMessage, Stall,
    WriteBlocks, WriteTimeout, ServerTimeout, ClientTimeout, SeesClosed, Vanish, wires, timers
<1>7. QED
  BY <1>2, <1>3, <1>4, <1>5, <1>6

\* A server that is alone reads the ping that is left, and one write of its own
\* may block, once.
LEMMA ServerRunsDown ==
    ASSUME KeepInv, KeepaliveNext, ServerAlone, ServerAlone'
    PROVE  RunsDown(ServerLeft, ServerLeft', Longer(LoginWait, WriteWait))
<1> DEFINE rest == ServerLeft
           most == Longer(LoginWait, WriteWait)
<1> USE Waits DEF KeepInv, KeepaliveTypeOK, Unblocked, Limits, ServerAlone, ServerLeft, Longer,
    Never, InRead, ends, wires, timers, blocking
<1>1. rest \in 0..most
  OBVIOUS
<1>2. CASE TimePasses
  <2>1. /\ InRead => toServer = 0 /\ sRead > 0
        /\ server = "accept" => sRead > 0
        /\ writer = "blocked" => sWrite > 0
        /\ sRead' = IF sRead = 0 THEN 0 ELSE sRead - 1
        /\ sWrite' = IF writer = "blocked" THEN sWrite - 1 ELSE sWrite
        /\ UNCHANGED <<server, toServer, writer, ponging>>
    BY <1>2 DEF TimePasses, Due
  <2>2. CASE InRead
    BY <2>1, <2>2 DEF RunsDown
  <2>3. CASE server = "accept"
    BY <1>2, <2>1, <2>3 DEF RunsDown
  <2>4. CASE server = "read" /\ ponging
    BY <2>1, <2>4 DEF RunsDown
  <2>5. QED
    BY <2>2, <2>3, <2>4
<1>3. ASSUME ~TimePasses PROVE rest' \in 0..rest
  <2>1. CASE ServerReads
    BY <2>1 DEF ServerReads
  <2>2. CASE PongHeldUp
    BY <2>2 DEF PongHeldUp
  <2>3. CASE WriteBlocks
    BY <2>3 DEF WriteBlocks
  <2>4. CASE WriteTimeout
    BY <2>4 DEF WriteTimeout
  <2>5. \/ ServerReads \/ PongHeldUp \/ WriteBlocks \/ WriteTimeout
        \/ UNCHANGED <<sRead, blocking, toServer>>
    BY <1>3 DEF KeepaliveNext, Served, Login, Ping, ClientReads, ServerReadsMessage, Stall,
      ServerTimeout, ClientTimeout, SeesClosed, Vanish
  <2>6. QED
    BY <1>1, <2>1, <2>2, <2>3, <2>4, <2>5
<1>4. QED
  BY <1>1, <1>2, <1>3 DEF RunsDown

\* However long the waits are, the failure of one end shows at the other one
\* within them.
THEOREM FailureShowsInTime == KeepaliveSpec => NoticedInTime
<1> DEFINE P == /\ ClientAlone /\ ClientAlone' => RunsDown(ClientLeft, ClientLeft', ReadWait)
                /\ ServerAlone /\ ServerAlone' =>
                      RunsDown(ServerLeft, ServerLeft', Longer(LoginWait, WriteWait))
<1>1. KeepInv /\ [KeepaliveNext]_keepaliveVars => [P]_keepaliveVars
  BY ClientRunsDown, ServerRunsDown
<1>2. QED
  BY <1>1, KeepInit, KeepNext, PTL DEF KeepaliveSpec, NoticedInTime

\* Messages put the deadline of a blocked write off as far as Longest, until
\* the ping that comes with the ticker.
LEMMA BlockedRunsDown ==
    ASSUME KeepInv, KeepaliveNext, Blocked, Blocked'
    PROVE  RunsDown(BlockedLeft, BlockedLeft', Heartbeat + Longest)
<1> DEFINE rest == BlockedLeft
<1> USE Waits DEF KeepInv, KeepaliveTypeOK, Unblocked, Limits, Blocked, BlockedLeft, Longest,
    Longer, InRead, ends, wires, timers, blocking
<1>1. rest \in 0..(Heartbeat + Longest)
  OBVIOUS
<1>2. CASE TimePasses
  BY <1>1, <1>2 DEF TimePasses, Due, RunsDown
<1>3. ASSUME ~TimePasses PROVE rest' \in 0..rest
  <2>1. CASE Ping
    BY <2>1 DEF Ping
  <2>2. CASE PongHeldUp
    BY <2>2 DEF PongHeldUp
  <2>3. CASE ServerReadsMessage
    BY <2>3 DEF ServerReadsMessage
  <2>4. CASE Vanish
    BY <2>4 DEF Vanish
  <2>5. CASE ClientTimeout \/ SeesClosed
    BY <2>5 DEF ClientTimeout, SeesClosed
  <2>6. \/ Ping \/ PongHeldUp \/ ServerReadsMessage \/ Vanish \/ ClientTimeout \/ SeesClosed
        \/ UNCHANGED <<blocking, toServer, client, beat>>
    BY <1>3 DEF KeepaliveNext, Served, Login, ServerReads, ClientReads, Stall, WriteBlocks,
      WriteTimeout, ServerTimeout
  <2>7. QED
    BY <1>1, <2>1, <2>2, <2>3, <2>4, <2>5, <2>6
<1>4. QED
  BY <1>1, <1>2, <1>3 DEF RunsDown

\* For every length of the waits, a blocked write has at most a heartbeat and
\* the longer deadline before it.
THEOREM BlockedWriteBounded == KeepaliveSpec => BlockedInTime
<1>1. KeepInv /\ [KeepaliveNext]_keepaliveVars =>
         [Blocked /\ Blocked' => RunsDown(BlockedLeft, BlockedLeft', Heartbeat + Longest)]_keepaliveVars
  BY BlockedRunsDown
<1>2. QED
  BY <1>1, KeepInit, KeepNext, PTL DEF KeepaliveSpec, BlockedInTime

=============================================================================
