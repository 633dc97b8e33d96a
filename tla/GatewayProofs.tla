---------------------------- MODULE GatewayProofs ----------------------------
(***************************************************************************)
(* Proofs about Gateway, for any number of connections and instances.      *)
(***************************************************************************)
EXTENDS Gateway, TLAPS

Jobs == [kind : {"message"}, from : Conns, channel : Conns]

\* A packet that reached a logic service names the connection it came from.
Genuine(p) == p.from \in Conns /\ p.channel = p.from

\* A goroutine of Receive works for a connection that was let in.
JobInv == \A c \in Conns : job[c] # None =>
    job[c] \in Jobs /\ job[c].from = c /\ c \in announced

ReplyInv == \A r \in replies : r.to = r.for

IInv ==
    /\ TypeOK /\ JobInv /\ ReplyInv /\ LoginFirst /\ OwnReplies
    /\ job \in [Conns -> Jobs \cup {None}]
    /\ \A p \in arrived : Genuine(p)

LEMMA InitInv == Init => IInv
BY AssertedAssumption
   DEF Init, IInv, TypeOK, JobInv, ReplyInv, LoginFirst, OwnReplies, Replies, ClientMap!Init

\* What Forward does to the history, whatever becomes of the packet.
LEMMA ForwardKeeps ==
    ASSUME IInv, NEW p, Genuine(p), ForwardOK(p), p.kind = "signin" \/ p.from \in announced
    PROVE  /\ announced \subseteq announced' /\ announced' \subseteq Conns
           /\ p.kind = "signin" => p.from \in announced'
           /\ \A q \in arrived' : Genuine(q) /\ q.channel \in announced'
           /\ process' = process
BY DEF ForwardOK, Genuine, IInv, TypeOK, LoginFirst

LEMMA NextInv == IInv /\ [Next]_vars => IInv'
<1> SUFFICES ASSUME IInv, [Next]_vars PROVE IInv'
  OBVIOUS
<1> USE DEF IInv, TypeOK, JobInv, ReplyInv, LoginFirst, OwnReplies, Goto,
            clients, conns, mail, down
<1>1. ASSUME NEW c \in Conns, Connection(c) PROVE IInv'
  <2>0. UNCHANGED <<service, client, live, replies, got>>
    BY <1>1 DEF Connection
  <2>1. CASE AcceptRefuses(c) \/ ReadEnd(c)
    BY <2>0, <2>1 DEF AcceptRefuses, ReadEnd
  <2>2. ASSUME Panic, UNCHANGED registered PROVE IInv'
    BY <2>0, <2>2 DEF Panic
  <2>3. CASE AcceptForwards(c)
    <3> DEFINE p == Packet("signin", c, c)
    <3>1. Genuine(p) /\ p.kind = "signin" /\ p.from = c
      BY DEF Genuine, Packet
    <3>2. CASE Goto(c, "accept", "add") /\ ForwardOK(p)
      BY <2>0, <2>3, <3>1, <3>2, ForwardKeeps DEF AcceptForwards
    <3>3. CASE Goto(c, "accept", "done") /\ ForwardFails
      BY <2>0, <2>3, <3>3 DEF AcceptForwards, ForwardFails
    <3> QED
      BY <2>2, <2>3, <3>2, <3>3 DEF AcceptForwards
  <2>4. CASE Add(c) \/ Remove(c)
    BY <2>0, <2>4 DEF Add, Remove
  <2>5. CASE ReadMessage(c)
    BY <2>0, <2>5 DEF ReadMessage, Packet, Jobs
  <2>6. CASE Disconnect(c)
    <3> DEFINE p == Packet("signout", c, c)
    <3>1. Genuine(p) /\ p.from = c /\ c \in announced
      BY <2>2, <2>6 DEF Disconnect, Genuine, Packet
    <3>2. CASE Goto(c, "disconnect", "done") /\ ForwardOK(p)
      BY <2>0, <2>6, <3>1, <3>2, ForwardKeeps DEF Disconnect
    <3>3. CASE Goto(c, "disconnect", "done") /\ ForwardFails
      BY <2>0, <2>6, <3>3 DEF Disconnect, ForwardFails
    <3> QED
      BY <2>2, <2>6, <3>2, <3>3 DEF Disconnect
  <2>7. CASE Receive(c)
    <3> DEFINE p == [job[c] EXCEPT !.channel = c]
    <3>0. job[c] \in Jobs /\ job[c].from = c /\ c \in announced
      BY <2>7 DEF Receive
    <3>1. Genuine(p) /\ p.from = c /\ c \in announced
      BY <3>0 DEF Genuine, Jobs
    <3>2. CASE ForwardOK(p) /\ job' = [job EXCEPT ![c] = None] /\ UNCHANGED <<pc, registered>>
      <4> HIDE DEF p
      <4>1. /\ announced \subseteq announced' /\ announced' \subseteq Conns
            /\ \A q \in arrived' : Genuine(q) /\ q.channel \in announced'
            /\ process' = process
        BY <3>1, <3>2, ForwardKeeps
      <4>2. JobInv' /\ job' \in [Conns -> Jobs \cup {None}]
        BY <3>2, <4>1
      <4> QED
        BY <2>0, <3>2, <4>1, <4>2
    <3>3. CASE job' = [job EXCEPT ![c] = None] /\ UNCHANGED <<process, mail, pc, registered>>
      BY <2>0, <3>3
    <3> QED
      BY <2>2, <2>7, <3>2, <3>3 DEF Receive, ForwardFails, Panic
  <2> QED
    BY <1>1, <2>1, <2>3, <2>4, <2>5, <2>6, <2>7 DEF Connection, Proceed
<1>2. ASSUME NEW r \in Replies, PushMessage(r) PROVE IInv'
  BY <1>2 DEF PushMessage, Replies
<1>3. CASE Answer
  BY <1>3 DEF Answer, Genuine, Replies
<1>4. CASE ClientsChange
  <2>1. /\ client' \in [Instances -> {"none", "young", "adult"}]
        /\ live' \subseteq Instances
    BY <1>4 DEF ClientsChange, ClientMap!Next, ClientMap!Add, ClientMap!Grow, ClientMap!Break
  <2>2. replies' \subseteq replies
    BY <1>4 DEF ClientsChange
  <2> QED
    BY <1>4, <2>1, <2>2 DEF ClientsChange
<1>5. CASE End
  BY <1>5 DEF End
<1>6. CASE UNCHANGED vars
  BY <1>6 DEF vars
<1> QED
  BY <1>1, <1>2, <1>3, <1>4, <1>5, <1>6 DEF Next

LEMMA Inductive == Spec => []IInv
BY InitInv, NextInv, PTL DEF Spec

\* Whatever the connections, the clients and the goroutines of Receive do, a
\* login service hears of a connection first by its sign-in.
THEOREM LoginComesFirst == Spec => []LoginFirst
<1>1. IInv => LoginFirst
  BY DEF IInv
<1> QED
  BY <1>1, Inductive, PTL

\* No client is pushed the answer to another one's packet.
THEOREM RepliesAreOwn == Spec => []OwnReplies
<1>1. IInv => OwnReplies
  BY DEF IInv
<1> QED
  BY <1>1, Inductive, PTL

=============================================================================
