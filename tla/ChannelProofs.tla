---------------------------- MODULE ChannelProofs ----------------------------
(***************************************************************************)
(* Proofs about Channel, for any number of pushers and payloads, any       *)
(* capacity of writeChan and any number of writes per frame.               *)
(***************************************************************************)
EXTENDS Channel, Lemmas

\* The writer has a payload in hand exactly while it writes one (or when it
\* failed on it).  inHand[1] is defined where WriterPart reads it.
HandInv == inHand # << >> <=> wpc \in {"first", "next", "dead"}

\* What is left to drain is still in the buffer.  While a frame of the inner
\* loop is being written, that frame is counted too.
DrainInv ==
    /\ wpc = "drain" => toDrain \in 1..Len(writeChan)
    /\ wpc = "next" => toDrain - 1 \in 0..Len(writeChan)

\* While a pong is written, a part of it is missing.
PongInv == rpc = "pong" => rpart \in 0..(PongWrites - 1)

\* The inductive invariant.
IInv == TypeOK /\ HandInv /\ PongInv /\ DrainInv /\ Fifo

-----------------------------------------------------------------------------
(* The invariant, one lemma per group of conjuncts. *)

LEMMA InitInv == Init => IInv
<1> SUFFICES ASSUME Init PROVE IInv
  OBVIOUS
<1> USE DEF Init
<1>1. TypeOK
  BY CapAssumption, WritesAssumption, PingsAssumption DEF TypeOK
<1>2. HandInv /\ PongInv /\ DrainInv
  BY DEF HandInv, PongInv, DrainInv
<1>3. Fifo
  BY ConcatEmptySeq, EmptySeq DEF Fifo
<1>4. QED
  BY <1>1, <1>2, <1>3 DEF IInv

\* A step of any goroutine keeps every variable in its type.
LEMMA TypeNext == IInv /\ [Next]_vars => TypeOK'
<1> SUFFICES ASSUME IInv, [Next]_vars PROVE TypeOK'
  OBVIOUS
<1>0. TypeOK /\ HandInv /\ PongInv
  BY DEF IInv
<1> USE <1>0 DEF TypeOK, writerVars, pushVars, readerVars
<1>a. ASSUME NEW p \in Pushers, NEW m \in Payloads, Call(p, m)
      PROVE  fresh' \subseteq Payloads /\ pending' \in [Pushers -> Payloads \cup {None}]
  BY <1>a DEF Call
<1>1. ASSUME NEW p \in Routers, NEW m \in Payloads, PushCall(p, m) PROVE TypeOK'
  BY <1>1, <1>a DEF PushCall, Pushers
<1>2. ASSUME NEW p \in Pushers, PushSend(p) PROVE TypeOK'
  <2>1. pending[p] \in Payloads
    BY <1>2 DEF PushSend
  <2>2. writeChan' \in Seq(Payloads) /\ Len(writeChan') <= Cap
    BY <1>2, <2>1, CapAssumption DEF PushSend
  <2>3. accepted' \in Seq(Payloads)
    BY <1>2, <2>1 DEF PushSend
  <2>4. QED
    BY <1>2, <2>2, <2>3 DEF PushSend
<1>3. ASSUME NEW from, NEW to \in {"first", "next"}, Take(from, to) PROVE TypeOK'
  <2>1. /\ Head(writeChan) \in Payloads
        /\ Tail(writeChan) \in Seq(Payloads)
        /\ Len(Tail(writeChan)) = Len(writeChan) - 1
    BY <1>3, HeadTailProperties DEF Take
  <2>2. writeChan' \in Seq(Payloads) /\ Len(writeChan') <= Cap
    BY <1>3, <2>1, CapAssumption, LenProperties DEF Take
  <2>3. inHand' \in Seq(Payloads) /\ Len(inHand') <= 1
    BY <1>3, <2>1 DEF Take
  <2>4. part' \in 0..(DataWrites - 1)
    BY <1>3, WritesAssumption DEF Take
  <2>5. QED
    BY <1>3, <2>2, <2>3, <2>4 DEF Take
<1>4. CASE WriterPart
  <2>1. inHand[1] \in Payloads
    BY <1>4, ShortSeq DEF WriterPart, HandInv
  <2>2. wire' \in Seq([by : {"writer", "reader"}, frame : Payloads \cup {Pong},
                       part : Nat, last : Nat])
    BY <1>4, <2>1, WritesAssumption DEF WriterPart, Token
  <2>3. CASE part + 1 < DataWrites
    <3>1. /\ part' = part + 1 /\ part' \in 0..(DataWrites - 1)
          /\ UNCHANGED <<wpc, inHand, delivered>>
      BY <1>4, <2>3, WritesAssumption DEF WriterPart
    <3>2. QED
      BY <1>4, <2>2, <3>1 DEF WriterPart
  <2>4. CASE part + 1 = DataWrites
    <3>0. delivered' = delivered \o inHand /\ inHand' = << >> /\ part' = 0 /\ AfterFrame
      BY <1>4, <2>4, WritesAssumption DEF WriterPart
    <3>1. delivered' \in Seq(Payloads)
      BY <3>0, ConcatProperties
    <3>2. inHand' \in Seq(Payloads) /\ Len(inHand') <= 1
      BY <3>0
    <3>3. toDrain' \in Int /\ wpc' \in {"select", "drain"}
      BY <3>0, LenProperties DEF AfterFrame
    <3>4. QED
      BY <1>4, <2>2, <3>0, <3>1, <3>2, <3>3, WritesAssumption DEF WriterPart
  <2>5. QED
    BY <1>4, <2>3, <2>4 DEF WriterPart
<1>5. CASE WriterFail
  BY <1>5 DEF WriterFail
<1>6. ASSUME NEW h \in Handlers, NEW m \in Payloads, ReaderData(h, m) PROVE TypeOK'
  BY <1>6, <1>a DEF ReaderData, Pushers
<1>7. CASE ReaderPing
  BY <1>7, PingsAssumption, WritesAssumption DEF ReaderPing
<1>8. CASE PongPart
  <2>1. wire' \in Seq([by : {"writer", "reader"}, frame : Payloads \cup {Pong},
                       part : Nat, last : Nat])
    BY <1>8, WritesAssumption DEF PongPart, Token
  <2>2. rpart' \in 0..PongWrites
    BY <1>8, <1>0, WritesAssumption DEF PongPart, PongInv
  <2>3. QED
    BY <1>8, <2>1, <2>2 DEF PongPart
<1>9. CASE PongFail \/ ReaderEnd \/ OwnerClose \/ ShutdownClose
  BY <1>9 DEF PongFail, ReaderEnd, OwnerClose, ShutdownClose
<1>10. CASE UNCHANGED vars
  BY <1>10 DEF vars
<1>11. QED
  BY <1>1, <1>2, <1>3, <1>4, <1>5, <1>6, <1>7, <1>8, <1>9, <1>10
     DEF Next, WriterTake, WriterDrain

\* Only the writer moves what it has in hand; only the reader its pong.
LEMMA HandNext == IInv /\ [Next]_vars => HandInv' /\ PongInv'
<1> SUFFICES ASSUME IInv, [Next]_vars PROVE HandInv' /\ PongInv'
  OBVIOUS
<1>0. TypeOK /\ HandInv /\ PongInv
  BY DEF IInv
<1> USE <1>0 DEF TypeOK, HandInv, PongInv, writerVars, pushVars, readerVars
<1>1. ASSUME NEW p \in Routers, NEW m \in Payloads, PushCall(p, m)
      PROVE  HandInv' /\ PongInv'
  BY <1>1 DEF PushCall
<1>2. ASSUME NEW p \in Pushers, PushSend(p) PROVE HandInv' /\ PongInv'
  BY <1>2 DEF PushSend
<1>3. ASSUME NEW from, NEW to \in {"first", "next"}, Take(from, to)
      PROVE  HandInv' /\ PongInv'
  BY <1>3 DEF Take
<1>4. CASE WriterPart
  <2>1. CASE part + 1 < DataWrites
    BY <1>4, <2>1, WritesAssumption DEF WriterPart
  <2>2. CASE part + 1 = DataWrites
    <3>1. inHand' = << >> /\ AfterFrame /\ UNCHANGED readerVars
      BY <1>4, <2>2, WritesAssumption DEF WriterPart
    <3>2. QED
      BY <3>1 DEF AfterFrame
  <2>3. QED
    BY <1>4, <2>1, <2>2 DEF WriterPart
<1>5. CASE WriterFail
  BY <1>5 DEF WriterFail
<1>6. ASSUME NEW h \in Handlers, NEW m \in Payloads, ReaderData(h, m)
      PROVE  HandInv' /\ PongInv'
  BY <1>6 DEF ReaderData
<1>7. CASE ReaderPing
  BY <1>7, WritesAssumption DEF ReaderPing
<1>8. CASE PongPart
  BY <1>8, WritesAssumption DEF PongPart
<1>9. CASE PongFail \/ ReaderEnd \/ OwnerClose \/ ShutdownClose
  BY <1>9 DEF PongFail, ReaderEnd, OwnerClose, ShutdownClose
<1>10. CASE UNCHANGED vars
  BY <1>10 DEF vars
<1>11. QED
  BY <1>1, <1>2, <1>3, <1>4, <1>5, <1>6, <1>7, <1>8, <1>9, <1>10
     DEF Next, WriterTake, WriterDrain

\* Pushers only make the buffer longer, so the sample of its length stays a
\* lower bound; each receive of the inner loop takes one off both.
LEMMA DrainNext == IInv /\ [Next]_vars => DrainInv'
<1> SUFFICES ASSUME IInv, [Next]_vars PROVE DrainInv'
  OBVIOUS
<1>0. TypeOK /\ HandInv /\ DrainInv
  BY DEF IInv
<1> USE <1>0 DEF TypeOK, DrainInv, writerVars, pushVars, readerVars
<1>1. ASSUME NEW p \in Routers, NEW m \in Payloads, PushCall(p, m) PROVE DrainInv'
  BY <1>1 DEF PushCall
<1>2. ASSUME NEW p \in Pushers, PushSend(p) PROVE DrainInv'
  <2>1. pending[p] \in Payloads
    BY <1>2 DEF PushSend
  <2>2. Len(writeChan') = Len(writeChan) + 1 /\ Len(writeChan) \in Nat
    BY <1>2, <2>1, AppendProperties, LenProperties DEF PushSend
  <2>3. QED
    BY <1>2, <2>2 DEF PushSend
<1>3. CASE WriterTake
  BY <1>3 DEF WriterTake, Take
<1>4. CASE WriterDrain
  <2>1. Len(writeChan') = Len(writeChan) - 1 /\ Len(writeChan) \in Nat
    BY <1>4, HeadTailProperties, LenProperties DEF WriterDrain, Take
  <2>2. QED
    BY <1>4, <2>1 DEF WriterDrain, Take
<1>5. CASE WriterPart
  <2>1. CASE part + 1 < DataWrites
    BY <1>5, <2>1, WritesAssumption DEF WriterPart
  <2>2. CASE part + 1 = DataWrites
    <3>1. AfterFrame /\ wpc \in {"first", "next"} /\ UNCHANGED writeChan
      BY <1>5, <2>2, WritesAssumption DEF WriterPart
    <3>2. Len(writeChan) \in Nat
      BY LenProperties
    <3>3. QED
      BY <3>1, <3>2 DEF AfterFrame
  <2>3. QED
    BY <1>5, <2>1, <2>2 DEF WriterPart
<1>6. CASE WriterFail
  BY <1>6 DEF WriterFail
<1>7. ASSUME NEW h \in Handlers, NEW m \in Payloads, ReaderData(h, m) PROVE DrainInv'
  BY <1>7 DEF ReaderData
<1>8. CASE ReaderPing \/ PongPart \/ PongFail \/ ReaderEnd \/ OwnerClose \/ ShutdownClose
  BY <1>8 DEF ReaderPing, PongPart, PongFail, ReaderEnd, OwnerClose, ShutdownClose
<1>9. CASE UNCHANGED vars
  BY <1>9 DEF vars
<1>10. QED
  BY <1>1, <1>2, <1>3, <1>4, <1>5, <1>6, <1>7, <1>8, <1>9 DEF Next

\* A payload moves from the buffer to the hand and from there to delivered;
\* the concatenation of the three changes only when Push appends to it.
LEMMA FifoNext == IInv /\ [Next]_vars => Fifo'
<1> SUFFICES ASSUME IInv, [Next]_vars PROVE Fifo'
  OBVIOUS
<1>0. TypeOK /\ HandInv /\ Fifo
  BY DEF IInv
<1>a. /\ writeChan \in Seq(Payloads) /\ inHand \in Seq(Payloads) /\ Len(inHand) <= 1
      /\ delivered \in Seq(Payloads) /\ delivered \o inHand \in Seq(Payloads)
  BY <1>0, ConcatProperties DEF TypeOK
<1>b. accepted = delivered \o inHand \o writeChan
  BY <1>0 DEF Fifo
<1> USE DEF Fifo, writerVars, pushVars, readerVars
<1>1. ASSUME NEW p \in Routers, NEW m \in Payloads, PushCall(p, m) PROVE Fifo'
  BY <1>1, <1>b DEF PushCall
<1>2. ASSUME NEW p \in Pushers, PushSend(p) PROVE Fifo'
  <2>1. pending[p] \in Payloads
    BY <1>0, <1>2 DEF PushSend, TypeOK
  <2>2. delivered \o inHand \o Append(writeChan, pending[p])
          = Append(accepted, pending[p])
    BY <1>a, <1>b, <2>1, ConcatAppend
  <2>3. QED
    BY <1>2, <2>2 DEF PushSend
<1>3. ASSUME NEW from \in {"select", "drain"}, NEW to, Take(from, to) PROVE Fifo'
  <2>1. inHand = << >>
    BY <1>0, <1>3 DEF Take, HandInv
  <2>2. delivered \o <<Head(writeChan)>> \o Tail(writeChan) = delivered \o writeChan
    BY <1>3, <1>a, JoinHeadTail DEF Take
  <2>3. delivered \o inHand = delivered
    BY <1>a, <2>1, ConcatEmptySeq
  <2>4. QED
    BY <1>3, <1>b, <2>2, <2>3 DEF Take
<1>4. CASE WriterPart
  <2>1. CASE part + 1 < DataWrites
    <3>1. UNCHANGED <<inHand, delivered, writeChan, accepted>>
      BY <1>4, <2>1, WritesAssumption DEF WriterPart
    <3>2. QED
      BY <1>b, <3>1
  <2>2. CASE part + 1 = DataWrites
    <3>1. /\ delivered' = delivered \o inHand /\ inHand' = << >>
          /\ UNCHANGED <<writeChan, accepted>>
      BY <1>4, <1>0, <2>2, WritesAssumption DEF WriterPart, TypeOK
    <3>2. (delivered \o inHand) \o << >> = delivered \o inHand
      BY <1>a, ConcatEmptySeq
    <3>3. QED
      BY <1>b, <3>1, <3>2
  <2>3. QED
    BY <1>0, <1>4, <2>1, <2>2, WritesAssumption DEF WriterPart, TypeOK
<1>5. CASE WriterFail
  BY <1>5, <1>b DEF WriterFail
<1>6. ASSUME NEW h \in Handlers, NEW m \in Payloads, ReaderData(h, m) PROVE Fifo'
  BY <1>6, <1>b DEF ReaderData
<1>7. CASE ReaderPing \/ PongPart \/ PongFail \/ ReaderEnd \/ OwnerClose \/ ShutdownClose
  BY <1>7, <1>b DEF ReaderPing, PongPart, PongFail, ReaderEnd, OwnerClose, ShutdownClose
<1>8. CASE UNCHANGED vars
  BY <1>8, <1>b DEF vars
<1>9. QED
  BY <1>1, <1>2, <1>3, <1>4, <1>5, <1>6, <1>7, <1>8 DEF Next, WriterTake, WriterDrain

\* IInv holds in every reachable state of Channel.
THEOREM Invariance == Spec => []IInv
<1>1. Init => IInv
  BY InitInv
<1>2. IInv /\ [Next]_vars => IInv'
  BY TypeNext, HandNext, DrainNext, FifoNext DEF IInv
<1>3. QED
  BY <1>1, <1>2, PTL DEF Spec

-----------------------------------------------------------------------------
(* The results. *)

\* The variables of a channel keep to their types, writeChan to its capacity
\* (channel.go:29), whatever the goroutines of the channel do.
THEOREM TypeCorrect == Spec => []TypeOK
<1>1. IInv => TypeOK
  BY DEF IInv
<1>2. QED
  BY <1>1, Invariance, PTL

\* The receive of the inner loop of writeLoop (channel.go:52) finds a payload.
THEOREM DrainSafe == Spec => []DrainNeverBlocks
<1>1. IInv => DrainNeverBlocks
  BY DEF IInv, DrainInv, DrainNeverBlocks
<1>2. QED
  BY <1>1, Invariance, PTL

\* Accepted payloads are written in the order of acceptance, none twice and
\* none skipped (channel.go:42-66, 111-117).
THEOREM FifoSafe == Spec => []Fifo
<1>1. IInv => Fifo
  BY DEF IInv
<1>2. QED
  BY <1>1, Invariance, PTL

-----------------------------------------------------------------------------
(* The frames on the wire, as long as no ping has come. *)

\* The stream ends where the writer is: behind a whole frame, or behind the
\* part of the frame in hand that it wrote last.
WritesAlone ==
    /\ rpc # "pong"
    /\ WholeFrames
    /\ part = 0 => wire = << >> \/ wire[Len(wire)].part = wire[Len(wire)].last
    /\ part # 0 =>
        /\ wpc \in {"first", "next", "dead"}
        /\ wire # << >>
        /\ wire[Len(wire)] = Token("writer", inHand[1], part, DataWrites)

WholeInv == pings = 0 => WritesAlone

LEMMA WholeInit == Init => WholeInv
BY DEF Init, WholeInv, WritesAlone, WholeFrames

\* The frames stay whole when the next part of the last one comes behind it.
LEMMA WholeAppend ==
    ASSUME NEW S, wire \in Seq(S), NEW f, NEW n \in 1..DataWrites, DataWrites \in Nat,
           wire' = Append(wire, Token("writer", f, n, DataWrites)),
           Token("writer", f, n, DataWrites) \in S,
           WholeFrames,
           n = 1 => wire = << >> \/ wire[Len(wire)].part = wire[Len(wire)].last,
           n # 1 => wire # << >> /\ wire[Len(wire)] = Token("writer", f, n - 1, DataWrites)
    PROVE  WholeFrames' /\ wire' # << >>
           /\ wire'[Len(wire')] = Token("writer", f, n, DataWrites)
<1> DEFINE t == Token("writer", f, n, DataWrites)
<1>1. /\ Len(wire) \in Nat
      /\ Len(wire') = Len(wire) + 1
      /\ \A i \in 1..Len(wire) : wire'[i] = wire[i]
      /\ wire'[Len(wire) + 1] = t
  BY AppendProperties, LenProperties
<1>2. wire = << >> <=> Len(wire) = 0
  BY EmptySeq
<1>3. ASSUME NEW i \in 1..Len(wire')
      PROVE  IF wire'[i].part = 1
             THEN i > 1 => wire'[i - 1].part = wire'[i - 1].last
             ELSE i > 1 /\ wire'[i - 1] = [wire'[i] EXCEPT !.part = @ - 1]
  <2>1. CASE i <= Len(wire)
    BY <1>1, <2>1 DEF WholeFrames
  <2>2. CASE i = Len(wire) + 1
    <3>1. t.part = n /\ [t EXCEPT !.part = @ - 1] = Token("writer", f, n - 1, DataWrites)
      BY DEF Token
    <3>2. QED
      BY <1>1, <1>2, <2>2, <3>1
  <2>3. i <= Len(wire) \/ i = Len(wire) + 1
    BY <1>1
  <2>4. QED
    BY <2>1, <2>2, <2>3
<1>4. WholeFrames'
  BY <1>3 DEF WholeFrames
<1>5. wire' # << >>
  BY <1>1, EmptySeq
<1>6. QED
  BY <1>1, <1>4, <1>5

\* The writer goes on where its frame stands, and nobody else writes.
LEMMA WholeNext == IInv /\ WholeInv /\ [Next]_vars => WholeInv'
<1> SUFFICES ASSUME IInv, WholeInv, [Next]_vars, pings' = 0 PROVE WritesAlone'
  BY DEF WholeInv
<1>0. TypeOK /\ HandInv
  BY DEF IInv
<1> USE <1>0 DEF TypeOK, HandInv, writerVars, pushVars, readerVars
<1>a. pings # 0 => ~[Next]_vars
  BY DEF Next, PushCall, PushSend, WriterTake, WriterDrain, Take, WriterPart, WriterFail,
         ReaderData, ReaderPing, PongPart, PongFail, ReaderEnd, OwnerClose, ShutdownClose, vars
<1>b. pings = 0 /\ WritesAlone
  BY <1>a DEF WholeInv
<1>1. ASSUME NEW p \in Routers, NEW m \in Payloads, PushCall(p, m) PROVE WritesAlone'
  BY <1>1, <1>b DEF PushCall, WritesAlone, WholeFrames
<1>2. ASSUME NEW p \in Pushers, PushSend(p) PROVE WritesAlone'
  BY <1>2, <1>b DEF PushSend, WritesAlone, WholeFrames
<1>3. ASSUME NEW from \in {"select", "drain"}, NEW to, Take(from, to) PROVE WritesAlone'
  BY <1>3, <1>b DEF Take, WritesAlone, WholeFrames
<1>4. CASE WriterPart
  <2> DEFINE S == [by : {"writer", "reader"}, frame : Payloads \cup {Pong},
                   part : Nat, last : Nat]
             f == inHand[1]
             t == Token("writer", f, part + 1, DataWrites)
  <2>1. /\ f \in Payloads /\ part + 1 \in 1..DataWrites /\ DataWrites \in Nat
        /\ wire' = Append(wire, t) /\ rpc' = rpc
    <3>1. f \in Payloads
      BY <1>4, ShortSeq DEF WriterPart
    <3>2. part + 1 \in 1..DataWrites /\ DataWrites \in Nat
      BY WritesAssumption
    <3>3. wire' = Append(wire, t) /\ rpc' = rpc
      BY <1>4 DEF WriterPart
    <3>4. QED
      BY <3>1, <3>2, <3>3
  <2>2. t \in S
    BY <2>1 DEF Token
  <2>3. /\ part + 1 = 1 => wire = << >> \/ wire[Len(wire)].part = wire[Len(wire)].last
        /\ part + 1 # 1 => wire # << >>
                          /\ wire[Len(wire)] = Token("writer", f, (part + 1) - 1, DataWrites)
        /\ WholeFrames
    BY <1>b, WritesAssumption DEF WritesAlone
  <2>4. WholeFrames' /\ wire' # << >> /\ wire'[Len(wire')] = t
    <3>1. wire \in Seq(S)
      OBVIOUS
    <3> HIDE DEF S, t
    <3> QED
      BY <2>1, <2>2, <2>3, <3>1, WholeAppend DEF t
  <2>5. CASE part + 1 < DataWrites
    <3>1. part' = part + 1 /\ UNCHANGED <<wpc, inHand>> /\ wpc \in {"first", "next"}
      BY <1>4, <2>5, WritesAssumption DEF WriterPart
    <3>2. wire'[Len(wire')] = Token("writer", inHand'[1], part', DataWrites)
      BY <2>4, <3>1
    <3>3. part' # 0
      BY <3>1
    <3>4. rpc' # "pong"
      BY <1>b, <2>1 DEF WritesAlone
    <3> HIDE DEF S, f, t, TypeOK
    <3>5. QED
      BY <2>4, <3>1, <3>2, <3>3, <3>4 DEF WritesAlone
  <2>6. CASE part + 1 = DataWrites
    <3>1. part' = 0
      BY <1>4, <2>6, WritesAssumption DEF WriterPart
    <3>2. t.part = t.last
      BY <2>6 DEF Token
    <3>3. QED
      BY <1>b, <2>1, <2>4, <3>1, <3>2 DEF WritesAlone
  <2>7. QED
    BY <2>1, <2>5, <2>6, WritesAssumption
<1>5. CASE WriterFail
  BY <1>5, <1>b DEF WriterFail, WritesAlone, WholeFrames
<1>6. ASSUME NEW h \in Handlers, NEW m \in Payloads, ReaderData(h, m) PROVE WritesAlone'
  BY <1>6, <1>b DEF ReaderData, WritesAlone, WholeFrames
<1>7. CASE ReaderPing \/ PongPart
  BY <1>7, <1>b DEF ReaderPing, PongPart, WritesAlone
<1>8. CASE PongFail \/ ReaderEnd \/ OwnerClose \/ ShutdownClose
  BY <1>8, <1>b DEF PongFail, ReaderEnd, OwnerClose, ShutdownClose, WritesAlone, WholeFrames
<1>9. CASE UNCHANGED vars
  BY <1>9, <1>b DEF vars, WritesAlone, WholeFrames
<1>10. QED
  BY <1>1, <1>2, <1>3, <1>4, <1>5, <1>6, <1>7, <1>8, <1>9 DEF Next, WriterTake, WriterDrain

\* As long as no ping has come, the frames on the wire are whole, also those
\* before and after a write that failed, for frames of any number of writes
\* (channel.go:42-66, tcp/connection.go:62-66).
THEOREM FramesSafe == Spec => []WholeUnlessPinged
<1>1. WholeInv => WholeUnlessPinged
  BY DEF WholeInv, WritesAlone, WholeUnlessPinged
<1>2. QED
  BY <1>1, WholeInit, WholeNext, Invariance, PTL DEF Spec

-----------------------------------------------------------------------------
(* The refinement. *)

\* The channel implements the bounded outbox: a step of any of its goroutines
\* is a step of Outbox or leaves the outbox as it was.
THEOREM ImplementsOutbox == Spec => Out!Spec
<1>1. Init => Out!Init
  BY ConcatEmptySeq, EmptySeq DEF Init, Out!Init
<1>2. IInv /\ [Next]_vars => [Out!Next]_(Out!vars)
  <2> SUFFICES ASSUME IInv, [Next]_vars PROVE [Out!Next]_(Out!vars)
    OBVIOUS
  <2>0. TypeOK /\ HandInv
    BY DEF IInv
  <2>a. /\ writeChan \in Seq(Payloads) /\ inHand \in Seq(Payloads) /\ Len(inHand) <= 1
        /\ delivered \in Seq(Payloads) /\ Len(writeChan) \in Nat /\ Len(inHand) \in Nat
    BY <2>0, LenProperties DEF TypeOK
  <2> USE DEF writerVars, pushVars, readerVars, Out!vars
  <2>1. ASSUME NEW p \in Routers, NEW m \in Payloads, PushCall(p, m)
        PROVE  UNCHANGED Out!vars
    BY <2>1 DEF PushCall
  <2>2. ASSUME NEW p \in Pushers, PushSend(p) PROVE Out!Next
    <3>1. pending[p] \in Payloads
      BY <2>0, <2>2 DEF PushSend, TypeOK
    <3>2. Len(inHand \o writeChan) < Cap + 1
      BY <2>2, <2>a, CapAssumption, ConcatProperties DEF PushSend
    <3>3. inHand \o Append(writeChan, pending[p]) = Append(inHand \o writeChan, pending[p])
      BY <2>a, <3>1, ConcatAppend
    <3>4. Out!Accept(pending[p])
      BY <2>2, <3>2, <3>3 DEF PushSend, Out!Accept
    <3>5. QED
      BY <3>1, <3>4 DEF Out!Next
  <2>3. ASSUME NEW from \in {"select", "drain"}, NEW to \in {"first", "next"},
               Take(from, to)
        PROVE  UNCHANGED Out!vars
    <3>1. inHand = << >>
      BY <2>0, <2>3 DEF Take, HandInv
    <3>2. <<Head(writeChan)>> \o Tail(writeChan) = writeChan
      BY <2>3, <2>a, ConsHeadTail DEF Take
    <3>3. inHand \o writeChan = writeChan
      BY <2>a, <3>1, ConcatEmptySeq
    <3>4. QED
      BY <2>3, <3>2, <3>3 DEF Take
  <2>4. CASE WriterPart
    <3>1. CASE part + 1 < DataWrites
      <4>1. UNCHANGED <<wpc, inHand, delivered, writeChan>>
        BY <2>4, <3>1, WritesAssumption DEF WriterPart
      <4>2. QED
        BY <4>1
    <3>2. CASE part + 1 = DataWrites
      <4>1. /\ delivered' = delivered \o inHand /\ inHand' = << >>
            /\ AfterFrame /\ UNCHANGED writeChan /\ wpc \in {"first", "next"}
        BY <2>4, <3>2, WritesAssumption DEF WriterPart
      <4>2. inHand[1] \in Payloads /\ inHand = <<inHand[1]>>
        BY <2>0, <2>a, <4>1, ShortSeq DEF HandInv
      <4>3. /\ inHand \o writeChan # << >>
            /\ Head(inHand \o writeChan) = inHand[1]
            /\ Tail(inHand \o writeChan) = writeChan
        BY <2>a, <4>2, HeadTailCons
      <4>4. delivered \o inHand = Append(delivered, inHand[1])
        BY <2>a, <4>2, AppendIsConcat
      <4>5. inHand' \o writeChan' = writeChan
        BY <2>a, <4>1, ConcatEmptySeq
      <4>6. wpc # "dead" /\ wpc' # "dead"
        BY <4>1 DEF AfterFrame
      <4>7. Out!Deliver
        BY <4>1, <4>3, <4>4, <4>5, <4>6 DEF Out!Deliver
      <4>8. QED
        BY <4>7 DEF Out!Next
    <3>3. QED
      BY <2>4, <3>1, <3>2 DEF WriterPart
  <2>5. CASE WriterFail
    <3>1. inHand # << >>
      BY <2>0, <2>5 DEF WriterFail, HandInv
    <3>2. inHand \o writeChan # << >>
      BY <2>a, <3>1, ConcatEqualIffEmpty
    <3>3. Out!Break
      BY <2>5, <3>2 DEF WriterFail, Out!Break
    <3>4. QED
      BY <3>3 DEF Out!Next
  <2>6. ASSUME NEW h \in Handlers, NEW m \in Payloads, ReaderData(h, m)
        PROVE  UNCHANGED Out!vars
    BY <2>6 DEF ReaderData
  <2>7. CASE ReaderPing \/ PongPart \/ PongFail \/ ReaderEnd \/ OwnerClose \/ ShutdownClose
    BY <2>7 DEF ReaderPing, PongPart, PongFail, ReaderEnd, OwnerClose, ShutdownClose
  <2>8. CASE UNCHANGED vars
    BY <2>8 DEF vars
  <2>9. QED
    BY <2>1, <2>2, <2>3, <2>4, <2>5, <2>6, <2>7, <2>8 DEF Next, WriterTake, WriterDrain
<1>3. QED
  BY <1>1, <1>2, Invariance, PTL DEF Spec, Out!Spec
=============================================================================
