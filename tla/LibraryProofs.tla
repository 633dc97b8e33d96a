---------------------------- MODULE LibraryProofs ----------------------------
(***************************************************************************)
(* Proofs about Event, Router, Sequence and Wire, for any number of        *)
(* goroutines, any setup of the router, any greatest value of the sequence *)
(* and any packets, base and widths of the numbers in them.                *)
(***************************************************************************)
EXTENDS Event, Router, Sequence, Wire, Lemmas

-----------------------------------------------------------------------------
(* Event. *)

EventTypeOK ==
    /\ at \in [Callers -> {"call", "wait", "recheck", "store", "close", "done", "returned"}]
    /\ ret \in [Callers -> BOOLEAN]
    /\ fired \in BOOLEAN /\ spent \in BOOLEAN
    /\ closed \in Nat
    /\ holder \subseteq Callers

\* The body of the Once runs under its mutex ...
MutexInv == \A p \in Callers : at[p] \in {"recheck", "store", "close", "done"} <=> holder = {p}

\* ... and not before done was found unset.
BodyInv == \A p \in Callers : at[p] \in {"store", "close", "done"} => ~spent

\* The channel is closed by the one run of the body, whose caller alone has
\* ret set; no call returns before that run has ended.
ClosedInv ==
    /\ closed \in {0, 1}
    /\ closed = 1 <=> (spent \/ \E p \in Callers : at[p] = "done")
    /\ closed = 1 <=> (\E p \in Callers : ret[p])
    /\ \A p, q \in Callers : ret[p] /\ ret[q] => p = q
    /\ \A p \in Callers : Returned(p) => spent
    /\ (closed = 1 \/ \E p \in Callers : at[p] = "close") => fired

EventInv == EventTypeOK /\ MutexInv /\ BodyInv /\ ClosedInv

LEMMA EventInitInv == EventInit => EventInv
<1> SUFFICES ASSUME EventInit PROVE EventInv
  OBVIOUS
<1> USE DEF EventInit, Returned
<1>1. EventTypeOK
  BY DEF EventTypeOK
<1>2. MutexInv /\ BodyInv
  BY DEF MutexInv, BodyInv
<1>3. ClosedInv
  BY DEF ClosedInv
<1>4. QED
  BY <1>1, <1>2, <1>3 DEF EventInv

\* Only the holder of the mutex moves anything but its own place.
LEMMA EventNextInv == EventInv /\ [EventNext]_eventVars => EventInv'
<1> SUFFICES ASSUME EventInv, [EventNext]_eventVars PROVE EventInv'
  OBVIOUS
<1> USE DEF EventInv, EventTypeOK, MutexInv, BodyInv, ClosedInv, Returned, Step
<1>1. ASSUME NEW p \in Callers, Call(p) PROVE EventInv'
  BY <1>1 DEF Call
<1>2. ASSUME NEW p \in Callers, Enter(p) PROVE EventInv'
  BY <1>2 DEF Enter
<1>3. ASSUME NEW p \in Callers, Recheck(p) PROVE EventInv'
  BY <1>3 DEF Recheck
<1>4. ASSUME NEW p \in Callers, Store(p) PROVE EventInv'
  BY <1>4 DEF Store
<1>5. ASSUME NEW p \in Callers, CloseChan(p) PROVE EventInv'
  BY <1>5 DEF CloseChan
<1>6. ASSUME NEW p \in Callers, Leave(p) PROVE EventInv'
  BY <1>6 DEF Leave
<1>7. CASE UNCHANGED eventVars
  BY <1>7 DEF eventVars
<1>8. QED
  BY <1>1, <1>2, <1>3, <1>4, <1>5, <1>6, <1>7 DEF EventNext, Fire

\* EventInv holds in every reachable state of Event.
THEOREM EventInvariance == EventSpec => []EventInv
  BY EventInitInv, EventNextInv, PTL DEF EventSpec

\* However many goroutines fire the event, its channel is closed once, and by
\* the one call that returns TRUE (event.go:15-26).
THEOREM FireSafe == EventSpec => []TrueForTheCloser
<1>1. EventInv => TrueForTheCloser
  BY DEF EventInv, ClosedInv, TrueForTheCloser, Returned
<1>2. QED
  BY <1>1, EventInvariance, PTL

-----------------------------------------------------------------------------
(* Router. *)

\* Handlers are registered before anything is served.
SetupInv ==
    /\ setup \in Seq([call : {"use", "handle"}, handlers : Seq(Handlers)])
    /\ middlewares \in Seq(Handlers) /\ chain \in Seq(Handlers)
    /\ setup # << >> => \A r \in Requests : doing[r] = "idle"

\* A context that is in use is that of one request.
PoolInv ==
    /\ doing \in [Requests -> {"idle", "chain", "put", "done"}]
    /\ ctx \in [Requests -> Contexts \cup {Nil}]
    /\ index \in [Contexts -> Nat]
    /\ request \in [Contexts -> Requests \cup {Nil}]
    /\ \A r \in Requests : doing[r] \in {"chain", "put"} =>
          /\ ctx[r] \in Contexts /\ ctx[r] \in inUse
          /\ request[ctx[r]] = r

\* The handlers that ran for packet r: all up to the n-th, when none is nil.
UpTo(list, r, n) ==
    /\ \A i \in 1..Len(list) : list[i][1] <= n /\ list[i][2] = r
    /\ \A i, j \in 1..Len(list) : i < j => list[i][1] < list[j][1]
    /\ ~HasNil => Len(list) = n

\* The index of a context in use is that of the last handler that ran.
RanInv ==
    \A r \in Requests :
        /\ doing[r] = "idle" => ran[r] = << >>
        /\ doing[r] = "chain" =>
              index[ctx[r]] <= Len(chain) /\ UpTo(ran[r], r, index[ctx[r]])
        /\ doing[r] \in {"put", "done"} => UpTo(ran[r], r, Len(chain))

RouterInv == SetupInv /\ PoolInv /\ RanInv /\ ran \in [Requests -> Seq(Nat \X Requests)]

LEMMA RouterInitInv == RouterInit => RouterInv
<1> SUFFICES ASSUME RouterInit PROVE RouterInv
  OBVIOUS
<1>1. SetupInv
  <2>1. << >> \in Seq(Handlers)
    BY EmptySeq
  <2>2. QED
    BY <2>1, SetupsAssumption DEF RouterInit, SetupInv
<1>2. PoolInv
  BY DEF RouterInit, PoolInv
<1>3. RanInv /\ ran \in [Requests -> Seq(Nat \X Requests)]
  BY DEF RouterInit, RanInv
<1>4. QED
  BY <1>1, <1>2, <1>3 DEF RouterInv

\* While the process registers, nothing runs.
LEMMA SetupNextInv ==
    ASSUME RouterInv, Use \/ Handle
    PROVE  RouterInv'
<1>1. /\ setup \in Seq([call : {"use", "handle"}, handlers : Seq(Handlers)]) /\ setup # << >>
      /\ middlewares \in Seq(Handlers) /\ chain \in Seq(Handlers)
      /\ \A r \in Requests : doing[r] = "idle"
      /\ UNCHANGED <<doing, ctx, stack, ran, index, request, inUse>>
  BY DEF RouterInv, SetupInv, Use, Handle
<1>2. /\ Head(setup) \in [call : {"use", "handle"}, handlers : Seq(Handlers)]
      /\ Tail(setup) \in Seq([call : {"use", "handle"}, handlers : Seq(Handlers)])
  BY <1>1, HeadTailProperties
<1>3. SetupInv'
  <2>1. CASE Use
    <3>1. middlewares' = middlewares \o Head(setup).handlers /\ setup' = Tail(setup)
          /\ chain' = chain
      BY <2>1 DEF Use
    <3>2. middlewares \o Head(setup).handlers \in Seq(Handlers)
      BY <1>1, <1>2, ConcatProperties
    <3>3. QED
      BY <1>1, <1>2, <3>1, <3>2 DEF SetupInv
  <2>2. CASE Handle
    <3>1. chain' = chain \o middlewares \o Head(setup).handlers /\ setup' = Tail(setup)
          /\ middlewares' = middlewares
      BY <2>2 DEF Handle
    <3>2. chain \o middlewares \in Seq(Handlers)
      BY <1>1, ConcatProperties
    <3>3. (chain \o middlewares) \o Head(setup).handlers \in Seq(Handlers)
      BY <1>2, <3>2, ConcatProperties
    <3>4. QED
      BY <1>1, <1>2, <3>1, <3>3 DEF SetupInv
  <2>3. QED
    BY <2>1, <2>2
<1>4. PoolInv'
  BY <1>1 DEF RouterInv, PoolInv
<1>5. RanInv' /\ ran' \in [Requests -> Seq(Nat \X Requests)]
  BY <1>1 DEF RouterInv, RanInv
<1>6. QED
  BY <1>3, <1>4, <1>5 DEF RouterInv

\* A request gets a context that no other one has.
LEMMA ServeInv ==
    ASSUME RouterInv, NEW r \in Requests, Serve(r)
    PROVE  RouterInv'
<1>1. PICK c \in Contexts \ inUse :
        /\ setup = << >> /\ doing[r] = "idle"
        /\ doing' = [doing EXCEPT ![r] = "chain"]
        /\ ctx' = [ctx EXCEPT ![r] = c]
        /\ inUse' = inUse \cup {c}
        /\ index' = [index EXCEPT ![c] = 0]
        /\ request' = [request EXCEPT ![c] = r]
        /\ UNCHANGED <<registered, ran>>
  BY DEF Serve
<1>2. SetupInv'
  BY <1>1 DEF RouterInv, SetupInv, registered
<1>3. PoolInv'
  BY <1>1 DEF RouterInv, PoolInv
<1>4. RanInv'
  <2>1. ran[r] = << >> /\ Len(chain) \in Nat
    BY <1>1, LenProperties DEF RouterInv, RanInv, SetupInv
  <2>2. UpTo(ran[r], r, 0)'
    BY <1>1, <2>1 DEF UpTo
  <2>3. ASSUME NEW q \in Requests, q # r, doing[q] = "chain"
        PROVE  ctx'[q] = ctx[q] /\ index'[ctx[q]] = index[ctx[q]]
    BY <1>1, <2>3 DEF RouterInv, PoolInv
  <2>4. \A list, q, n : UpTo(list, q, n) <=> UpTo(list, q, n)'
    BY <1>1 DEF UpTo, HasNil, registered
  <2>5. doing'[r] = "chain" /\ ctx'[r] = c /\ index'[c] = 0
        /\ \A q \in Requests : q # r => doing'[q] = doing[q]
    BY <1>1 DEF RouterInv, PoolInv
  <2>6. QED
    BY <1>1, <2>1, <2>2, <2>3, <2>4, <2>5 DEF RouterInv, RanInv, registered
<1>5. QED
  BY <1>1, <1>2, <1>3, <1>4 DEF RouterInv

\* What r does with its context, the other requests do not see.
LEMMA OthersKeep ==
    ASSUME RouterInv, NEW r \in Requests, doing[r] = "chain",
           UNCHANGED <<registered, ctx, request, inUse>>,
           NEW to \in {"chain", "put"}, doing' = [doing EXCEPT ![r] = to],
           NEW n \in Nat, index' = [index EXCEPT ![ctx[r]] = n],
           NEW list \in Seq(Nat \X Requests), ran' = [ran EXCEPT ![r] = list],
           n <= Len(chain), UpTo(list, r, n), to = "put" => UpTo(list, r, Len(chain))
    PROVE  RouterInv'
<1>1. SetupInv' /\ PoolInv' /\ ran' \in [Requests -> Seq(Nat \X Requests)]
  BY DEF RouterInv, SetupInv, PoolInv, registered
<1>2. \A l, q, m : UpTo(l, q, m) <=> UpTo(l, q, m)'
  BY DEF UpTo, HasNil, registered
<1>3. ASSUME NEW q \in Requests, q # r
      PROVE  /\ doing'[q] = doing[q] /\ ran'[q] = ran[q]
             /\ doing[q] = "chain" => ctx'[q] = ctx[q] /\ index'[ctx[q]] = index[ctx[q]]
  BY <1>3 DEF RouterInv, PoolInv
<1>4. doing'[r] = to /\ ran'[r] = list /\ ctx'[r] = ctx[r] /\ index'[ctx[r]] = n
      /\ chain' = chain
  BY DEF RouterInv, PoolInv, registered
<1>5. RanInv
  BY DEF RouterInv
<1>6. RanInv'
  BY <1>2, <1>3, <1>4, <1>5 DEF RanInv
<1>7. QED
  BY <1>1, <1>6 DEF RouterInv

LEMMA NextEndsInv ==
    ASSUME RouterInv, NEW r \in Requests, NextEnds(r)
    PROVE  RouterInv'
<1>1. PICK c, n : c = ctx[r] /\ n = index[c]
  OBVIOUS
<1>2. /\ doing[r] = "chain" /\ UNCHANGED <<registered, ctx, ran, request, inUse>>
      /\ doing' = [doing EXCEPT ![r] = IF Len(stack[r]) = 1 THEN "put" ELSE "chain"]
      /\ \/ n >= Len(chain) /\ UNCHANGED index
         \/ /\ n < Len(chain) /\ chain[n + 1] = "nil"
            /\ index' = [index EXCEPT ![c] = index[c] + 1]
  BY <1>1 DEF NextEnds, Return
<1>3. /\ Len(chain) \in Nat /\ n \in Nat /\ n <= Len(chain) /\ UpTo(ran[r], r, n)
      /\ ran[r] \in Seq(Nat \X Requests) /\ Len(ran[r]) \in Nat
      /\ index \in [Contexts -> Nat] /\ c \in Contexts
      /\ \A i \in 1..Len(ran[r]) : ran[r][i][1] \in Nat
  <2>1. Len(chain) \in Nat
    BY LenProperties DEF RouterInv, SetupInv
  <2>2. index \in [Contexts -> Nat] /\ c \in Contexts /\ n \in Nat
    BY <1>1, <1>2 DEF RouterInv, PoolInv
  <2>3. n <= Len(chain) /\ UpTo(ran[r], r, n)
    BY <1>1, <1>2 DEF RouterInv, RanInv
  <2>4. ran[r] \in Seq(Nat \X Requests)
    BY DEF RouterInv
  <2>5. Len(ran[r]) \in Nat
    BY <2>4, LenProperties
  <2>6. \A i \in 1..Len(ran[r]) : ran[r][i][1] \in Nat
    BY <2>4, ElementOfSeq
  <2>7. QED
    BY <2>1, <2>2, <2>3, <2>4, <2>5, <2>6
<1>4. ran' = [ran EXCEPT ![r] = ran[r]]
  BY <1>2 DEF RouterInv
<1>5. CASE n >= Len(chain) /\ UNCHANGED index
  <2>1. n = Len(chain) /\ index' = [index EXCEPT ![c] = n]
    BY <1>1, <1>3, <1>5
  <2>2. QED
    BY <1>1, <1>2, <1>3, <1>4, <2>1, OthersKeep
<1>6. CASE /\ n < Len(chain) /\ chain[n + 1] = "nil"
           /\ index' = [index EXCEPT ![c] = index[c] + 1]
  <2>1. HasNil
    <3>1. n + 1 \in 1..Len(chain)
      BY <1>3, <1>6
    <3>2. QED
      BY <1>6, <3>1 DEF HasNil
  <2>2. n + 1 \in Nat /\ n + 1 <= Len(chain) /\ index' = [index EXCEPT ![c] = n + 1]
    BY <1>1, <1>3, <1>6
  <2>3. ASSUME NEW m \in Nat, n <= m PROVE UpTo(ran[r], r, m)
    <3>1. \A i \in 1..Len(ran[r]) : ran[r][i][1] <= n
      BY <1>3 DEF UpTo
    <3>2. \A i \in 1..Len(ran[r]) : ran[r][i][1] <= m
      BY <1>3, <2>3, <3>1
    <3>3. QED
      BY <1>3, <2>1, <3>2 DEF UpTo
  <2>4. UpTo(ran[r], r, n + 1) /\ UpTo(ran[r], r, Len(chain))
    BY <1>3, <2>2, <2>3
  <2>5. QED
    BY <1>1, <1>2, <1>3, <1>4, <2>2, <2>4, OthersKeep
<1>7. QED
  BY <1>2, <1>5, <1>6

LEMMA NextRunsInv ==
    ASSUME RouterInv, NEW r \in Requests, NextRuns(r)
    PROVE  RouterInv'
<1>1. PICK c, n, list : c = ctx[r] /\ n = index[c] + 1 /\ list = Append(ran[r], <<n, request[c]>>)
  OBVIOUS
<1>2. /\ doing[r] = "chain" /\ UNCHANGED <<registered, doing, ctx, request, inUse>>
      /\ n <= Len(chain)
      /\ index' = [index EXCEPT ![c] = n]
      /\ ran' = [ran EXCEPT ![r] = list]
  BY <1>1 DEF NextRuns
<1>3. /\ Len(chain) \in Nat /\ n \in Nat /\ UpTo(ran[r], r, n - 1) /\ request[c] = r
      /\ ran[r] \in Seq(Nat \X Requests)
      /\ doing' = [doing EXCEPT ![r] = "chain"]
  <2>1. /\ index[c] \in Nat /\ UpTo(ran[r], r, index[c]) /\ request[c] = r
        /\ ran[r] \in Seq(Nat \X Requests) /\ chain \in Seq(Handlers)
        /\ doing' = [doing EXCEPT ![r] = "chain"]
    BY <1>1, <1>2 DEF RouterInv, SetupInv, PoolInv, RanInv
  <2>2. n - 1 = index[c]
    BY <1>1, <2>1
  <2>3. QED
    BY <1>1, <2>1, <2>2, LenProperties
<1>4. /\ Len(ran[r]) \in Nat
      /\ list \in Seq(Nat \X Requests) /\ Len(list) = Len(ran[r]) + 1
      /\ \A i \in 1..Len(ran[r]) : list[i] = ran[r][i] /\ ran[r][i][1] \in Nat
      /\ list[Len(ran[r]) + 1] = <<n, r>>
  <2>1. <<n, r>> \in Nat \X Requests
    BY <1>3
  <2>2. QED
    BY <1>1, <1>3, <2>1, AppendProperties, LenProperties, ElementOfSeq
<1>5. UpTo(list, r, n)
  <2>1. /\ \A i \in 1..Len(ran[r]) : ran[r][i][1] <= n - 1 /\ ran[r][i][2] = r
        /\ \A i, j \in 1..Len(ran[r]) : i < j => ran[r][i][1] < ran[r][j][1]
        /\ ~HasNil => Len(ran[r]) = n - 1
    BY <1>3 DEF UpTo
  <2>2. ASSUME NEW i \in 1..Len(ran[r]) PROVE list[i][1] < n /\ list[i][2] = r
    <3>1. PICK k : k = ran[r][i][1]
      OBVIOUS
    <3>2. k \in Nat /\ k <= n - 1 /\ n \in Nat /\ list[i] = ran[r][i] /\ ran[r][i][2] = r
      BY <1>3, <1>4, <2>1, <3>1
    <3>3. k < n
      BY <3>2
    <3>4. QED
      BY <3>1, <3>2, <3>3
  <2>3. list[Len(ran[r]) + 1][1] = n /\ list[Len(ran[r]) + 1][2] = r
    BY <1>4
  <2>4. \A i \in 1..Len(list) : i \in 1..Len(ran[r]) \/ i = Len(ran[r]) + 1
    BY <1>4
  <2>5. ASSUME NEW i \in 1..Len(list) PROVE list[i][1] <= n /\ list[i][2] = r
    <3>1. CASE i \in 1..Len(ran[r])
      <4>1. list[i][1] \in Nat /\ n \in Nat
        BY <1>3, <1>4, <3>1
      <4>2. QED
        BY <2>2, <3>1, <4>1
    <3>2. CASE i = Len(ran[r]) + 1
      BY <1>3, <2>3, <3>2
    <3>3. QED
      BY <2>4, <3>1, <3>2
  <2>6. ASSUME NEW i \in 1..Len(list), NEW j \in 1..Len(list), i < j
        PROVE  list[i][1] < list[j][1]
    <3>1. i \in 1..Len(ran[r])
      BY <1>4, <2>6
    <3>2. QED
      BY <1>4, <2>1, <2>2, <2>3, <2>4, <2>6, <3>1
  <2>7. ~HasNil => Len(list) = n
    BY <1>3, <1>4, <2>1
  <2>8. QED
    BY <2>5, <2>6, <2>7 DEF UpTo
<1>6. QED
  BY <1>1, <1>2, <1>3, <1>4, <1>5, OthersKeep

LEMMA RouterNextInv == RouterInv /\ [RouterNext]_routerVars => RouterInv'
<1> SUFFICES ASSUME RouterInv, [RouterNext]_routerVars PROVE RouterInv'
  OBVIOUS
<1>0. ASSUME UNCHANGED <<registered, doing, ctx, ran, index, request, inUse>>
      PROVE  RouterInv'
  <2>1. SetupInv' /\ PoolInv'
    BY <1>0 DEF RouterInv, SetupInv, PoolInv, registered
  <2>2. \A list, r, n : UpTo(list, r, n) <=> UpTo(list, r, n)'
    BY <1>0 DEF UpTo, HasNil, registered
  <2>3. RanInv'
    BY <1>0, <2>2 DEF RouterInv, RanInv, registered
  <2>4. QED
    BY <1>0, <2>1, <2>3 DEF RouterInv
<1>1. CASE Use \/ Handle
  BY <1>1, SetupNextInv
<1>2. ASSUME NEW r \in Requests, Serve(r) PROVE RouterInv'
  BY <1>2, ServeInv
<1>3. ASSUME NEW r \in Requests, NextEnds(r) PROVE RouterInv'
  BY <1>3, NextEndsInv
<1>4. ASSUME NEW r \in Requests, NextRuns(r) PROVE RouterInv'
  BY <1>4, NextRunsInv
<1>5. ASSUME NEW r \in Requests, HandlerEnds(r) \/ Panics(r) PROVE RouterInv'
  BY <1>0, <1>5 DEF HandlerEnds, Panics
<1>6. ASSUME NEW r \in Requests, Put(r) PROVE RouterInv'
  <2>1. /\ doing[r] = "put" /\ doing' = [doing EXCEPT ![r] = "done"]
        /\ inUse' = inUse \ {ctx[r]} /\ ctx' = [ctx EXCEPT ![r] = Nil]
        /\ UNCHANGED <<registered, ran, index, request>>
    BY <1>6 DEF Put
  <2>2. SetupInv' /\ PoolInv'
    BY <2>1 DEF RouterInv, SetupInv, PoolInv, registered
  <2>3. RanInv'
    <3>1. \A list, q, n : UpTo(list, q, n) <=> UpTo(list, q, n)'
      BY <2>1 DEF UpTo, HasNil, registered
    <3>2. QED
      BY <2>1, <3>1 DEF RouterInv, PoolInv, RanInv, registered
  <2>4. QED
    BY <2>1, <2>2, <2>3 DEF RouterInv
<1>7. CASE UNCHANGED routerVars
  BY <1>0, <1>7 DEF routerVars
<1>8. QED
  BY <1>1, <1>2, <1>3, <1>4, <1>5, <1>6, <1>7 DEF RouterNext, Running

\* For any chain of handlers and any number of requests that share the pool,
\* each handler runs once, in order and for its own packet, and all have run
\* when Serve returns, unless one is nil (router.go:43-52, context.go:202-214).
THEOREM ChainSafe == RouterSpec => []ChainRuns
<1>1. RouterInv => ChainRuns
  <2> SUFFICES ASSUME RouterInv, NEW r \in Requests
               PROVE  /\ \A i, j \in 1..Len(ran[r]) : i < j => ran[r][i][1] < ran[r][j][1]
                      /\ \A i \in 1..Len(ran[r]) : ran[r][i][2] = r
                      /\ doing[r] \in {"put", "done"} /\ ~HasNil => Len(ran[r]) = Len(chain)
    BY DEF ChainRuns
  <2>1. doing[r] \in {"idle", "chain", "put", "done"}
    BY DEF RouterInv, PoolInv
  <2>2. CASE doing[r] = "idle"
    BY <2>2 DEF RouterInv, RanInv
  <2>3. CASE doing[r] # "idle"
    BY <2>1, <2>3 DEF RouterInv, RanInv, UpTo
  <2>4. QED
    BY <2>2, <2>3
<1>2. QED
  BY <1>1, RouterInitInv, RouterNextInv, PTL DEF RouterSpec

-----------------------------------------------------------------------------
(* Sequence. *)

\* Number n comes later than m by d places: the numbers go up by one, and
\* from Last - 1 to 0 or, where Last was taken and skipped, to 1.
After(m, n, d) == n = m + d \/ n = (m + d) - Last \/ n = ((m + d) - Last) + 1

\* The counter is at the last number taken, or at Last behind it.
SequenceInv ==
    /\ num \in 0..Last
    /\ recent \in Seq(0..(Last - 1)) /\ Len(recent) < Last
    /\ \A i, j \in 1..Len(recent) : i <= j => After(recent[i], recent[j], j - i)
    /\ Len(recent) > 0 => recent[Len(recent)] = IF num = Last THEN Last - 1 ELSE num

LEMMA SequenceInitInv == SequenceInit => SequenceInv
<1> SUFFICES ASSUME SequenceInit PROVE SequenceInv
  OBVIOUS
<1>1. recent = << >> /\ Len(recent) = 0 /\ recent \in Seq(0..(Last - 1))
  BY DEF SequenceInit
<1>2. QED
  BY <1>1, LastAssumption DEF SequenceInit, SequenceInv

\* Remembering the number that follows the last one taken.
LEMMA RememberInv ==
    ASSUME SequenceInv, NEW n \in 0..(Last - 1), Remember(n), num' = n,
           IF num = Last THEN n \in {0, 1} ELSE n = num + 1
    PROVE  SequenceInv'
<1> DEFINE all == Append(recent, n)
           L == Len(recent)
<1>1. /\ recent \in Seq(0..(Last - 1)) /\ L \in Nat /\ L < Last
      /\ \A i \in 1..L : recent[i] \in 0..(Last - 1)
  BY LenProperties, ElementOfSeq DEF SequenceInv
<1>2. /\ all \in Seq(0..(Last - 1)) /\ Len(all) = L + 1
      /\ \A i \in 1..L : all[i] = recent[i]
      /\ all[L + 1] = n
  BY <1>1, AppendProperties
<1> HIDE DEF all
<1>3. ASSUME NEW i \in 1..(L + 1), NEW j \in 1..(L + 1), i <= j, j - i < Last - 1
      PROVE  After(all[i], all[j], j - i)
  <2>1. CASE j \in 1..L
    <3>1. i \in 1..L
      BY <1>1, <1>3, <2>1
    <3>2. QED
      BY <1>2, <1>3, <2>1, <3>1 DEF SequenceInv
  <2>2. CASE j = L + 1 /\ i \in 1..L
    <3>1. L \in 1..L /\ i <= L /\ L > 0
      BY <1>1, <2>2
    <3>2. After(recent[i], recent[L], L - i)
      BY <3>1, <2>2 DEF SequenceInv
    <3>3. recent[L] = IF num = Last THEN Last - 1 ELSE num
      BY <3>1 DEF SequenceInv
    <3>4. PICK m, d : m = recent[i] /\ d = L - i
      OBVIOUS
    <3>5. m \in 0..(Last - 1) /\ d \in Nat /\ d < Last - 2 /\ j - i = d + 1
      BY <1>1, <1>3, <2>2, <3>1, <3>4, LastAssumption
    <3>6. After(m, recent[L], d)
      BY <3>2, <3>4
    <3>7. num \in 0..Last /\ Last \in Nat
      BY LastAssumption DEF SequenceInv
    <3>8. After(m, n, d + 1)
      BY <3>3, <3>5, <3>6, <3>7 DEF After
    <3>9. QED
      BY <1>2, <2>2, <3>4, <3>5, <3>8
  <2>3. CASE i = L + 1
    BY <1>1, <1>2, <1>3, <2>3 DEF After
  <2>4. QED
    BY <1>1, <2>1, <2>2, <2>3
<1>4. CASE L + 1 < Last
  <2>1. recent' = all
    BY <1>2, <1>4 DEF Remember, all
  <2>2. \A i, j \in 1..(L + 1) : i <= j => j - i < Last - 1
    BY <1>1, <1>4, LastAssumption
  <2>3. num' \in 0..Last /\ num' # Last
    BY LastAssumption
  <2>4. QED
    BY <1>1, <1>2, <1>3, <1>4, <2>1, <2>2, <2>3 DEF SequenceInv
<1>5. CASE ~(L + 1 < Last)
  <2>1. recent' = Tail(all) /\ all # << >>
    <3>1. all # << >>
      BY <1>1, <1>2
    <3>2. QED
      BY <1>2, <1>5, <3>1 DEF Remember, all
  <2>2. /\ Tail(all) \in Seq(0..(Last - 1)) /\ Len(Tail(all)) = L
        /\ \A i \in 1..L : Tail(all)[i] = all[i + 1]
    BY <1>1, <1>2, <2>1, HeadTailProperties
  <2>3. ASSUME NEW i \in 1..L, NEW j \in 1..L, i <= j
        PROVE  After(Tail(all)[i], Tail(all)[j], j - i)
    <3>1. /\ i + 1 \in 1..(L + 1) /\ j + 1 \in 1..(L + 1) /\ i + 1 <= j + 1
          /\ (j + 1) - (i + 1) = j - i /\ j - i < Last - 1
      BY <1>1, <2>3, LastAssumption
    <3>2. After(all[i + 1], all[j + 1], j - i)
      BY <1>3, <3>1
    <3>3. QED
      BY <2>2, <2>3, <3>2
  <2>4. num' \in 0..Last /\ num' # Last
    BY LastAssumption
  <2>5. L > 0 => Tail(all)[L] = n
    BY <1>1, <1>2, <2>2
  <2>6. QED
    BY <1>1, <2>1, <2>2, <2>3, <2>4, <2>5 DEF SequenceInv
<1>6. QED
  BY <1>4, <1>5

LEMMA SequenceNextInv == SequenceInv /\ [SequenceNext]_sequenceVars => SequenceInv'
<1> SUFFICES ASSUME SequenceInv, [SequenceNext]_sequenceVars PROVE SequenceInv'
  OBVIOUS
<1>1. num \in 0..Last /\ Last \in Nat /\ Last > 1
  BY LastAssumption DEF SequenceInv
<1>2. ASSUME NEW p \in Takers, Add(p) PROVE SequenceInv'
  <2>1. (num + 1) % (Last + 1) = IF num = Last THEN 0 ELSE num + 1
    BY <1>1
  <2>2. num' = IF num = Last THEN 0 ELSE num + 1
    BY <1>2, <2>1 DEF Add
  <2>3. CASE num' = Last
    BY <1>1, <1>2, <2>1, <2>2, <2>3 DEF Add, SequenceInv
  <2>4. CASE num' # Last
    <3>1. Remember(num')
      BY <1>2, <2>4 DEF Add
    <3>2. num' \in 0..(Last - 1)
      BY <1>1, <2>2, <2>4
    <3>3. QED
      BY <2>2, <3>1, <3>2, RememberInv
  <2>5. QED
    BY <2>3, <2>4
<1>3. ASSUME NEW p \in Takers, Wrap(p) PROVE SequenceInv'
  <2>1. CASE num = Last
    <3>1. num' = 1 /\ Remember(1) /\ 1 \in 0..(Last - 1)
      BY <1>1, <1>3, <2>1 DEF Wrap
    <3>2. QED
      BY <2>1, <3>1, RememberInv
  <2>2. CASE num # Last
    BY <1>3, <2>2 DEF Wrap, SequenceInv
  <2>3. QED
    BY <2>1, <2>2
<1>4. CASE UNCHANGED sequenceVars
  BY <1>4 DEF sequenceVars, SequenceInv
<1>5. QED
  BY <1>2, <1>3, <1>4 DEF SequenceNext

\* Whatever the greatest value of the counter is, however many goroutines take
\* numbers and wherever they meet at the wrap, a number comes again only when
\* all others but 0 and the last one were taken since (wire/seq.go:19-27).
THEOREM NumbersFarApart == SequenceSpec => []FarApart
<1>1. SequenceInv => FarApart
  <2> SUFFICES ASSUME SequenceInv,
                      NEW i \in 1..Len(recent), NEW j \in 1..Len(recent)
               PROVE  recent[i] # Last /\ (recent[i] = recent[j] => i = j)
    BY DEF FarApart
  <2>1. Len(recent) \in Nat /\ Len(recent) < Last /\ Last \in Nat
    BY LenProperties, LastAssumption DEF SequenceInv
  <2>2. recent[i] \in 0..(Last - 1) /\ recent[j] \in 0..(Last - 1)
    BY ElementOfSeq DEF SequenceInv
  <2>3. i <= j => After(recent[i], recent[j], j - i)
    BY DEF SequenceInv
  <2>4. j <= i => After(recent[j], recent[i], i - j)
    BY DEF SequenceInv
  <2>5. QED
    BY <2>1, <2>2, <2>3, <2>4 DEF After
<1>2. QED
  BY <1>1, SequenceInitInv, SequenceNextInv, PTL DEF SequenceSpec

-----------------------------------------------------------------------------
(* Wire: big-endian numbers. *)

\* A recursion over a number has a solution that obeys it, and so the value
\* that CHOOSE takes does.
LEMMA ShiftedFacts ==
    ASSUME NEW n \in Nat, NEW w \in Nat
    PROVE  /\ Shifted(n, w)[0] = n
           /\ \A i \in 1..w : Shifted(n, w)[i] = Shifted(n, w)[i - 1] \div Base
           /\ \A i \in 0..w : Shifted(n, w)[i] \in Nat
<1> DEFINE step(x) == x \div Base
           Solves(f) == f = [i \in 0..w |-> IF i = 0 THEN n ELSE step(f[i - 1])]
           g == [x \in Nat \X Nat |-> step(x[1])]
           s == Shifted(n, w)
<1>1. s = CHOOSE h : Solves(h)
  BY DEF Shifted
<1>2. \A x \in Nat : step(x) \in Nat
  BY DivMod, BytesAssumption
<1> HIDE DEF s, step
<1>3. /\ \A i \in 1..w : i - 1 \in 0..w /\ i \in Nat /\ i # 0 /\ i \in 0..w
      /\ \A i \in 0..w : i = 0 \/ i \in 1..w
      /\ 0 \in 0..w
  OBVIOUS
<1>4. g \in [Nat \X Nat -> Nat]
  BY <1>2
<1>5. \A x \in Nat, i \in Nat : g[<<x, i>>] = step(x)
  OBVIOUS
<1> HIDE DEF g
<1>6. PICK f : f \in [0..w -> Nat] /\ f[0] = n /\ \A i \in 1..w : f[i] = g[<<f[i - 1], i>>]
  <2>1. HasSolution(n, g, w)
    BY <1>4, Recursion
  <2>2. QED
    BY <2>1, Zenon DEF HasSolution
<1>7. \A i \in 1..w : f[i] = step(f[i - 1])
  BY <1>3, <1>5, <1>6
<1>8. Solves(f)
  BY <1>3, <1>6, <1>7
<1>9. Solves(s)
  <2> HIDE DEF Solves
  <2> QED
    BY <1>1, <1>8
<1>10. s[0] = n /\ \A i \in 1..w : s[i] = step(s[i - 1])
  BY <1>3, <1>9
<1> DEFINE B == {i \in Nat : i <= w => s[i] \in Nat}
<1>11. \A i \in Nat : i \in B => i + 1 \in B
  <2> SUFFICES ASSUME NEW i \in Nat, i \in B, i + 1 <= w PROVE s[i + 1] \in Nat
    OBVIOUS
  <2>1. i + 1 \in 1..w /\ (i + 1) - 1 = i /\ s[i] \in Nat
    OBVIOUS
  <2>2. s[i + 1] = step(s[i])
    BY <1>10, <2>1
  <2>3. QED
    BY <1>2, <2>1, <2>2
<1>12. Nat \subseteq B
  <2>1. 0 \in B
    BY <1>10
  <2> HIDE DEF B
  <2>2. QED
    BY <1>11, <2>1, NatSetInduction
<1>13. QED
  BY <1>10, <1>12 DEF s, step

\* The same for the numbers that the first bytes make.
LEMMA ValuesFacts ==
    ASSUME NEW bytes \in Seq(Bytes)
    PROVE  /\ Values(bytes)[0] = 0
           /\ \A i \in 1..Len(bytes) :
                 Values(bytes)[i] = Values(bytes)[i - 1] * Base + bytes[i]
<1> DEFINE n == Len(bytes)
           step(x, i) == x * Base + bytes[i]
           Solves(f) == f = [i \in 0..n |-> IF i = 0 THEN 0 ELSE step(f[i - 1], i)]
           g == [x \in Nat \X Nat |-> IF x[2] \in 1..n THEN step(x[1], x[2]) ELSE 0]
           s == Values(bytes)
<1>1. s = CHOOSE h : Solves(h)
  BY DEF Values
<1>2. n \in Nat /\ \A i \in 1..n : bytes[i] \in Nat
  <2>1. n \in Nat
    BY LenProperties
  <2>2. \A i \in 1..n : bytes[i] \in Bytes
    BY ElementOfSeq
  <2>3. Bytes \subseteq Nat
    BY BytesAssumption DEF Bytes
  <2>4. QED
    BY <2>1, <2>2, <2>3
<1>3. \A x \in Nat, i \in 1..n : step(x, i) \in Nat
  BY <1>2, BytesAssumption
<1> HIDE DEF n, s, step
<1>4. /\ \A i \in 1..n : i - 1 \in 0..n /\ i \in Nat /\ i # 0 /\ i \in 0..n
      /\ \A i \in 0..n : i = 0 \/ i \in 1..n
      /\ 0 \in 0..n
  BY <1>2
<1>5. g \in [Nat \X Nat -> Nat]
  BY <1>3
<1>6. \A x \in Nat, i \in 1..n : g[<<x, i>>] = step(x, i)
  BY <1>4
<1> HIDE DEF g
<1>7. 0 \in Nat
  OBVIOUS
<1>8. PICK f : f \in [0..n -> Nat] /\ f[0] = 0 /\ \A i \in 1..n : f[i] = g[<<f[i - 1], i>>]
  <2>1. HasSolution(0, g, n)
    BY <1>2, <1>5, <1>7, Recursion
  <2>2. QED
    BY <2>1, Zenon DEF HasSolution
<1>9. \A i \in 1..n : f[i] = step(f[i - 1], i)
  BY <1>4, <1>6, <1>8
<1>10. Solves(f)
  BY <1>4, <1>8, <1>9
<1>11. Solves(s)
  <2> HIDE DEF Solves
  <2> QED
    BY <1>1, <1>10
<1>12. s[0] = 0 /\ \A i \in 1..n : s[i] = step(s[i - 1], i)
  BY <1>4, <1>11
<1>13. QED
  BY <1>12 DEF s, n, step

\* A number takes width bytes and, when it fits, comes back from them.
LEMMA UintOfPut ==
    ASSUME NEW n \in Nat, NEW w \in Nat
    PROVE  /\ PutUint(n, w) \in Seq(Bytes) /\ Len(PutUint(n, w)) = w
           /\ Fits(n, w) => Uint(PutUint(n, w)) = n
<1> DEFINE sh == Shifted(n, w)
           b == PutUint(n, w)
           v == Values(b)
<1>0. /\ sh[0] = n
      /\ \A i \in 1..w : sh[i] = sh[i - 1] \div Base
      /\ \A i \in 0..w : sh[i] \in Nat
  BY ShiftedFacts
<1>1. b = [i \in 1..w |-> sh[w - i] % Base]
  BY DEF PutUint
<1> HIDE DEF sh, b
<1>2. ASSUME NEW i \in 1..w
      PROVE  w - i \in 0..w /\ b[i] = sh[w - i] % Base /\ b[i] \in Bytes
  <2>1. w - i \in 0..w /\ b[i] = sh[w - i] % Base
    BY <1>1
  <2>2. sh[w - i] \in Nat
    BY <1>0, <2>1
  <2>3. sh[w - i] % Base \in Bytes
    BY <2>2, DivMod, BytesAssumption DEF Bytes
  <2>4. QED
    BY <2>1, <2>3
<1>3. b \in Seq(Bytes) /\ Len(b) = w
  BY <1>1, <1>2
<1>4. v[0] = 0 /\ \A i \in 1..w : v[i] = v[i - 1] * Base + b[i]
  BY <1>3, ValuesFacts
<1> HIDE DEF v
<1>5. ASSUME sh[w] = 0 PROVE v[w] = n
  <2> DEFINE B == {i \in Nat : i <= w => v[i] = sh[w - i]}
  <2>1. 0 \in B
    BY <1>4, <1>5
  <2>2. ASSUME NEW i \in Nat, i \in B, i + 1 <= w PROVE v[i + 1] = sh[w - (i + 1)]
    <3>1. /\ i + 1 \in 1..w /\ (i + 1) - 1 = i /\ w - i \in 1..w
          /\ (w - i) - 1 = w - (i + 1) /\ w - (i + 1) \in 0..w
      BY <2>2
    <3>2. PICK x \in Nat : x = sh[w - (i + 1)]
      BY <1>0, <3>1
    <3>3. v[i + 1] = v[i] * Base + b[i + 1] /\ b[i + 1] = x % Base
      BY <1>2, <1>4, <3>1, <3>2
    <3>4. v[i] = x \div Base
      BY <1>0, <2>2, <3>1, <3>2
    <3>5. ((x \div Base) * Base) + (x % Base) = x
      BY DivMod, BytesAssumption
    <3>6. QED
      BY <3>2, <3>3, <3>4, <3>5
  <2>3. Nat \subseteq B
    <3>1. \A i \in Nat : i \in B => i + 1 \in B
      BY <2>2
    <3> HIDE DEF B
    <3>2. QED
      BY <2>1, <3>1, NatSetInduction
  <2>4. w - w = 0
    OBVIOUS
  <2>5. QED
    BY <1>0, <2>3, <2>4
<1>6. Fits(n, w) => v[w] = n
  BY <1>5 DEF Fits, sh
<1>7. QED
  BY <1>3, <1>6 DEF Uint, b, v

-----------------------------------------------------------------------------
(* Wire: packets as bytes and back. *)

\* Of three byte strings in a row Fixed takes out the middle one.
LEMMA FixedMiddle ==
    ASSUME NEW a \in Seq(Bytes), NEW b \in Seq(Bytes), NEW c \in Seq(Bytes)
    PROVE  Fixed((a \o b) \o c, Len(a) + 1, Len(b)) = b
<1> DEFINE all == (a \o b) \o c
<1>1. Len(a) \in Nat /\ Len(b) \in Nat /\ Len(c) \in Nat
  BY LenProperties
<1>2. Len(all) = (Len(a) + Len(b)) + Len(c)
  BY ConcatProperties
<1>3. SubSeq(all, Len(a) + 1, Len(a) + Len(b)) = b
  BY Middle
<1> HIDE DEF all
<1>4. Len(a) + 1 + Len(b) - 1 = Len(a) + Len(b) /\ Len(a) + Len(b) <= Len(all)
  BY <1>1, <1>2
<1>5. Fixed(all, Len(a) + 1, Len(b)) = b
  BY <1>3, <1>4 DEF Fixed
<1>6. QED
  BY <1>5 DEF all

\* The length before a byte string takes LongLen bytes and reads back.
LEMMA WrittenBytes ==
    ASSUME NEW b \in Seq(Bytes)
    PROVE  LET p == PutUint(Len(b), LongLen) IN
           /\ p \in Seq(Bytes) /\ Len(p) = LongLen
           /\ WriteBytes(b) = p \o b /\ WriteBytes(b) \in Seq(Bytes)
           /\ Len(WriteBytes(b)) = LongLen + Len(b)
           /\ Fits(Len(b), LongLen) => Uint(p) = Len(b)
<1> DEFINE p == PutUint(Len(b), LongLen)
<1>1. Len(b) \in Nat /\ LongLen \in Nat
  BY LenProperties, BytesAssumption
<1>2. p \in Seq(Bytes) /\ Len(p) = LongLen /\ (Fits(Len(b), LongLen) => Uint(p) = Len(b))
  BY <1>1, UintOfPut
<1>3. WriteBytes(b) = p \o b
  BY DEF WriteBytes
<1> HIDE DEF p
<1>4. p \o b \in Seq(Bytes) /\ Len(p \o b) = LongLen + Len(b)
  BY <1>2, ConcatProperties
<1>5. QED
  BY <1>2, <1>3, <1>4 DEF p

\* ConcatAssociative for byte strings, quantified.
LEMMA BytesJoin ==
    \A s, t, u \in Seq(Bytes) : (s \o t) \o u = s \o (t \o u)
BY ConcatAssociative

\* ConcatProperties for byte strings, quantified.
LEMMA BytesJoined ==
    \A s, t \in Seq(Bytes) : s \o t \in Seq(Bytes) /\ Len(s \o t) = Len(s) + Len(t)
BY ConcatProperties

\* ReadBytes finds a byte string where WriteBytes has put it.
LEMMA ReadWritten ==
    ASSUME NEW a \in Seq(Bytes), NEW b \in Seq(Bytes), NEW c \in Seq(Bytes),
           Fits(Len(b), LongLen)
    PROVE  ReadBytes((a \o WriteBytes(b)) \o c, Len(a) + 1) = b
<1> DEFINE p == PutUint(Len(b), LongLen)
           all == (a \o WriteBytes(b)) \o c
<1>1. /\ p \in Seq(Bytes) /\ Len(p) = LongLen /\ WriteBytes(b) = p \o b
      /\ Uint(p) = Len(b)
  BY WrittenBytes
<1> HIDE DEF p
<1>2. a \o p \in Seq(Bytes) /\ Len(a \o p) = Len(a) + LongLen
  BY <1>1, ConcatProperties
<1>3. b \o c \in Seq(Bytes)
  BY ConcatProperties
<1>4. all = ((a \o p) \o b) \o c
  <2>1. a \o (p \o b) = (a \o p) \o b
    BY <1>1, BytesJoin, Zenon
  <2>2. QED
    BY <1>1, <2>1, Zenon
<1> HIDE DEF all
<1>5. all = (a \o p) \o (b \o c)
  BY <1>2, <1>4, BytesJoin, Zenon
<1>6. Fixed(all, Len(a) + 1, LongLen) = p
  BY <1>1, <1>3, <1>5, FixedMiddle
<1>7. Fixed(all, (Len(a) + LongLen) + 1, Len(b)) = b
  <2> DEFINE x == a \o p
  <2>1. all = (x \o b) \o c /\ x \in Seq(Bytes) /\ Len(x) = Len(a) + LongLen
    BY <1>2, <1>4
  <2> HIDE DEF x
  <2>2. QED
    BY <2>1, FixedMiddle
<1>8. (Len(a) + 1) + LongLen = (Len(a) + LongLen) + 1
  BY LenProperties, BytesAssumption
<1>9. ReadBytes(all, Len(a) + 1) = b
  BY <1>1, <1>6, <1>7, <1>8 DEF ReadBytes
<1>10. QED
  BY <1>9 DEF all

\* A header and a body are read back from what they were written to.
LEMMA LogicDecoded ==
    ASSUME NEW p \in LogicPkts
    PROVE  EncodeLogic(p) \in Seq(Bytes) /\ DecodeLogic(EncodeLogic(p)) = p
<1>1. /\ p \in [header : Seq(Bytes), body : Seq(Bytes)]
      /\ Fits(Len(p.header), LongLen) /\ Fits(Len(p.body), LongLen)
  BY PacketsAssumption
<1>2. PICK h \in Seq(Bytes), b \in Seq(Bytes) :
         /\ p.header = h /\ p.body = b /\ p = [header |-> h, body |-> b]
         /\ Fits(Len(h), LongLen) /\ Fits(Len(b), LongLen)
  BY <1>1
<1> DEFINE x == WriteBytes(h)
           y == WriteBytes(b)
           all == x \o y
<1>3. x \in Seq(Bytes) /\ y \in Seq(Bytes) /\ Len(x) = LongLen + Len(h)
  BY WrittenBytes
<1>4. all \in Seq(Bytes) /\ EncodeLogic(p) = all
  BY <1>2, <1>3, ConcatProperties DEF EncodeLogic
<1>5. << >> \in Seq(Bytes) /\ Len(<< >>) = 0
  BY EmptySeq
<1>6. all = (<< >> \o x) \o y /\ all = (x \o y) \o << >>
  BY <1>3, <1>4, ConcatEmptySeq
<1>7. ReadBytes(all, 1) = h
  <2>1. ReadBytes((<< >> \o x) \o y, Len(<< >>) + 1) = h
    BY <1>2, <1>3, <1>5, ReadWritten
  <2>2. Len(<< >>) + 1 = 1
    BY <1>5
  <2>3. QED
    BY <1>6, <2>1, <2>2
<1>8. ReadBytes(all, Len(x) + 1) = b
  <2>1. ReadBytes((x \o y) \o << >>, Len(x) + 1) = b
    BY <1>2, <1>3, <1>5, ReadWritten
  <2>2. QED
    BY <1>6, <2>1
<1> HIDE DEF all
<1>9. DecodeLogic(all) = [header |-> h, body |-> b]
  BY <1>3, <1>7, <1>8 DEF DecodeLogic
<1>10. QED
  BY <1>2, <1>4, <1>9

\* A code and a body are, too.
LEMMA BasicDecoded ==
    ASSUME NEW p \in BasicPkts
    PROVE  EncodeBasic(p) \in Seq(Bytes) /\ DecodeBasic(EncodeBasic(p)) = p
<1>1. /\ p \in [code : Nat, body : Seq(Bytes)]
      /\ Fits(p.code, ShortLen) /\ Fits(Len(p.body), ShortLen)
  BY PacketsAssumption
<1>2. PICK n \in Nat, b \in Seq(Bytes) :
         /\ p.code = n /\ p.body = b /\ p = [code |-> n, body |-> b]
         /\ Fits(n, ShortLen) /\ Fits(Len(b), ShortLen)
  BY <1>1
<1>3. ShortLen \in Nat /\ Len(b) \in Nat
  BY LenProperties, BytesAssumption
<1> DEFINE x == PutUint(n, ShortLen)
           y == PutUint(Len(b), ShortLen)
           all == (x \o y) \o b
<1>4. /\ x \in Seq(Bytes) /\ Len(x) = ShortLen /\ Uint(x) = n
      /\ y \in Seq(Bytes) /\ Len(y) = ShortLen /\ Uint(y) = Len(b)
  BY <1>2, <1>3, UintOfPut
<1>5. EncodeBasic(p) = all
  BY <1>2 DEF EncodeBasic
<1> HIDE DEF x, y
<1>6. << >> \in Seq(Bytes) /\ Len(<< >>) = 0
  BY EmptySeq
<1>7. /\ x \o y \in Seq(Bytes) /\ y \o b \in Seq(Bytes) /\ all \in Seq(Bytes)
      /\ Len(x \o y) = ShortLen + ShortLen
  <2>1. /\ x \o y \in Seq(Bytes)
        /\ Len(x \o y) = Len(x) + Len(y)
    BY <1>4, BytesJoined, Zenon
  <2>2. y \o b \in Seq(Bytes)
    BY <1>4, BytesJoined, Zenon
  <2>3. all \in Seq(Bytes)
    BY <2>1, BytesJoined, Zenon
  <2>4. QED
    BY <1>4, <2>1, <2>2, <2>3
<1>8. /\ all = (<< >> \o x) \o (y \o b)
      /\ all = ((x \o y) \o b) \o << >>
  <2>1. all = x \o (y \o b)
    BY <1>4, ConcatAssociative
  <2>2. << >> \o x = x /\ all \o << >> = all
    BY <1>4, <1>7, ConcatEmptySeq
  <2>3. QED
    BY <2>1, <2>2
<1> HIDE DEF all
<1>9. Fixed(all, 1, ShortLen) = x
  <2>1. Fixed((<< >> \o x) \o (y \o b), Len(<< >>) + 1, Len(x)) = x
    BY <1>4, <1>6, <1>7, FixedMiddle
  <2>2. Len(<< >>) + 1 = 1
    BY <1>6
  <2>3. QED
    BY <1>4, <1>8, <2>1, <2>2
<1>10. Fixed(all, ShortLen + 1, ShortLen) = y
  BY <1>4, FixedMiddle DEF all
<1>11. Fixed(all, 2 * ShortLen + 1, Len(b)) = b
  <2>1. Fixed(((x \o y) \o b) \o << >>, Len(x \o y) + 1, Len(b)) = b
    BY <1>6, <1>7, FixedMiddle
  <2>2. Len(x \o y) + 1 = 2 * ShortLen + 1
    BY <1>3, <1>7
  <2>3. QED
    BY <1>8, <2>1, <2>2
<1>12. DecodeBasic(all) = [code |-> n, body |-> b]
  BY <1>4, <1>9, <1>10, <1>11 DEF DecodeBasic
<1>13. QED
  BY <1>2, <1>5, <1>7, <1>12

\* The magic before the rest of a packet, and the rest.
LEMMA MagicRest ==
    ASSUME NEW m \in Seq(Bytes), NEW e \in Seq(Bytes)
    PROVE  /\ m \o e \in Seq(Bytes)
           /\ Fixed(m \o e, 1, Len(m)) = m
           /\ SubSeq(m \o e, Len(m) + 1, Len(m \o e)) = e
<1>1. << >> \in Seq(Bytes) /\ Len(<< >>) = 0
  BY EmptySeq
<1>2. m \o e \in Seq(Bytes) /\ Len(m \o e) = Len(m) + Len(e)
  BY ConcatProperties
<1>3. << >> \o m = m /\ (m \o e) \o << >> = m \o e
  BY <1>2, ConcatEmptySeq
<1>4. Fixed((<< >> \o m) \o e, Len(<< >>) + 1, Len(m)) = m
  BY <1>1, FixedMiddle
<1>5. SubSeq((m \o e) \o << >>, Len(m) + 1, Len(m) + Len(e)) = e
  BY <1>1, Middle
<1>6. Len(<< >>) + 1 = 1
  BY <1>1
<1>7. QED
  BY <1>2, <1>3, <1>4, <1>5, <1>6

\* Read is the inverse of Marshal.
LEMMA Marshalled ==
    ASSUME NEW p \in LogicPkts \cup BasicPkts
    PROVE  Marshal(p) \in Seq(Bytes) /\ Read(Marshal(p)) = p /\ p # << >>
<1>1. /\ MagicLogicPkt \in Seq(Bytes) /\ MagicBasicPkt \in Seq(Bytes)
      /\ Len(MagicLogicPkt) = Len(MagicBasicPkt) /\ MagicLogicPkt # MagicBasicPkt
  BY BytesAssumption
<1>2. DOMAIN << >> = {}
  OBVIOUS
<1>3. CASE p \in LogicPkts
  <2> DEFINE e == EncodeLogic(p)
  <2>1. e \in Seq(Bytes) /\ DecodeLogic(e) = p
    BY <1>3, LogicDecoded
  <2>2. p \in [header : Seq(Bytes), body : Seq(Bytes)]
    BY <1>3, PacketsAssumption
  <2>3. DOMAIN p = {"header", "body"}
    BY <2>2
  <2>4. Marshal(p) = MagicLogicPkt \o e
    BY <2>3 DEF Marshal
  <2> HIDE DEF e
  <2>5. Read(Marshal(p)) = p
    <3>1. /\ Fixed(Marshal(p), 1, Len(MagicLogicPkt)) = MagicLogicPkt
          /\ SubSeq(Marshal(p), Len(MagicLogicPkt) + 1, Len(Marshal(p))) = e
      BY <1>1, <2>1, <2>4, MagicRest
    <3>2. QED
      BY <1>1, <2>1, <3>1 DEF Read
  <2>6. Marshal(p) \in Seq(Bytes)
    BY <1>1, <2>1, <2>4, MagicRest
  <2>7. p # << >>
    BY <1>2, <2>3
  <2>8. QED
    BY <2>5, <2>6, <2>7
<1>4. CASE p \in BasicPkts
  <2> DEFINE e == EncodeBasic(p)
  <2>1. e \in Seq(Bytes) /\ DecodeBasic(e) = p
    BY <1>4, BasicDecoded
  <2>2. p \in [code : Nat, body : Seq(Bytes)]
    BY <1>4, PacketsAssumption
  <2>3. DOMAIN p = {"code", "body"}
    BY <2>2
  <2>4. Marshal(p) = MagicBasicPkt \o e
    BY <2>3 DEF Marshal
  <2> HIDE DEF e
  <2>5. Read(Marshal(p)) = p
    <3>1. /\ Fixed(Marshal(p), 1, Len(MagicLogicPkt)) = MagicBasicPkt
          /\ SubSeq(Marshal(p), Len(MagicLogicPkt) + 1, Len(Marshal(p))) = e
      BY <1>1, <2>1, <2>4, MagicRest
    <3>2. QED
      BY <1>1, <2>1, <3>1 DEF Read
  <2>6. Marshal(p) \in Seq(Bytes)
    BY <1>1, <2>1, <2>4, MagicRest
  <2>7. p # << >>
    BY <1>2, <2>3
  <2>8. QED
    BY <2>5, <2>6, <2>7
<1>5. QED
  BY <1>3, <1>4

-----------------------------------------------------------------------------
(* Wire: frames. *)

Sent == LogicPkts \cup BasicPkts \cup {<< >>}

Code(p) == IF p = << >> THEN OpPing ELSE OpBinary

Payload(p) == IF p = << >> THEN << >> ELSE Marshal(p)

Frame(p) == PutUint(Code(p), 1) \o WriteBytes(Payload(p))

WireTypeOK ==
    /\ packets \in Seq(Sent)
    /\ wire \in Seq(Bytes) /\ buf \in Seq(Bytes)
    /\ stage \in {"op", "length", "payload"}
    /\ need \in Nat /\ Len(buf) < need
    /\ frames \in Seq([op : Bytes, payload : Seq(Bytes)])

\* What was read is what was sent.
ReadInv ==
    /\ Len(frames) <= Len(packets)
    /\ \A i \in 1..Len(frames) :
          frames[i] = [op |-> Code(packets[i]), payload |-> Payload(packets[i])]

\* Within a frame, the reader knows what it has read of it.
StageInv ==
    LET now == packets[Len(frames) + 1] IN
    /\ stage = "op" => need = 1
    /\ stage = "length" => need = LongLen
    /\ stage = "payload" => need = Len(Payload(now))
    /\ stage # "op" => Len(frames) < Len(packets) /\ op = Code(now)

\* tail[i] is the bytes of the frames from the i-th on.
Tails(tail) ==
    /\ tail \in [1..(Len(packets) + 1) -> Seq(Bytes)]
    /\ tail[Len(packets) + 1] = << >>
    /\ \A i \in 1..Len(packets) : tail[i] = Frame(packets[i]) \o tail[i + 1]

\* What is still to be read at this stage.
Rest(tail) ==
    LET k == Len(frames) + 1 IN
    IF stage = "op" THEN tail[k]
    ELSE (IF stage = "length" THEN WriteBytes(Payload(packets[k])) ELSE Payload(packets[k]))
         \o tail[k + 1]

\* No byte is lost, added or moved: those in the buffer and those on their way
\* are what is still to be read.
BytesInv == \E tail : Tails(tail) /\ buf \o wire = Rest(tail)

WireInv == WireTypeOK /\ ReadInv /\ StageInv /\ BytesInv

\* Whatever is sent, its op code takes one byte and its length fits.
LEMMA SentFacts ==
    ASSUME NEW p \in Sent
    PROVE  /\ Code(p) \in Bytes /\ Code(p) \in Nat /\ Fits(Code(p), 1)
           /\ Payload(p) \in Seq(Bytes) /\ Fits(Len(Payload(p)), LongLen)
<1>1. Code(p) \in Bytes /\ Code(p) \in Nat
  BY BytesAssumption DEF Code, Bytes
<1>2. Fits(Code(p), 1)
  <2>1. Shifted(Code(p), 1)[1] = Shifted(Code(p), 1)[0] \div Base
        /\ Shifted(Code(p), 1)[0] = Code(p)
    <3>1. 1 \in Nat /\ 1 \in 1..1 /\ 1 - 1 = 0
      OBVIOUS
    <3>2. QED
      BY <1>1, <3>1, ShiftedFacts
  <2>2. Code(p) \div Base = 0
    <3> DEFINE c == Code(p)
    <3>1. c \in Nat /\ Base \in Nat /\ Base > 0 /\ c < Base
      BY <1>1, BytesAssumption DEF Bytes
    <3> HIDE DEF c
    <3>2. c \div Base = 0
      BY <3>1
    <3>3. QED
      BY <3>2 DEF c
  <2>3. QED
    BY <2>1, <2>2 DEF Fits
<1>3. CASE p = << >>
  <2>1. Payload(p) = << >> /\ << >> \in Seq(Bytes) /\ Len(<< >>) = 0
    BY <1>3, EmptySeq DEF Payload
  <2>2. Fits(0, LongLen)
    <3> DEFINE s == Shifted(0, LongLen)
               B == {i \in Nat : i <= LongLen => s[i] = 0}
    <3>1. LongLen \in Nat /\ Base \in Nat \ {0}
      BY BytesAssumption
    <3>2. s[0] = 0 /\ \A i \in 1..LongLen : s[i] = s[i - 1] \div Base
      BY <3>1, ShiftedFacts
    <3> HIDE DEF s
    <3>3. 0 \in B
      BY <3>2
    <3>4. \A i \in Nat : i \in B => i + 1 \in B
      <4> SUFFICES ASSUME NEW i \in Nat, i \in B, i + 1 <= LongLen PROVE s[i + 1] = 0
        OBVIOUS
      <4>1. s[i] = 0 /\ i + 1 \in 1..LongLen /\ (i + 1) - 1 = i
        BY <3>1
      <4>2. 0 \div Base = 0
        BY <3>1
      <4>3. QED
        BY <3>2, <4>1, <4>2
    <3>5. Nat \subseteq B
      <4> HIDE DEF B
      <4> QED
        BY <3>3, <3>4, NatSetInduction
    <3>6. s[LongLen] = 0
      BY <3>1, <3>5
    <3>7. QED
      BY <3>6 DEF Fits, s
  <2>3. QED
    BY <1>1, <1>2, <2>1, <2>2
<1>4. CASE p # << >>
  <2>1. p \in LogicPkts \cup BasicPkts /\ Payload(p) = Marshal(p)
    BY <1>4 DEF Sent, Payload
  <2>2. QED
    BY <1>1, <1>2, <2>1, Marshalled, PacketsAssumption
<1>5. QED
  BY <1>3, <1>4

\* The bytes of a frame.
LEMMA FrameFacts ==
    ASSUME NEW p \in Sent
    PROVE  /\ PutUint(Code(p), 1) \in Seq(Bytes) /\ Len(PutUint(Code(p), 1)) = 1
           /\ Uint(PutUint(Code(p), 1)) = Code(p)
           /\ WriteBytes(Payload(p)) \in Seq(Bytes)
           /\ Frame(p) \in Seq(Bytes)
<1>1. /\ PutUint(Code(p), 1) \in Seq(Bytes) /\ Len(PutUint(Code(p), 1)) = 1
      /\ Uint(PutUint(Code(p), 1)) = Code(p)
  <2>1. 1 \in Nat
    OBVIOUS
  <2>2. QED
    BY <2>1, SentFacts, UintOfPut
<1>2. WriteBytes(Payload(p)) \in Seq(Bytes)
  BY SentFacts, WrittenBytes
<1>3. QED
  BY <1>1, <1>2, ConcatProperties DEF Frame

\* At first there are no frames, and no bytes.
LEMMA WireInitInv == WireInit => WireInv
<1> SUFFICES ASSUME WireInit PROVE WireInv
  OBVIOUS
<1> USE DEF WireInit
<1>1. WireTypeOK /\ ReadInv /\ StageInv
  BY EmptySeq DEF WireTypeOK, ReadInv, StageInv
<1>2. BytesInv
  <2> DEFINE tail == [i \in {1} |-> << >>]
  <2>1. << >> \in Seq(Bytes) /\ Len(packets) = 0 /\ Len(frames) = 0
    BY EmptySeq
  <2>2. 1..(Len(packets) + 1) = {1} /\ Len(packets) + 1 = 1 /\ 1..Len(packets) = {}
    BY <2>1
  <2>3. Tails(tail)
    BY <2>1, <2>2 DEF Tails
  <2>4. Rest(tail) = << >>
    BY <2>1 DEF Rest
  <2>5. buf \o wire = << >>
    BY <2>1, ConcatEmptySeq
  <2>6. QED
    BY <2>3, <2>4, <2>5 DEF BytesInv
<1>3. QED
  BY <1>1, <1>2 DEF WireInv

\* A frame that is written goes behind all that is still to be read.
LEMMA WriteInv ==
    ASSUME NEW p \in Sent, WireInv, WriteFrame(Code(p), Payload(p), p)
    PROVE  WireInv'
<1> DEFINE n == Len(packets)
           k == Len(frames) + 1
<1>1. /\ packets' = Append(packets, p)
      /\ wire' = (wire \o PutUint(Code(p), 1)) \o WriteBytes(Payload(p))
      /\ UNCHANGED <<stage, buf, need, op, frames>>
  BY DEF WriteFrame
<1>2. WireTypeOK /\ ReadInv /\ StageInv
  BY DEF WireInv
<1>3. packets \in Seq(Sent) /\ n \in Nat /\ Len(frames) \in Nat
  BY <1>2, LenProperties DEF WireTypeOK
<1>4. packets' \in Seq(Sent) /\ Len(packets') = n + 1 /\ packets'[n + 1] = p
      /\ \A i \in 1..n : packets'[i] = packets[i]
  BY <1>1, <1>3, AppendProperties
<1>5. /\ PutUint(Code(p), 1) \in Seq(Bytes) /\ WriteBytes(Payload(p)) \in Seq(Bytes)
      /\ Frame(p) \in Seq(Bytes) /\ Frame(p) = PutUint(Code(p), 1) \o WriteBytes(Payload(p))
  BY FrameFacts DEF Frame
<1>6. wire \in Seq(Bytes) /\ buf \in Seq(Bytes)
  BY <1>2 DEF WireTypeOK
<1>7. wire' = wire \o Frame(p) /\ wire' \in Seq(Bytes)
  <2> DEFINE x == PutUint(Code(p), 1)
             y == WriteBytes(Payload(p))
  <2>1. x \in Seq(Bytes) /\ y \in Seq(Bytes) /\ Frame(p) = x \o y
    BY <1>5
  <2>2. wire' = (wire \o x) \o y
    BY <1>1
  <2> HIDE DEF x, y
  <2>3. (wire \o x) \o y = wire \o (x \o y)
    BY <1>6, <2>1, BytesJoin, Zenon
  <2>4. wire \o Frame(p) \in Seq(Bytes)
    BY <1>5, <1>6, BytesJoined, Zenon
  <2>5. wire' = wire \o Frame(p)
    BY <2>1, <2>2, <2>3, Zenon
  <2>6. QED
    BY <2>4, <2>5
<1>8. WireTypeOK'
  BY <1>1, <1>2, <1>4, <1>7 DEF WireTypeOK
<1>9. ReadInv'
  <2>1. Len(frames) <= n
    BY <1>2 DEF ReadInv
  <2>2. frames' = frames /\ Len(frames') <= Len(packets')
    BY <1>1, <1>3, <1>4, <2>1
  <2>3. \A i \in 1..Len(frames) : i \in 1..n
    BY <1>3, <2>1
  <2>4. \A i \in 1..Len(frames) : packets'[i] = packets[i]
    BY <1>4, <2>3
  <2>5. QED
    BY <1>2, <2>2, <2>4 DEF ReadInv
<1>10. StageInv'
  <2>1. CASE stage = "op"
    BY <1>1, <1>2, <2>1 DEF StageInv
  <2>2. CASE stage # "op"
    <3>1. k \in 1..n /\ packets'[k] = packets[k] /\ Len(frames) < n + 1
      BY <1>2, <1>3, <1>4, <2>2 DEF StageInv
    <3>2. QED
      BY <1>1, <1>2, <1>4, <2>2, <3>1 DEF StageInv
  <2>3. QED
    BY <2>1, <2>2
<1>11. BytesInv'
  <2>1. PICK tail : Tails(tail) /\ buf \o wire = Rest(tail)
    BY DEF WireInv, BytesInv
  <2>2. /\ tail \in [1..(n + 1) -> Seq(Bytes)] /\ tail[n + 1] = << >>
        /\ \A i \in 1..n : tail[i] = Frame(packets[i]) \o tail[i + 1]
    BY <2>1 DEF Tails
  <2> DEFINE ext == [i \in 1..(n + 2) |-> IF i = n + 2 THEN << >> ELSE tail[i] \o Frame(p)]
  <2>3. /\ \A i \in 1..(n + 1) : i \in 1..(n + 2) /\ i # n + 2
        /\ n + 2 \in 1..(n + 2) /\ n + 1 \in 1..(n + 1)
        /\ \A i \in 1..(n + 2) : i = n + 2 \/ i \in 1..(n + 1)
        /\ \A i \in 1..(n + 1) : i = n + 1 \/ i \in 1..n
        /\ \A i \in 1..n : i \in 1..(n + 1) /\ i + 1 \in 1..(n + 1)
        /\ (n + 1) + 1 = n + 2
    BY <1>3
  <2>4. PICK new : /\ new[n + 2] = << >>
                   /\ \A i \in 1..(n + 1) : new[i] = tail[i] \o Frame(p)
                   /\ new \in [1..(n + 2) -> Seq(Bytes)]
    <3>1. << >> \in Seq(Bytes) /\ \A i \in 1..(n + 1) : tail[i] \o Frame(p) \in Seq(Bytes)
      BY <1>5, <2>2, EmptySeq, ConcatProperties
    <3>2. /\ ext[n + 2] = << >>
          /\ \A i \in 1..(n + 1) : ext[i] = tail[i] \o Frame(p)
          /\ ext \in [1..(n + 2) -> Seq(Bytes)]
      BY <2>3, <3>1
    <3>3. QED
      BY <3>2
  <2>5. ASSUME NEW i \in 1..(n + 1) PROVE new[i] = Frame(packets'[i]) \o new[i + 1]
    <3>1. CASE i = n + 1
      <4>1. new[i] = Frame(p) /\ new[i + 1] = << >>
        BY <1>5, <2>2, <2>3, <2>4, <3>1, ConcatEmptySeq
      <4>2. QED
        BY <1>4, <1>5, <3>1, <4>1, ConcatEmptySeq
    <3>2. CASE i \in 1..n
      <4>1. Frame(packets[i]) \in Seq(Bytes) /\ tail[i + 1] \in Seq(Bytes)
        BY <1>3, <2>2, <2>3, <3>2, FrameFacts, ElementOfSeq
      <4>2. new[i] = (Frame(packets[i]) \o tail[i + 1]) \o Frame(p)
        BY <2>2, <2>3, <2>4, <3>2
      <4>3. new[i] = Frame(packets[i]) \o (tail[i + 1] \o Frame(p))
        BY <1>5, <4>1, <4>2, BytesJoin, Zenon
      <4>4. QED
        BY <1>4, <2>3, <2>4, <3>2, <4>3
    <3>3. QED
      BY <2>3, <3>1, <3>2
  <2>6. Tails(new)'
    BY <1>4, <2>3, <2>4, <2>5 DEF Tails
  <2>7. Rest(new)' = Rest(tail) \o Frame(p)
    <3>1. CASE stage = "op"
      <4>1. k \in 1..(n + 1)
        BY <1>2, <1>3 DEF ReadInv
      <4>2. Rest(new)' = new[k] /\ Rest(tail) = tail[k]
        BY <1>1, <3>1 DEF Rest
      <4>3. QED
        BY <2>4, <4>1, <4>2
    <3>2. CASE stage # "op"
      <4>1. k \in 1..n
        BY <1>2, <1>3, <3>2 DEF StageInv
      <4>2. packets'[k] = packets[k] /\ packets[k] \in Sent
            /\ tail[k + 1] \in Seq(Bytes) /\ new[k + 1] = tail[k + 1] \o Frame(p)
        BY <1>3, <1>4, <2>2, <2>3, <2>4, <4>1, ElementOfSeq
      <4> DEFINE part == IF stage = "length" THEN WriteBytes(Payload(packets[k]))
                                             ELSE Payload(packets[k])
      <4>3. part \in Seq(Bytes)
        BY <4>2, FrameFacts, SentFacts
      <4>4. Rest(new)' = part \o new[k + 1] /\ Rest(tail) = part \o tail[k + 1]
        BY <1>1, <3>2, <4>2 DEF Rest
      <4> HIDE DEF part
      <4>5. part \o (tail[k + 1] \o Frame(p)) = (part \o tail[k + 1]) \o Frame(p)
        BY <1>5, <4>2, <4>3, BytesJoin, Zenon
      <4>6. QED
        BY <4>2, <4>4, <4>5
    <3>3. QED
      BY <3>1, <3>2
  <2>8. buf' \o wire' = (buf \o wire) \o Frame(p)
    <3>1. buf \o (wire \o Frame(p)) = (buf \o wire) \o Frame(p)
      BY <1>5, <1>6, BytesJoin, Zenon
    <3>2. QED
      BY <1>1, <1>7, <3>1
  <2>9. QED
    BY <2>1, <2>6, <2>7, <2>8 DEF BytesInv
<1>12. QED
  BY <1>8, <1>9, <1>10, <1>11 DEF WireInv

\* A byte that moves from the wire into the buffer.
LEMMA ByteMoves ==
    ASSUME NEW S, NEW x \in Seq(S), NEW y \in Seq(S), y # << >>
    PROVE  /\ Append(x, Head(y)) \in Seq(S) /\ Len(Append(x, Head(y))) = Len(x) + 1
           /\ Tail(y) \in Seq(S)
           /\ Append(x, Head(y)) \o Tail(y) = x \o y
<1>1. Head(y) \in S /\ Tail(y) \in Seq(S)
  BY HeadTailProperties
<1>2. Append(x, Head(y)) \in Seq(S) /\ Len(Append(x, Head(y))) = Len(x) + 1
      /\ Append(x, Head(y)) = x \o <<Head(y)>>
  BY <1>1, AppendProperties, AppendIsConcat
<1>3. <<Head(y)>> \in Seq(S) /\ y = <<Head(y)>> \o Tail(y)
  <2>1. <<Head(y)>> \in Seq(S)
    BY <1>1
  <2>2. y = <<Head(y)>> \o Tail(y)
    BY <1>1
  <2>3. QED
    BY <2>1, <2>2
<1>4. (x \o <<Head(y)>>) \o Tail(y) = x \o (<<Head(y)>> \o Tail(y))
  BY <1>1, <1>3, ConcatAssociative
<1>5. QED
  BY <1>1, <1>2, <1>3, <1>4

\* A byte that comes in before the last one of a part.
LEMMA ReadMoreInv == WireInv /\ ReadMore => WireInv'
<1> SUFFICES ASSUME WireInv, ReadMore PROVE WireInv'
  OBVIOUS
<1>1. /\ buf' = Append(buf, Head(wire)) /\ wire' = Tail(wire) /\ Len(buf) + 1 < need
      /\ wire # << >> /\ UNCHANGED <<packets, stage, need, op, frames>>
  BY DEF ReadMore
<1>2. WireTypeOK /\ ReadInv /\ StageInv
  BY DEF WireInv
<1>3. /\ buf' \in Seq(Bytes) /\ wire' \in Seq(Bytes) /\ Len(buf') < need
      /\ buf' \o wire' = buf \o wire
  BY <1>1, <1>2, ByteMoves DEF WireTypeOK
<1>4. WireTypeOK' /\ ReadInv' /\ StageInv'
  BY <1>1, <1>2, <1>3 DEF WireTypeOK, ReadInv, StageInv
<1>5. PICK tail : Tails(tail) /\ buf \o wire = Rest(tail)
  BY DEF WireInv, BytesInv
<1>6. Tails(tail)' /\ Rest(tail)' = Rest(tail)
  BY <1>1, <1>5 DEF Tails, Rest
<1>7. BytesInv'
  BY <1>3, <1>5, <1>6 DEF BytesInv
<1>8. QED
  BY <1>4, <1>7 DEF WireInv

\* The last byte of a part completes it: what the buffer holds then is the part
\* that was written, and the rest of the bytes are the rest of the frames.
LEMMA ReadLastInv == WireInv /\ ReadLast => WireInv'
<1> SUFFICES ASSUME WireInv, ReadLast PROVE WireInv'
  OBVIOUS
<1> DEFINE n == Len(packets)
           k == Len(frames) + 1
<1>1. WireTypeOK /\ ReadInv /\ StageInv
  BY DEF WireInv
<1>2. /\ packets \in Seq(Sent) /\ n \in Nat /\ Len(frames) \in Nat
      /\ wire \in Seq(Bytes) /\ buf \in Seq(Bytes)
      /\ frames \in Seq([op : Bytes, payload : Seq(Bytes)])
  BY <1>1, LenProperties DEF WireTypeOK
<1>3. PICK tail : Tails(tail) /\ buf \o wire = Rest(tail)
  BY DEF WireInv, BytesInv
<1>4. /\ tail \in [1..(n + 1) -> Seq(Bytes)] /\ tail[n + 1] = << >>
      /\ \A i \in 1..n : tail[i] = Frame(packets[i]) \o tail[i + 1]
  BY <1>3 DEF Tails
<1>5. PICK bytes : bytes = Append(buf, Head(wire))
  OBVIOUS
<1>6. wire # << >> /\ wire' = Tail(wire) /\ Len(buf) + 1 = need /\ packets' = packets
  BY DEF ReadLast
<1>7. /\ bytes \in Seq(Bytes) /\ Len(bytes) = need /\ wire' \in Seq(Bytes)
      /\ bytes \o wire' = Rest(tail)
  <2>1. /\ Append(buf, Head(wire)) \in Seq(Bytes) /\ Tail(wire) \in Seq(Bytes)
        /\ Len(Append(buf, Head(wire))) = Len(buf) + 1
        /\ Append(buf, Head(wire)) \o Tail(wire) = buf \o wire
    BY <1>2, <1>6, ByteMoves
  <2>2. QED
    BY <1>3, <1>5, <1>6, <2>1
<1>8. /\ << >> \in Seq(Bytes) /\ Len(<< >>) = 0 /\ LongLen \in Nat \ {0}
      /\ \A s \in Seq(Bytes) : << >> \o s = s
  BY EmptySeq, BytesAssumption, ConcatEmptySeq
<1>9. Tails(tail)'
  BY <1>3, <1>6 DEF Tails
<1>10. k \in 1..n
  <2>1. CASE stage # "op"
    BY <1>1, <1>2, <2>1 DEF StageInv
  <2>2. CASE stage = "op"
    <3>1. k \in 1..n \/ k = n + 1
      BY <1>1, <1>2 DEF ReadInv
    <3>2. bytes # << >>
      BY <1>2, <1>6, <1>7, <1>8
    <3>3. bytes \o wire' # << >>
      BY <1>7, <3>2, ConcatEqualIffEmpty
    <3>4. Rest(tail) = tail[k]
      BY <2>2 DEF Rest
    <3>5. QED
      BY <1>4, <1>7, <3>1, <3>3, <3>4
  <2>3. QED
    BY <2>1, <2>2
<1>11. PICK p \in Sent : p = packets[k]
  BY <1>2, <1>10, ElementOfSeq
<1>12. /\ Code(p) \in Bytes /\ Payload(p) \in Seq(Bytes) /\ Len(Payload(p)) \in Nat
       /\ Fits(Len(Payload(p)), LongLen)
  BY SentFacts, LenProperties
<1>13. PICK rest \in Seq(Bytes) : rest = tail[k + 1]
  <2>1. k + 1 \in 1..(n + 1)
    BY <1>2, <1>10
  <2>2. QED
    BY <1>4, <2>1
<1>14. ASSUME FrameRead(Payload(p)), wire' = rest, op = Code(p) PROVE WireInv'
  <2> DEFINE f == [op |-> op, payload |-> Payload(p)]
  <2>1. /\ frames' = Append(frames, f) /\ stage' = "op" /\ need' = 1 /\ buf' = << >>
    BY <1>14 DEF FrameRead, Expect
  <2>2. f \in [op : Bytes, payload : Seq(Bytes)]
    BY <1>12, <1>14
  <2>3. /\ frames' \in Seq([op : Bytes, payload : Seq(Bytes)]) /\ Len(frames') = k
        /\ frames'[k] = f /\ \A i \in 1..(k - 1) : frames'[i] = frames[i]
    <3> HIDE DEF f
    <3>1. Len(frames) = k - 1
      BY <1>2
    <3>2. QED
      BY <1>2, <2>1, <2>2, <3>1, AppendProperties
  <2>4. WireTypeOK'
    BY <1>6, <1>7, <1>8, <1>2, <2>1, <2>3 DEF WireTypeOK
  <2>5. ReadInv'
    <3>1. Len(frames') <= Len(packets')
      BY <1>6, <1>10, <2>3
    <3>2. ASSUME NEW i \in 1..Len(frames')
          PROVE  frames'[i] = [op |-> Code(packets'[i]), payload |-> Payload(packets'[i])]
      <4>1. CASE i = k
        BY <1>6, <1>11, <1>14, <2>3, <4>1
      <4>2. CASE i # k
        <5>1. i \in 1..Len(frames) /\ i \in 1..(k - 1)
          BY <1>2, <2>3, <4>2
        <5>2. QED
          BY <1>1, <1>6, <2>3, <5>1 DEF ReadInv
      <4>3. QED
        BY <4>1, <4>2
    <3>3. QED
      BY <3>1, <3>2 DEF ReadInv
  <2>6. StageInv'
    BY <2>1 DEF StageInv
  <2>7. buf' \o wire' = Rest(tail)'
    BY <1>8, <1>13, <1>14, <2>1, <2>3 DEF Rest
  <2>8. QED
    BY <1>9, <2>4, <2>5, <2>6, <2>7 DEF WireInv, BytesInv
<1>15. CASE stage = "op"
  <2> DEFINE x == PutUint(Code(p), 1)
             y == WriteBytes(Payload(p))
  <2>1. op' = Uint(bytes) /\ stage' = "length" /\ need' = LongLen /\ buf' = << >>
        /\ UNCHANGED frames
    BY <1>5, <1>15 DEF ReadLast, Expect
  <2>2. x \in Seq(Bytes) /\ Len(x) = 1 /\ Uint(x) = Code(p) /\ y \in Seq(Bytes)
        /\ Frame(p) = x \o y
    BY FrameFacts DEF Frame
  <2> HIDE DEF x, y
  <2>3. bytes \o wire' = x \o (y \o rest) /\ y \o rest \in Seq(Bytes)
    <3>1. Rest(tail) = tail[k] /\ tail[k] = Frame(p) \o rest
      BY <1>4, <1>10, <1>11, <1>13, <1>15 DEF Rest
    <3>2. (x \o y) \o rest = x \o (y \o rest)
      BY <2>2, BytesJoin, Zenon
    <3>3. y \o rest \in Seq(Bytes)
      BY <2>2, ConcatProperties
    <3>4. QED
      BY <1>7, <2>2, <3>1, <3>2, <3>3
  <2>4. Len(bytes) = 1
    BY <1>1, <1>7, <1>15 DEF StageInv
  <2>5. bytes = x /\ wire' = y \o rest
    BY <1>7, <2>2, <2>3, <2>4, SplitEqual
  <2>6. WireTypeOK'
    BY <1>1, <1>6, <1>7, <1>8, <2>1 DEF WireTypeOK
  <2>7. ReadInv'
    BY <1>1, <1>6, <2>1 DEF ReadInv
  <2>8. StageInv'
    BY <1>2, <1>6, <1>10, <1>11, <2>1, <2>2, <2>5 DEF StageInv
  <2>9. buf' \o wire' = Rest(tail)'
    <3>1. Rest(tail)' = y \o rest
      BY <1>6, <1>11, <1>13, <2>1 DEF Rest, y
    <3>2. QED
      BY <1>7, <1>8, <2>1, <2>5, <3>1
  <2>10. QED
    BY <1>9, <2>6, <2>7, <2>8, <2>9 DEF WireInv, BytesInv
<1>16. CASE stage = "length"
  <2> DEFINE x == PutUint(Len(Payload(p)), LongLen)
             y == Payload(p)
  <2>1. /\ x \in Seq(Bytes) /\ Len(x) = LongLen /\ Uint(x) = Len(y)
        /\ WriteBytes(y) = x \o y
    BY <1>12, WrittenBytes
  <2>2. op = Code(p) /\ need = LongLen
    BY <1>1, <1>11, <1>16 DEF StageInv
  <2> HIDE DEF x
  <2>3. bytes \o wire' = x \o (y \o rest) /\ y \o rest \in Seq(Bytes)
    <3>1. Rest(tail) = WriteBytes(y) \o rest
      BY <1>11, <1>13, <1>16 DEF Rest
    <3> HIDE DEF y
    <3>2. y \in Seq(Bytes)
      BY <1>12 DEF y
    <3>3. (x \o y) \o rest = x \o (y \o rest)
      BY <2>1, <3>2, BytesJoin, Zenon
    <3>4. y \o rest \in Seq(Bytes)
      BY <3>2, ConcatProperties
    <3>5. QED
      BY <1>7, <2>1, <3>1, <3>3, <3>4
  <2>4. bytes = x /\ wire' = y \o rest
    BY <1>7, <2>1, <2>2, <2>3, SplitEqual
  <2>5. \/ Len(y) > 0 /\ Expect("payload", Len(y)) /\ UNCHANGED <<op, frames>>
        \/ Len(y) = 0 /\ FrameRead(<< >>) /\ UNCHANGED op
    <3>1. \/ Uint(bytes) > 0 /\ Expect("payload", Uint(bytes)) /\ UNCHANGED <<op, frames>>
          \/ Uint(bytes) = 0 /\ FrameRead(<< >>) /\ UNCHANGED op
      BY <1>5, <1>16 DEF ReadLast
    <3> HIDE DEF y
    <3>2. Uint(bytes) = Len(y)
      BY <2>1, <2>4
    <3>3. QED
      BY <3>1, <3>2
  <2>6. CASE Len(y) = 0
    <3>1. y = << >>
      BY <1>12, <2>6, EmptySeq
    <3>2. FrameRead(<< >>)
      BY <2>5, <2>6
    <3>3. wire' = rest
      BY <1>8, <2>4, <3>1
    <3>4. FrameRead(Payload(p))
      BY <3>1, <3>2
    <3>5. QED
      BY <1>14, <2>2, <3>3, <3>4
  <2>7. CASE Len(y) > 0
    <3>1. /\ stage' = "payload" /\ need' = Len(y) /\ buf' = << >> /\ UNCHANGED <<op, frames>>
      BY <2>5, <2>7 DEF Expect
    <3>2. WireTypeOK'
      BY <1>1, <1>6, <1>7, <1>8, <1>12, <2>7, <3>1 DEF WireTypeOK
    <3>3. ReadInv'
      BY <1>1, <1>6, <3>1 DEF ReadInv
    <3>4. StageInv'
      BY <1>2, <1>6, <1>10, <1>11, <2>2, <3>1 DEF StageInv
    <3>5. buf' \o wire' = Rest(tail)'
      <4>1. Rest(tail)' = y \o rest
        BY <1>6, <1>11, <1>13, <3>1 DEF Rest
      <4>2. QED
        BY <1>7, <1>8, <2>4, <3>1, <4>1
    <3>6. QED
      BY <1>9, <3>2, <3>3, <3>4, <3>5 DEF WireInv, BytesInv
  <2>8. QED
    BY <1>12, <2>6, <2>7
<1>17. CASE stage = "payload"
  <2> DEFINE y == Payload(p)
  <2>1. FrameRead(bytes)
    BY <1>5, <1>17 DEF ReadLast
  <2>2. op = Code(p) /\ Len(bytes) = Len(y)
    BY <1>1, <1>7, <1>11, <1>17 DEF StageInv
  <2>3. bytes \o wire' = y \o rest
    BY <1>7, <1>11, <1>13, <1>17 DEF Rest
  <2>4. bytes = y /\ wire' = rest
    <3>1. y \in Seq(Bytes)
      BY <1>12
    <3> HIDE DEF y
    <3>2. QED
      BY <1>7, <2>2, <2>3, <3>1, SplitEqual
  <2>5. QED
    BY <1>14, <2>1, <2>2, <2>4
<1>18. QED
  BY <1>1, <1>15, <1>16, <1>17 DEF WireTypeOK

\* Whatever is written or read next, the bytes stay in their place.
LEMMA WireNextInv == WireInv /\ [WireNext]_wireVars => WireInv'
<1> SUFFICES ASSUME WireInv, [WireNext]_wireVars PROVE WireInv'
  OBVIOUS
<1>1. CASE WriteAny
  <2>1. << >> \in Sent /\ Code(<< >>) = OpPing /\ Payload(<< >>) = << >>
    BY DEF Sent, Code, Payload
  <2>2. \A p \in LogicPkts \cup BasicPkts :
           p \in Sent /\ Code(p) = OpBinary /\ Payload(p) = Marshal(p)
    BY Marshalled DEF Sent, Code, Payload
  <2>3. QED
    BY <1>1, <2>1, <2>2, WriteInv DEF WriteAny
<1>2. CASE ReadMore
  BY <1>2, ReadMoreInv
<1>3. CASE ReadLast
  BY <1>3, ReadLastInv
<1>4. CASE UNCHANGED wireVars
  <2> USE <1>4 DEF wireVars
  <2>1. WireTypeOK' /\ ReadInv' /\ StageInv'
    BY DEF WireInv, WireTypeOK, ReadInv, StageInv
  <2>2. BytesInv'
    BY DEF WireInv, BytesInv, Tails, Rest
  <2>3. QED
    BY <2>1, <2>2 DEF WireInv
<1>5. QED
  BY <1>1, <1>2, <1>3, <1>4 DEF WireNext

\* Then what has been read is what was written.
LEMMA WireRoundTrip == WireInv => RoundTrip
<1> SUFFICES ASSUME WireInv PROVE RoundTrip
  OBVIOUS
<1>1. WireTypeOK /\ ReadInv /\ StageInv
  BY DEF WireInv
<1>2. packets \in Seq(Sent) /\ Len(packets) \in Nat /\ Len(frames) \in Nat
  BY <1>1, LenProperties DEF WireTypeOK
<1>3. ASSUME wire = << >>, stage = "op" PROVE Len(frames) = Len(packets)
  <2> DEFINE k == Len(frames) + 1
  <2>1. PICK tail : Tails(tail) /\ buf \o wire = Rest(tail)
    BY DEF WireInv, BytesInv
  <2>2. buf = << >>
    <3>1. buf \in Seq(Bytes) /\ Len(buf) < 1
      BY <1>1, <1>3 DEF WireTypeOK, StageInv
    <3>2. QED
      BY <3>1, EmptySeq
  <2>3. tail[k] = << >>
    <3>1. << >> \in Seq(Bytes)
      BY EmptySeq
    <3>2. << >> \o << >> = << >>
      BY <3>1, ConcatEmptySeq
    <3>3. QED
      BY <1>3, <2>1, <2>2, <3>2 DEF Rest
  <2>4. ASSUME k \in 1..Len(packets) PROVE FALSE
    <3>1. packets[k] \in Sent /\ tail[k] = Frame(packets[k]) \o tail[k + 1]
          /\ tail[k + 1] \in Seq(Bytes)
      <4>1. k + 1 \in 1..(Len(packets) + 1)
        BY <1>2, <2>4
      <4>2. packets[k] \in Sent
        BY <1>2, <2>4, ElementOfSeq
      <4>3. QED
        BY <2>1, <2>4, <4>1, <4>2 DEF Tails
    <3>2. PICK p \in Sent, rest \in Seq(Bytes) : Frame(p) \o rest = << >>
      BY <2>3, <3>1
    <3>3. Frame(p) = << >>
      BY <3>2, FrameFacts, ConcatEqualIffEmpty
    <3>4. PutUint(Code(p), 1) = << >>
      BY <3>3, FrameFacts, ConcatEqualIffEmpty DEF Frame
    <3>5. Len(PutUint(Code(p), 1)) = 1
      BY FrameFacts
    <3>6. Len(<< >>) = 0
      OBVIOUS
    <3>7. Len(<< >>) = 1
      BY <3>4, <3>5, Zenon
    <3>8. QED
      BY <3>6, <3>7
  <2>5. QED
    BY <1>1, <1>2, <2>4 DEF ReadInv
<1>4. ASSUME NEW i \in 1..Len(frames)
      PROVE  IF packets[i] = << >> THEN frames[i] = [op |-> OpPing, payload |-> << >>]
             ELSE frames[i].op = OpBinary /\ Read(frames[i].payload) = packets[i]
  <2>1. packets[i] \in Sent
        /\ frames[i] = [op |-> Code(packets[i]), payload |-> Payload(packets[i])]
    <3>1. i \in 1..Len(packets)
      BY <1>1, <1>2 DEF ReadInv
    <3>2. QED
      BY <1>1, <1>2, <3>1, ElementOfSeq DEF ReadInv
  <2>2. CASE packets[i] = << >>
    BY <2>1, <2>2 DEF Code, Payload
  <2>3. CASE packets[i] # << >>
    <3>1. packets[i] \in LogicPkts \cup BasicPkts
      BY <2>1, <2>3 DEF Sent
    <3>2. Read(Marshal(packets[i])) = packets[i]
      BY <3>1, Marshalled
    <3>3. frames[i].op = OpBinary /\ frames[i].payload = Marshal(packets[i])
      BY <2>1, <2>3 DEF Code, Payload
    <3>4. QED
      BY <2>3, <3>2, <3>3
  <2>4. QED
    BY <2>2, <2>3
<1>5. QED
  BY <1>1, <1>3, <1>4 DEF ReadInv, RoundTrip

\* Whatever the sizes of the fields, the packets and the way the bytes come in,
\* RoundTrip holds: a payload is the marshalled packet, which reads back, and
\* with no bytes left nothing is still to be read.
THEOREM RoundTripSafe == WireSpec => []RoundTrip
  BY WireInitInv, WireNextInv, WireRoundTrip, PTL DEF WireSpec

-----------------------------------------------------------------------------
(* Wire implements Outbox. *)

\* What a list that grows holds from some place on grows with it.
LEMMA GrowsBehind ==
    ASSUME NEW S, NEW s \in Seq(S), NEW e \in S, NEW k \in 1..(Len(s) + 1)
    PROVE  /\ SubSeq(Append(s, e), k, Len(s) + 1) = Append(SubSeq(s, k, Len(s)), e)
           /\ Len(SubSeq(s, k, Len(s))) = (Len(s) + 1) - k
<1> DEFINE n == Len(s)
           w == (n + 1) - k
           t == Append(s, e)
           part == SubSeq(s, k, n)
           whole == SubSeq(t, k, n + 1)
           longer == Append(part, e)
<1>1. n \in Nat /\ k \in Nat /\ k >= 1 /\ k <= n + 1
  BY LenProperties
<1>2. t \in Seq(S) /\ Len(t) = n + 1 /\ t[n + 1] = e /\ \A i \in 1..n : t[i] = s[i]
  BY AppendProperties
<1>3. \A i \in k..n : s[i] \in S
  BY <1>1, ElementOfSeq
<1>4. \A i \in k..(n + 1) : t[i] \in S
  BY <1>1, <1>2, ElementOfSeq
<1> HIDE DEF n, t
<1>5. /\ part \in Seq(S) /\ Len(part) = w
      /\ \A i \in 1..w : part[i] = s[k + i - 1]
  BY <1>1, <1>3, SubSeqProperties
<1>6. /\ whole \in Seq(S) /\ Len(whole) = w + 1
      /\ \A i \in 1..(w + 1) : whole[i] = t[k + i - 1]
  BY <1>1, <1>4, SubSeqProperties
<1>7. w \in Nat /\ k + (w + 1) - 1 = n + 1 /\ \A i \in 1..w : k + i - 1 \in 1..n
  BY <1>1
<1> HIDE DEF part, whole, w
<1>8. /\ longer \in Seq(S) /\ Len(longer) = w + 1 /\ longer[w + 1] = e
      /\ \A i \in 1..w : longer[i] = part[i]
  BY <1>5, AppendProperties
<1> HIDE DEF longer
<1>9. ASSUME NEW i \in 1..(w + 1) PROVE whole[i] = longer[i]
  <2>1. CASE i = w + 1
    BY <1>2, <1>6, <1>7, <1>8, <2>1
  <2>2. CASE i \in 1..w
    BY <1>2, <1>5, <1>6, <1>7, <1>8, <2>2
  <2>3. QED
    BY <1>7, <2>1, <2>2
<1>10. whole = longer
  BY <1>6, <1>8, <1>9, SeqEqual
<1>11. QED
  BY <1>5, <1>10 DEF n, t, w, part, whole, longer

\* The packets that were made of the frames are the first ones sent.
DecodedInv ==
    [i \in 1..Len(frames) |-> Decoded(frames[i])] = SubSeq(packets, 1, Len(frames))

LEMMA DecodedFirst == WireInv => DecodedInv
<1> SUFFICES ASSUME WireInv PROVE DecodedInv
  OBVIOUS
<1> DEFINE m == Len(frames)
           d == [i \in 1..m |-> Decoded(frames[i])]
<1>1. packets \in Seq(Sent) /\ Len(packets) \in Nat /\ m \in Nat /\ m <= Len(packets)
  BY LenProperties DEF WireInv, WireTypeOK, ReadInv
<1>2. \A i \in 1..m : packets[i] \in Sent
  BY <1>1, ElementOfSeq
<1>3. ASSUME NEW i \in 1..m PROVE Decoded(frames[i]) = packets[i]
  BY WireRoundTrip, BytesAssumption DEF RoundTrip, Decoded
<1>4. /\ SubSeq(packets, 1, m) \in Seq(Sent) /\ Len(SubSeq(packets, 1, m)) = m
      /\ \A i \in 1..m : SubSeq(packets, 1, m)[i] = packets[i]
  BY <1>1, <1>2, SubSeqProperties
<1> HIDE DEF m
<1>5. d \in [1..m -> Sent] /\ \A i \in 1..m : d[i] = packets[i]
  BY <1>2, <1>3
<1> HIDE DEF d
<1>6. d \in Seq(Sent) /\ Len(d) = m
  BY <1>1, <1>5
<1>7. d = SubSeq(packets, 1, m)
  BY <1>4, <1>5, <1>6, SeqEqual
<1>8. QED
  BY <1>7 DEF d, m, DecodedInv

\* A frame that is written is a packet the outbox takes.
LEMMA PipeTakes ==
    ASSUME NEW p \in Sent, WireInv, WriteFrame(Code(p), Payload(p), p)
    PROVE  Pipe!Accept(p)
<1> DEFINE m == Len(frames)
           n == Len(packets)
<1>1. packets \in Seq(Sent) /\ n \in Nat /\ m \in Nat /\ m <= n
  BY LenProperties DEF WireInv, WireTypeOK, ReadInv
<1>2. packets' = Append(packets, p) /\ frames' = frames /\ n < MaxFrames /\ Len(packets') = n + 1
  BY <1>1, AppendProperties DEF WriteFrame
<1>3. /\ SubSeq(Append(packets, p), m + 1, n + 1) = Append(SubSeq(packets, m + 1, n), p)
      /\ Len(SubSeq(packets, m + 1, n)) = n - m
  <2>1. m + 1 \in 1..(n + 1) /\ (n + 1) - (m + 1) = n - m
    BY <1>1
  <2>2. /\ SubSeq(Append(packets, p), m + 1, n + 1) = Append(SubSeq(packets, m + 1, n), p)
        /\ Len(SubSeq(packets, m + 1, n)) = (n + 1) - (m + 1)
    BY <1>1, <2>1, GrowsBehind
  <2>3. QED
    BY <2>1, <2>2
<1>4. Len(SubSeq(packets, m + 1, n)) < MaxFrames
  BY <1>1, <1>2, <1>3, BytesAssumption
<1>5. QED
  BY <1>2, <1>3, <1>4 DEF Pipe!Accept

\* A frame that has been read whole is the oldest packet on its way.
LEMMA PipeGives ==
    ASSUME WireInv, WireInv', DecodedInv, DecodedInv',
           packets' = packets, NEW f, frames' = Append(frames, f)
    PROVE  Pipe!Deliver
<1> DEFINE m == Len(frames)
           n == Len(packets)
           queue == SubSeq(packets, m + 1, n)
           first == SubSeq(packets, 1, m)
<1>1. /\ packets \in Seq(Sent) /\ n \in Nat /\ m \in Nat
      /\ frames \in Seq([op : Bytes, payload : Seq(Bytes)])
  BY LenProperties DEF WireInv, WireTypeOK
<1>2. Len(frames') = m + 1 /\ m + 1 <= n
  <2>1. Len(Append(frames, f)) = m + 1
    BY <1>1
  <2>2. QED
    BY <2>1 DEF WireInv, ReadInv
<1>3. m + 1 \in 1..n /\ n \in (m + 1)..n /\ m + 1 \in 1..(m + 1) /\ 1 \in 1..n
      /\ m + 1 \in 1..Len(packets) /\ m + 1 \in 1..n /\ (m + 1) - 1 = m
  BY <1>1, <1>2
<1>4. Head(queue) = packets[m + 1] /\ Tail(queue) = SubSeq(packets, (m + 1) + 1, n)
  BY <1>1, <1>3, HeadTailOfSubSeq
<1>5. queue # << >>
  <2>1. \A i \in (m + 1)..n : packets[i] \in Sent
    BY <1>1, <1>3, ElementOfSeq
  <2>2. Len(queue) = n - (m + 1) + 1
    BY <1>1, <1>2, <2>1, SubSeqProperties
  <2>3. Len(queue) # 0
    BY <1>1, <1>2, <2>2
  <2>4. Len(<< >>) = 0
    BY EmptySeq
  <2> HIDE DEF queue
  <2>5. QED
    BY <2>3, <2>4, Zenon
<1>6. SubSeq(packets, 1, m + 1) = Append(first, packets[m + 1])
  <2>1. SubSeq(packets, 1, m + 1) = SubSeq(packets, 1, (m + 1) - 1) \o <<packets[m + 1]>>
    <3>1. 1 \in 1..Len(packets) /\ m + 1 \in 1..Len(packets)
      BY <1>3
    <3>2. QED
      BY <1>1, <3>1, SubSeqRecursiveSecond
  <2>2. first \in Seq(Sent) /\ packets[m + 1] \in Sent
    <3>1. \A i \in 1..m : packets[i] \in Sent
      BY <1>1, <1>2, ElementOfSeq
    <3>2. QED
      BY <1>1, <1>3, <3>1, SubSeqProperties, ElementOfSeq
  <2>3. QED
    BY <1>3, <2>1, <2>2, AppendIsConcat
<1>7. /\ [i \in 1..Len(frames) |-> Decoded(frames[i])] = first
      /\ [i \in 1..Len(frames') |-> Decoded(frames'[i])] = Append(first, packets[m + 1])
  <2>1. [i \in 1..Len(frames') |-> Decoded(frames'[i])] = SubSeq(packets, 1, m + 1)
    BY <1>2 DEF DecodedInv
  <2>2. QED
    BY <1>6, <2>1 DEF DecodedInv
<1>8. QED
  BY <1>2, <1>4, <1>5, <1>7 DEF Pipe!Deliver

\* The bytes of a connection carry its packets as an outbox that never breaks
\* does: whatever their sizes and however the bytes come in, each step of the
\* reader delivers the oldest packet under way, decoded, or stutters.
THEOREM WireImplementsOutbox == WireSpec => PipeSpec
<1>1. WireInit => Pipe!Init
  <2> SUFFICES ASSUME WireInit PROVE Pipe!Init
    OBVIOUS
  <2>1. Len(packets) = 0 /\ Len(frames) = 0
    BY DEF WireInit
  <2>2. SubSeq(packets, Len(frames) + 1, Len(packets)) = << >>
    BY <2>1, SubSeqEmpty
  <2>3. [i \in 1..Len(frames) |-> Decoded(frames[i])] = << >>
    BY <2>1
  <2>4. QED
    BY <2>2, <2>3 DEF Pipe!Init
<1>2. /\ WireInv /\ WireInv' /\ DecodedInv /\ DecodedInv' /\ [WireNext]_wireVars
      => [Pipe!Next]_(Pipe!vars)
  <2> SUFFICES ASSUME WireInv, WireInv', DecodedInv, DecodedInv', [WireNext]_wireVars
               PROVE  [Pipe!Next]_(Pipe!vars)
    OBVIOUS
  <2>1. CASE WriteAny
    <3>1. << >> \in Sent /\ Code(<< >>) = OpPing /\ Payload(<< >>) = << >>
      BY DEF Sent, Code, Payload
    <3>2. \A p \in LogicPkts \cup BasicPkts :
             p \in Sent /\ Code(p) = OpBinary /\ Payload(p) = Marshal(p)
      BY Marshalled DEF Sent, Code, Payload
    <3>3. PICK p \in Sent : WriteFrame(Code(p), Payload(p), p)
      BY <2>1, <3>1, <3>2 DEF WriteAny
    <3>4. Pipe!Accept(p)
      BY <3>3, PipeTakes
    <3>5. QED
      BY <3>4 DEF Pipe!Next, Sent
  <2>2. CASE packets' = packets /\ frames' = frames
    BY <2>2 DEF Pipe!vars
  <2>3. ASSUME NEW f, packets' = packets, frames' = Append(frames, f) PROVE Pipe!Next
    <3>1. Pipe!Deliver
      BY <2>3, PipeGives
    <3>2. QED
      BY <3>1 DEF Pipe!Next
  <2>4. CASE ReadMore
    BY <2>2, <2>4 DEF ReadMore
  <2>5. CASE ReadLast
    BY <2>2, <2>3, <2>5 DEF ReadLast, FrameRead
  <2>6. CASE UNCHANGED wireVars
    BY <2>2, <2>6 DEF wireVars
  <2>7. QED
    BY <2>1, <2>4, <2>5, <2>6 DEF WireNext
<1>3. QED
  BY <1>1, <1>2, WireInitInv, WireNextInv, DecodedFirst, PTL DEF WireSpec, PipeSpec, Pipe!Spec

=============================================================================
