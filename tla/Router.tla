------------------------------- MODULE Router -------------------------------
(***************************************************************************)
(* The router of a logic service (router.go, context.go): goroutines that  *)
(* each Serve one packet with a context from a sync.Pool, which runs the   *)
(* chain of handlers registered for the packet's command.  The process     *)
(* registers them before its server starts (services/server/server.go).    *)
(*                                                                         *)
(* A handler is a middleware that calls Next, a plain one that does not,   *)
(* nil, or one that asks for the session or responds, which panics.  Next  *)
(* is recursive: it runs the handler at index and then calls itself, so a  *)
(* middleware puts one call of Next on top of another.                     *)
(***************************************************************************)
EXTENDS Naturals, Sequences

CONSTANTS
    Requests,  \* the packets, and the goroutines that serve them
    Contexts,  \* the objects of the pool, those it may yet make included
    Setups,    \* what the process may register: lists of calls of "use" and of
               \*   "handle", for the one known command, with their handlers
    Unknown,   \* the packets whose command no handler is registered for
    Nil        \* no context, no packet

Handlers == {"next", "plain", "nil", "session"}

ASSUME SetupsAssumption ==
    \A s \in Setups : s \in Seq([call : {"use", "handle"}, handlers : Seq(Handlers)])

VARIABLES
    setup,     \* the calls of Use and Handle still to come
    middlewares,
    chain,     \* what is registered for the known command
    doing,     \* doing[r]: "idle", "chain", "put" or "done"
    ctx,       \* ctx[r]: the context r serves with
    stack,     \* stack[r]: the calls of Next r is in, the innermost last: 0 for
               \*   one that begins, i for one whose handler i runs
    ran,       \* ran[r]: the handlers r ran, with the packet each of them saw
    index,     \* index[c] and request[c]: the fields of context c
    request,
    inUse,     \* contexts taken and not put back
    crashed    \* a handler panicked, and the process with it

registered == <<setup, middlewares, chain>>
routerVars == <<registered, doing, ctx, stack, ran, index, request, inUse, crashed>>

RouterInit ==
    /\ setup \in Setups /\ middlewares = << >> /\ chain = << >>
    /\ doing = [r \in Requests |-> "idle"]
    /\ ctx = [r \in Requests |-> Nil]
    /\ stack = [r \in Requests |-> << >>]
    /\ ran = [r \in Requests |-> << >>]
    /\ index = [c \in Contexts |-> 0]
    /\ request = [c \in Contexts |-> Nil]
    /\ inUse = {} /\ crashed = FALSE

-----------------------------------------------------------------------------

\* Use: for the commands that are registered later.
Use ==
    /\ setup # << >> /\ Head(setup).call = "use"
    /\ middlewares' = middlewares \o Head(setup).handlers
    /\ setup' = Tail(setup)
    /\ UNCHANGED <<chain, doing, ctx, stack, ran, index, request, inUse, crashed>>

\* Handle: behind what the command has, with the middlewares before the others.
Handle ==
    /\ setup # << >> /\ Head(setup).call = "handle"
    /\ chain' = chain \o middlewares \o Head(setup).handlers
    /\ setup' = Tail(setup)
    /\ UNCHANGED <<middlewares, doing, ctx, stack, ran, index, request, inUse, crashed>>

\* Changed form: the context is back in the pool while it is used.
ServePutsFirst(r) ==
    \E c \in Contexts \ inUse :
        /\ setup = << >> /\ doing[r] = "idle"
        /\ doing' = [doing EXCEPT ![r] = "chain"]
        /\ ctx' = [ctx EXCEPT ![r] = c]
        /\ stack' = [stack EXCEPT ![r] = <<0>>]
        /\ index' = [index EXCEPT ![c] = 0]
        /\ request' = [request EXCEPT ![c] = r]
        /\ UNCHANGED <<registered, ran, inUse, crashed>>

\* Serve takes a context, resets it and calls Next.
Serve(r) ==
    \E c \in Contexts \ inUse :
        /\ setup = << >> /\ doing[r] = "idle"
        /\ doing' = [doing EXCEPT ![r] = "chain"]
        /\ ctx' = [ctx EXCEPT ![r] = c]
        /\ stack' = [stack EXCEPT ![r] = <<0>>]
        /\ inUse' = inUse \cup {c}
        /\ index' = [index EXCEPT ![c] = 0]
        /\ request' = [request EXCEPT ![c] = r]
        /\ UNCHANGED <<registered, ran, crashed>>

Below(s) == SubSeq(s, 1, Len(s) - 1)

Top(r) == stack[r][Len(stack[r])]

\* The innermost call of Next returns to the handler that called it or, in
\* the end, to Serve.
Return(r) ==
    /\ stack' = [stack EXCEPT ![r] = Below(@)]
    /\ doing' = [doing EXCEPT ![r] = IF Len(stack[r]) = 1 THEN "put" ELSE "chain"]

\* Next finds no handler, or nil in its place, and returns.
NextEnds(r) ==
    LET c == ctx[r] IN
    /\ doing[r] = "chain" /\ Top(r) = 0 /\ r \notin Unknown
    /\ \/ index[c] >= Len(chain) /\ UNCHANGED index
       \/ /\ index[c] < Len(chain) /\ chain[index[c] + 1] = "nil"
          /\ index' = [index EXCEPT ![c] = @ + 1]
    /\ Return(r)
    /\ UNCHANGED <<registered, ctx, ran, request, inUse, crashed>>

\* Next runs the handler at index; a middleware calls Next itself.
NextRuns(r) ==
    LET c == ctx[r]
        i == index[c] + 1
    IN
    /\ doing[r] = "chain" /\ Top(r) = 0 /\ r \notin Unknown
    /\ i <= Len(chain) /\ chain[i] \in {"next", "plain"}
    /\ index' = [index EXCEPT ![c] = i]
    /\ ran' = [ran EXCEPT ![r] = Append(@, <<i, request[c]>>)]
    /\ stack' = [stack EXCEPT ![r] =
          IF chain[i] = "next" THEN Append(Below(@), i) \o <<0>>
          ELSE Append(Below(@), i)]
    /\ UNCHANGED <<registered, doing, ctx, request, inUse, crashed>>

\* The handler returns, and the Next that ran it calls Next, as its last act.
HandlerEnds(r) ==
    /\ doing[r] = "chain" /\ Top(r) # 0
    /\ stack' = [stack EXCEPT ![r] = Append(Below(@), 0)]
    /\ UNCHANGED <<registered, doing, ctx, ran, index, request, inUse, crashed>>

\* handleNoFound or a handler responds, dispatches or asks for the Session,
\* which panics in every case.
Panics(r) ==
    /\ doing[r] = "chain"
    /\ \/ r \in Unknown
       \/ LET i == index[ctx[r]] + 1
          IN Top(r) = 0 /\ i <= Len(chain) /\ chain[i] = "session"
    /\ crashed' = TRUE
    /\ UNCHANGED <<registered, doing, ctx, stack, ran, index, request, inUse>>

\* pool.Put
Put(r) ==
    /\ doing[r] = "put"
    /\ doing' = [doing EXCEPT ![r] = "done"]
    /\ inUse' = inUse \ {ctx[r]}
    /\ ctx' = [ctx EXCEPT ![r] = Nil]
    /\ UNCHANGED <<registered, stack, ran, index, request, crashed>>

Running(r) == NextEnds(r) \/ NextRuns(r) \/ HandlerEnds(r) \/ Panics(r) \/ Put(r)

RouterNext ==
    /\ ~crashed
    /\ Use \/ Handle \/ \E r \in Requests : Serve(r) \/ Running(r)

RouterSpec == RouterInit /\ [][RouterNext]_routerVars

-----------------------------------------------------------------------------
(* Properties. *)

HasNil == \E i \in 1..Len(chain) : chain[i] = "nil"

\* router.go:43-52, context.go:202-214: each handler of the chain runs once, in
\* the order of registration and for the packet that is being served, whether
\* or not the handlers call Next and whoever used the context before; and all
\* have run when Serve returns, unless nil was among them.
ChainRuns ==
    \A r \in Requests :
        /\ \A i, j \in 1..Len(ran[r]) : i < j => ran[r][i][1] < ran[r][j][1]
        /\ \A i \in 1..Len(ran[r]) : ran[r][i][2] = r
        /\ doing[r] \in {"put", "done"} /\ ~HasNil => Len(ran[r]) = Len(chain)

=============================================================================
