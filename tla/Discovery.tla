------------------------------ MODULE Discovery ------------------------------
(***************************************************************************)
(* How a container finds and connects to the instances of one service it   *)
(* depends on: connectToService and buildClient (container/container.go),  *)
(* the map of clients (container/clients.go) and the watch of the catalog  *)
(* (naming/consul/naming.go).  Two goroutines build clients: the one that  *)
(* runs connectToService ("find") and the one of the watch, from which the *)
(* callback is called ("watch").                                           *)
(*                                                                         *)
(* The instances are processes that run a container, too: Init and Start,  *)
(* and shutdown after a signal.  The catalog is outside.  A blocking query *)
(* returns when the catalog changes or when its wait time is over; both    *)
(* give the catalog of that moment, so WaitIndex is left out.              *)
(***************************************************************************)
EXTENDS Naturals, FiniteSets

CONSTANTS
    Services,   \* instances of the service
    MaxStarts,  \* bound on the starts of each instance
    None        \* no instance, no goroutine

ASSUME NoneAssumption == None \notin Services \cup {"find", "watch"}
ASSUME StartsAssumption == MaxStarts \in Nat

Threads == {"find", "watch"}

VARIABLES
    main,      \* main[s]: Start of s: "down", "register", "wait" for the signal,
               \*   or "deregister"
    listening, \* instances whose server accepts connections
    starts,    \* starts[s]: starts of s so far
    catalog,   \* instances in the catalog, with a passing check
    client,    \* client[s]: "none", or the service_state of the client's Meta
    conns,     \* conns[s]: live connections of this process to s
    lock,      \* holder of the Container's mutex in buildClient
    todo,      \* todo[t]: services of its list t has still to look at
    target,    \* target[t]: the service t is building a client for
    meta,      \* meta[t]: service_state in the Meta of that service
    fpc,       \* connectToService: "subscribe", "find", "connect", "done"
    wpc,       \* watch: "none", "first", "load", "callback", "stopped"
    quit       \* Watch.Quit is closed

instances == <<main, listening, starts, catalog>>
clients == <<client, conns>>
building == <<lock, todo, target, meta>>
vars == <<instances, clients, building, fpc, wpc, quit>>

Init ==
    /\ main = [s \in Services |-> "down"]
    /\ listening = {} /\ catalog = {}
    /\ starts = [s \in Services |-> 0]
    /\ client = [s \in Services |-> "none"]
    /\ conns = [s \in Services |-> 0]
    /\ lock = None
    /\ todo = [t \in Threads |-> {}]
    /\ target = [t \in Threads |-> None]
    /\ meta = [t \in Threads |-> "none"]
    /\ fpc = "subscribe" /\ wpc = "none" /\ quit = FALSE

-----------------------------------------------------------------------------
(* The instances.                                                          *)

Main(s, from, to) == main[s] = from /\ main' = [main EXCEPT ![s] = to]

\* Init, and Start as far as the go statement for the server.
InstanceStart(s) ==
    /\ Main(s, "down", "register")
    /\ starts[s] < MaxStarts
    /\ starts' = [starts EXCEPT ![s] = @ + 1]
    /\ UNCHANGED <<listening, catalog, clients, building, fpc, wpc, quit>>

\* The server listens, sooner or later, or fails to, which is logged.
InstanceListens(s) ==
    /\ main[s] # "down"
    /\ listening' = listening \cup {s}
    /\ UNCHANGED <<main, starts, catalog, clients, building, fpc, wpc, quit>>

\* Start registers without waiting for the server; an error is logged.
InstanceRegisters(s) ==
    /\ Main(s, "register", "wait")
    /\ catalog' \in {catalog, catalog \cup {s}}
    /\ UNCHANGED <<listening, starts, clients, building, fpc, wpc, quit>>

\* shutdown after a signal: Srv.Shutdown closes the connections, and leaves
\* the listener open.
InstanceSignal(s) ==
    /\ Main(s, "wait", "deregister")
    /\ conns' = [conns EXCEPT ![s] = 0]
    /\ UNCHANGED <<listening, starts, catalog, client, building, fpc, wpc, quit>>

\* The process is no more, and its sockets with it.
Ends(s) ==
    /\ main' = [main EXCEPT ![s] = "down"]
    /\ listening' = listening \ {s}
    /\ conns' = [conns EXCEPT ![s] = 0]

\* Deregister, an error of which is logged, and the end of the process.
InstanceDeregisters(s) ==
    /\ main[s] = "deregister"
    /\ Ends(s)
    /\ catalog' \in {catalog, catalog \ {s}}
    /\ UNCHANGED <<starts, client, building, fpc, wpc, quit>>

\* A crash leaves the entry in the catalog.
InstanceCrash(s) ==
    /\ main[s] # "down"
    /\ Ends(s)
    /\ UNCHANGED <<starts, catalog, client, building, fpc, wpc, quit>>

\* The health check, if the instance has registered one, gives up.
InstanceExpires(s) ==
    /\ s \in catalog
    /\ main[s] = "down"
    /\ catalog' = catalog \ {s}
    /\ UNCHANGED <<main, listening, starts, clients, building, fpc, wpc, quit>>

\* The connection to an instance breaks while both ends go on: the network, or
\* a deadline of one end.  readLoop returns (container.go:298-301), and nobody
\* closes the client or takes it out of the map.
ConnBreaks(s) ==
    /\ conns[s] > 0
    /\ conns' = [conns EXCEPT ![s] = @ - 1]
    /\ UNCHANGED <<instances, client, building, fpc, wpc, quit>>

-----------------------------------------------------------------------------
(* buildClient, called by t for target[t]. *)

Calling(t) == target[t] # None

Locked(t) == lock = t /\ Calling(t)

Return(t) ==
    /\ target' = [target EXCEPT ![t] = None]
    /\ meta' = [meta EXCEPT ![t] = "none"]
    /\ lock' = None
    /\ UNCHANGED todo

Lock(t) ==
    /\ Calling(t)
    /\ lock = None
    /\ lock' = t
    /\ UNCHANGED <<instances, clients, todo, target, meta, fpc, wpc, quit>>

\* Changed form: the client that is there gets the new Meta.
BuildFoundReplaces(t) ==
    /\ Locked(t)
    /\ client[target[t]] # "none"
    /\ client' = [client EXCEPT ![target[t]] = meta[t]]
    /\ Return(t)
    /\ UNCHANGED <<instances, conns, fpc, wpc, quit>>

\* Somebody else has built it meanwhile.
BuildFound(t) ==
    /\ Locked(t)
    /\ client[target[t]] # "none"
    /\ Return(t)
    /\ UNCHANGED <<instances, clients, fpc, wpc, quit>>

\* Changed form: the error path keeps the mutex.
BuildFailLocked(t) ==
    /\ Locked(t)
    /\ client[target[t]] = "none"
    /\ target' = [target EXCEPT ![t] = None]
    /\ UNCHANGED <<instances, clients, lock, todo, meta, fpc, wpc, quit>>

\* Not a tcp service, no dialer, or Connect fails.
BuildFail(t) ==
    /\ Locked(t)
    /\ client[target[t]] = "none"
    /\ Return(t)
    /\ UNCHANGED <<instances, clients, fpc, wpc, quit>>

\* Changed form: nobody looks again under the mutex.
BuildOKUnchecked(t) ==
    /\ Locked(t)
    /\ target[t] \in listening
    /\ conns' = [conns EXCEPT ![target[t]] = @ + 1]
    /\ client' = [client EXCEPT ![target[t]] = meta[t]]
    /\ Return(t)
    /\ UNCHANGED <<instances, fpc, wpc, quit>>

\* Connect, go readLoop(cli), clients.Add(cli).
BuildOK(t) ==
    /\ Locked(t)
    /\ client[target[t]] = "none"
    /\ target[t] \in listening
    /\ conns' = [conns EXCEPT ![target[t]] = @ + 1]
    /\ client' = [client EXCEPT ![target[t]] = meta[t]]
    /\ Return(t)
    /\ UNCHANGED <<instances, fpc, wpc, quit>>

-----------------------------------------------------------------------------
(* connectToService. *)

Subscribe ==
    /\ fpc = "subscribe"
    /\ fpc' = "find"
    /\ wpc' = "first"
    /\ UNCHANGED <<instances, clients, building, quit>>

FindOK ==
    /\ fpc = "find"
    /\ fpc' = "connect"
    /\ todo' = [todo EXCEPT !["find"] = catalog]
    /\ UNCHANGED <<instances, clients, lock, target, meta, wpc, quit>>

\* The query fails and connectToService returns; the watch goes on alone.
FindFail ==
    /\ fpc = "find"
    /\ fpc' = "done"
    /\ UNCHANGED <<instances, clients, building, wpc, quit>>

\* The next service Find returned: adult at once.
FindNext(s) ==
    /\ fpc = "connect"
    /\ ~Calling("find")
    /\ s \in todo["find"]
    /\ todo' = [todo EXCEPT !["find"] = @ \ {s}]
    /\ target' = [target EXCEPT !["find"] = s]
    /\ meta' = [meta EXCEPT !["find"] = "adult"]
    /\ UNCHANGED <<instances, clients, lock, fpc, wpc, quit>>

FindEnd ==
    /\ fpc = "connect"
    /\ ~Calling("find")
    /\ todo["find"] = {}
    /\ fpc' = "done"
    /\ UNCHANGED <<instances, clients, building, wpc, quit>>

-----------------------------------------------------------------------------
(* The watch. *)

\* Unsubscribe of shutdown, once there is a watch.  Before, it does nothing:
\* the watch that comes later goes on until the process ends.
Unsubscribe ==
    /\ wpc # "none"
    /\ ~quit
    /\ quit' = TRUE
    /\ UNCHANGED <<instances, clients, building, fpc, wpc>>

\* doWatch(wh.Service, nil): what the first query returns is thrown away, and
\* so is its error.
WatchFirst ==
    /\ wpc = "first"
    /\ wpc' \in {"load"} \cup (IF quit THEN {"stopped"} ELSE {})
    /\ UNCHANGED <<instances, clients, building, fpc, quit>>

\* Changed form: Quit is not looked at after the query.
WatchLoadDeaf ==
    /\ wpc = "load"
    /\ wpc' = "callback"
    /\ todo' = [todo EXCEPT !["watch"] = catalog]
    /\ UNCHANGED <<instances, clients, lock, target, meta, fpc, quit>>

\* A query has returned: the test of Quit, then the callback.
WatchLoad ==
    /\ wpc = "load"
    /\ IF quit
       THEN wpc' = "stopped" /\ UNCHANGED todo
       ELSE wpc' = "callback" /\ todo' = [todo EXCEPT !["watch"] = catalog]
    /\ UNCHANGED <<instances, clients, lock, target, meta, fpc, quit>>

\* The callback leaves out a service that has a client.
WatchKnown(s) ==
    /\ wpc = "callback"
    /\ ~Calling("watch")
    /\ s \in todo["watch"]
    /\ client[s] # "none"
    /\ todo' = [todo EXCEPT !["watch"] = @ \ {s}]
    /\ UNCHANGED <<instances, clients, lock, target, meta, fpc, wpc, quit>>

\* A new service is young; a goroutine will call it adult after the delay.
WatchNew(s) ==
    /\ wpc = "callback"
    /\ ~Calling("watch")
    /\ s \in todo["watch"]
    /\ client[s] = "none"
    /\ todo' = [todo EXCEPT !["watch"] = @ \ {s}]
    /\ target' = [target EXCEPT !["watch"] = s]
    /\ meta' = [meta EXCEPT !["watch"] = "young"]
    /\ UNCHANGED <<instances, clients, lock, fpc, wpc, quit>>

WatchEnd ==
    /\ wpc = "callback"
    /\ ~Calling("watch")
    /\ todo["watch"] = {}
    /\ wpc' = "load"
    /\ UNCHANGED <<instances, clients, building, fpc, quit>>

\* The delay is over while the service is still being connected to ...
GrowsEarly ==
    /\ meta["watch"] = "young"
    /\ meta' = [meta EXCEPT !["watch"] = "adult"]
    /\ UNCHANGED <<instances, clients, lock, todo, target, fpc, wpc, quit>>

\* ... or when the client, which shares the Meta, is in the map.
Grows(s) ==
    /\ client[s] = "young"
    /\ client' = [client EXCEPT ![s] = "adult"]
    /\ UNCHANGED <<instances, conns, building, fpc, wpc, quit>>

-----------------------------------------------------------------------------

Build(t) == Lock(t) \/ BuildFound(t) \/ BuildFail(t) \/ BuildOK(t)

Find == Subscribe \/ FindOK \/ FindFail \/ FindEnd \/ \E s \in Services : FindNext(s)

Watch ==
    \/ WatchFirst \/ WatchLoad \/ WatchEnd
    \/ \E s \in Services : WatchKnown(s) \/ WatchNew(s)

Instance(s) ==
    \/ InstanceStart(s) \/ InstanceListens(s) \/ InstanceRegisters(s)
    \/ InstanceSignal(s) \/ InstanceDeregisters(s)
    \/ InstanceCrash(s) \/ InstanceExpires(s)

Next ==
    \/ \E t \in Threads : Build(t)
    \/ Find \/ Watch \/ Unsubscribe
    \/ GrowsEarly \/ \E s \in Services : Grows(s)
    \/ \E s \in Services : Instance(s) \/ ConnBreaks(s)

Spec == Init /\ [][Next]_vars

(***************************************************************************)
(* Fairness.  Goroutines run, and a query of the catalog returns (its wait *)
(* time is bounded).  The mutex is granted to a goroutine that keeps       *)
(* asking, and a dial that is tried again and again on an instance that    *)
(* listens succeeds.  Nothing is assumed of the instances, nor of the      *)
(* health check, which an instance need not have.                          *)
(***************************************************************************)
FairSpec ==
    /\ Spec
    /\ WF_vars(Find) /\ WF_vars(Watch)
    /\ \A t \in Threads : SF_vars(Lock(t)) /\ WF_vars(Build(t))
    /\ \A s \in Services :
        /\ SF_vars(\E t \in Threads : target[t] = s /\ BuildOK(t))
        /\ WF_vars(Grows(s))

-----------------------------------------------------------------------------
(* Properties. *)

\* Every variable keeps to its type.
TypeOK ==
    /\ main \in [Services -> {"down", "register", "wait", "deregister"}]
    /\ listening \subseteq Services /\ catalog \subseteq Services
    /\ starts \in [Services -> 0..MaxStarts]
    /\ client \in [Services -> {"none", "young", "adult"}]
    /\ conns \in [Services -> Nat]
    /\ lock \in Threads \cup {None}
    /\ todo \in [Threads -> SUBSET Services]
    /\ target \in [Threads -> Services \cup {None}]
    /\ meta \in [Threads -> {"none", "young", "adult"}]
    /\ fpc \in {"subscribe", "find", "connect", "done"}
    /\ wpc \in {"none", "first", "load", "callback", "stopped"}
    /\ quit \in BOOLEAN

\* There is one connection per instance at the most, and none without a client
\* in the map that forwards over it: the callback and the search that runs
\* beside it may both want one (container.go:219, 263).
OneConnection ==
    \A s \in Services : conns[s] <= 1 /\ (client[s] = "none" => conns[s] = 0)

\* The watch ends after Unsubscribe.
WatchStops == quit ~> wpc = "stopped"

\* In the catalog and listening, while the watch is subscribed.
Available(s) == s \in catalog \cap listening /\ ~quit

\* An instance that comes up and stays is dialled, and its client becomes and
\* stays adult, whenever it registered: before Find, after it, while the first
\* query of the watch, whose result nobody sees, was running, or before it
\* listened (container.go:81-99, 215-250, naming.go:167).
EventuallyConnected == \A s \in Services : <>[]Available(s) => <>[](client[s] = "adult")

\* "Watch a new added service" (container.go:215): to an instance that is
\* available for good there is a connection again and again.
StaysConnected == \A s \in Services : <>[]Available(s) => []<>(conns[s] = 1)

CM == INSTANCE ClientMap WITH live <- {s \in Services : conns[s] > 0}

\* The map of clients, as lookup sees it, is that of ClientMap.tla: a client,
\* once there, is neither replaced nor removed, and grows up once; a lost
\* connection is not made again (container.go:255-289).
ClientMapSpec == CM!Spec
=============================================================================
