-------------------------------- MODULE Event --------------------------------
(***************************************************************************)
(* The one-time event of event.go: goroutines that call Fire, which runs   *)
(* its body under a sync.Once, beside any number of readers of HasFired    *)
(* and Done.  sync.Once is modelled as the library does it: a fast path on *)
(* its done flag, then a mutex, and done is set after the body.            *)
(***************************************************************************)
EXTENDS Naturals, FiniteSets

CONSTANT Callers  \* goroutines, each of which calls Fire once

VARIABLES
    at,      \* at[p]: "call", "wait", "recheck", "store", "close", "done", "returned"
    ret,     \* ret[p]: what Fire returns to p
    fired,   \* the flag HasFired reads
    closed,  \* how often the channel of Done was closed; twice panics
    spent,   \* the done flag of the Once
    holder   \* the holder of the mutex of the Once, if any

eventVars == <<at, ret, fired, closed, spent, holder>>

EventInit ==
    /\ at = [p \in Callers |-> "call"]
    /\ ret = [p \in Callers |-> FALSE]
    /\ fired = FALSE /\ closed = 0 /\ spent = FALSE /\ holder = {}

Step(p, from, to) == at[p] = from /\ at' = [at EXCEPT ![p] = to]

\* Once.Do: the body has been run, or somebody has to run it.
Call(p) ==
    /\ at[p] = "call"
    /\ at' = [at EXCEPT ![p] = IF spent THEN "returned" ELSE "wait"]
    /\ UNCHANGED <<ret, fired, closed, spent, holder>>

Enter(p) ==
    /\ Step(p, "wait", "recheck")
    /\ holder = {}
    /\ holder' = {p}
    /\ UNCHANGED <<ret, fired, closed, spent>>

Recheck(p) ==
    /\ at[p] = "recheck"
    /\ IF spent
       THEN at' = [at EXCEPT ![p] = "returned"] /\ holder' = {}
       ELSE at' = [at EXCEPT ![p] = "store"] /\ UNCHANGED holder
    /\ UNCHANGED <<ret, fired, closed, spent>>

\* Changed form: done is set before the body, as a compare-and-swap would.
StoreDone(p) ==
    /\ Step(p, "store", "close")
    /\ fired' = TRUE
    /\ spent' = TRUE
    /\ UNCHANGED <<ret, closed, holder>>

\* atomic.StoreInt32(&e.fired, 1)
Store(p) ==
    /\ Step(p, "store", "close")
    /\ fired' = TRUE
    /\ UNCHANGED <<ret, closed, spent, holder>>

\* close(e.c); ret = true
CloseChan(p) ==
    /\ Step(p, "close", "done")
    /\ closed' = closed + 1
    /\ ret' = [ret EXCEPT ![p] = TRUE]
    /\ UNCHANGED <<fired, spent, holder>>

\* Changed form: the mutex is kept.
LeaveLocked(p) ==
    /\ Step(p, "done", "returned")
    /\ spent' = TRUE
    /\ UNCHANGED <<ret, fired, closed, holder>>

\* The deferred done store and unlock of the Once.
Leave(p) ==
    /\ Step(p, "done", "returned")
    /\ spent' = TRUE
    /\ holder' = {}
    /\ UNCHANGED <<ret, fired, closed>>

Fire(p) ==
    Call(p) \/ Enter(p) \/ Recheck(p) \/ Store(p) \/ CloseChan(p) \/ Leave(p)

EventNext == \E p \in Callers : Fire(p)

EventSpec == EventInit /\ [][EventNext]_eventVars

\* A goroutine in Fire runs; the mutex is handed to each that waits for it.
EventFairSpec == EventSpec /\ \A p \in Callers : WF_eventVars(Fire(p)) /\ SF_eventVars(Enter(p))

-----------------------------------------------------------------------------
(* Properties. *)

Returned(p) == at[p] = "returned"

\* "Safe to call multiple times, and concurrently" (event.go:15-16): the
\* channel is closed once and no more.  Fire "returns true iff this call to
\* Fire caused the signaling channel to close" (event.go:16-17): of the calls
\* that returned only one says TRUE, and each leaves a closed channel.
TrueForTheCloser ==
    /\ closed <= 1
    /\ \A p, q \in Callers : ret[p] /\ ret[q] => p = q
    /\ \A p \in Callers : Returned(p) => closed = 1
    /\ (\A p \in Callers : Returned(p)) /\ Callers # {} => \E p \in Callers : ret[p]

\* Every call of Fire returns: time and again none is on its way.
FireReturns == []<>(\A p \in Callers : at[p] = "call" \/ Returned(p))
=============================================================================
