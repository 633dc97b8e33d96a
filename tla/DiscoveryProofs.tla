--------------------------- MODULE DiscoveryProofs ---------------------------
(***************************************************************************)
(* Proofs about Discovery, for any set of instances and any number of      *)
(* starts.                                                                 *)
(***************************************************************************)
EXTENDS Discovery, TLAPS

\* Who holds the mutex is building a client.
LockInv == lock # None => Calling(lock)

\* A service that is being built has a state in its Meta.
MetaInv == \A t \in Threads : Calling(t) => meta[t] \in {"young", "adult"}

IInv == TypeOK /\ LockInv /\ MetaInv /\ OneConnection

LEMMA InitInv == Init => IInv
<1> SUFFICES ASSUME Init PROVE IInv
  OBVIOUS
<1> USE NoneAssumption, StartsAssumption DEF Init, Threads
<1>1. TypeOK
  <2>1. /\ listening \subseteq Services /\ catalog \subseteq Services /\ quit \in BOOLEAN
        /\ main \in [Services -> {"down", "register", "wait", "deregister"}]
    OBVIOUS
  <2>2. starts \in [Services -> 0..MaxStarts] /\ conns \in [Services -> Nat]
    OBVIOUS
  <2>3. /\ client \in [Services -> {"none", "young", "adult"}]
        /\ meta \in [Threads -> {"none", "young", "adult"}]
    OBVIOUS
  <2>4. /\ todo \in [Threads -> SUBSET Services]
        /\ target \in [Threads -> Services \cup {None}]
        /\ lock \in Threads \cup {None}
    OBVIOUS
  <2>5. QED
    BY <2>1, <2>2, <2>3, <2>4 DEF TypeOK
<1>2. LockInv
  BY DEF LockInv
<1>3. MetaInv
  BY DEF MetaInv, Calling
<1>4. OneConnection
  BY DEF OneConnection
<1>5. QED
  BY <1>1, <1>2, <1>3, <1>4 DEF IInv

\* buildClient looks again under the mutex, so the client it adds is the first.
LEMMA NextInv == IInv /\ [Next]_vars => IInv'
<1> SUFFICES ASSUME IInv, [Next]_vars PROVE IInv'
  OBVIOUS
<1> USE NoneAssumption, StartsAssumption
        DEF IInv, TypeOK, LockInv, MetaInv, Calling, Locked, OneConnection, Threads,
            instances, clients, building, Main, Ends
<1>1. ASSUME NEW t \in Threads, Lock(t) PROVE IInv'
  BY <1>1 DEF Lock
<1>2. ASSUME NEW t \in Threads, BuildFound(t) PROVE IInv'
  BY <1>2 DEF BuildFound, Return
<1>3. ASSUME NEW t \in Threads, BuildFail(t) PROVE IInv'
  BY <1>3 DEF BuildFail, Return
<1>4. ASSUME NEW t \in Threads, BuildOK(t) PROVE IInv'
  <2>1. target[t] \in Services /\ conns[target[t]] = 0 /\ meta[t] \in {"young", "adult"}
    BY <1>4 DEF BuildOK
  <2>2. /\ conns' = [conns EXCEPT ![target[t]] = 1]
        /\ client' = [client EXCEPT ![target[t]] = meta[t]]
    BY <1>4, <2>1 DEF BuildOK
  <2>3. OneConnection'
    BY <2>1, <2>2
  <2>4. TypeOK'
    BY <1>4, <2>1, <2>2 DEF BuildOK, Return
  <2>5. LockInv' /\ MetaInv'
    BY <1>4 DEF BuildOK, Return
  <2>6. QED
    BY <2>3, <2>4, <2>5
<1>5. CASE Subscribe \/ FindFail \/ FindEnd
  BY <1>5 DEF Subscribe, FindFail, FindEnd
<1>6. CASE FindOK
  BY <1>6 DEF FindOK
<1>7. ASSUME NEW s \in Services, FindNext(s) PROVE IInv'
  BY <1>7 DEF FindNext
<1>8. CASE WatchFirst \/ WatchEnd
  BY <1>8 DEF WatchFirst, WatchEnd
<1>9. CASE WatchLoad
  BY <1>9 DEF WatchLoad
<1>10. ASSUME NEW s \in Services, WatchKnown(s) PROVE IInv'
  BY <1>10 DEF WatchKnown
<1>11. ASSUME NEW s \in Services, WatchNew(s) PROVE IInv'
  BY <1>11 DEF WatchNew
<1>12. CASE Unsubscribe \/ GrowsEarly
  <2>1. CASE Unsubscribe
    BY <2>1 DEF Unsubscribe
  <2>2. CASE GrowsEarly
    BY <2>2 DEF GrowsEarly
  <2>3. QED
    BY <1>12, <2>1, <2>2
<1>13. ASSUME NEW s \in Services, Grows(s) PROVE IInv'
  BY <1>13 DEF Grows
<1>14. ASSUME NEW s \in Services, InstanceStart(s) PROVE IInv'
  BY <1>14 DEF InstanceStart
<1>15. ASSUME NEW s \in Services, InstanceListens(s) PROVE IInv'
  BY <1>15 DEF InstanceListens
<1>16. ASSUME NEW s \in Services, InstanceRegisters(s) PROVE IInv'
  BY <1>16 DEF InstanceRegisters
<1>17. ASSUME NEW s \in Services, InstanceSignal(s) PROVE IInv'
  BY <1>17 DEF InstanceSignal
<1>18. ASSUME NEW s \in Services, InstanceDeregisters(s) PROVE IInv'
  BY <1>18 DEF InstanceDeregisters
<1>19. ASSUME NEW s \in Services, InstanceCrash(s) PROVE IInv'
  BY <1>19 DEF InstanceCrash
<1>20. ASSUME NEW s \in Services, InstanceExpires(s) PROVE IInv'
  BY <1>20 DEF InstanceExpires
<1>21. ASSUME NEW s \in Services, ConnBreaks(s) PROVE IInv'
  BY <1>21 DEF ConnBreaks
<1>22. CASE UNCHANGED vars
  BY <1>22 DEF vars
<1>23. QED
  BY <1>1, <1>2, <1>3, <1>4, <1>5, <1>6, <1>7, <1>8, <1>9, <1>10, <1>11, <1>12, <1>13,
     <1>14, <1>15, <1>16, <1>17, <1>18, <1>19, <1>20, <1>21, <1>22
     DEF Next, Build, Find, Watch, Instance

LEMMA Inductive == Spec => []IInv
BY InitInv, NextInv, PTL DEF Spec

\* The mutex and the Meta are used by nobody but a goroutine that builds a
\* client, and every variable keeps to its type.
THEOREM TypeCorrect == Spec => []TypeOK
<1>1. IInv => TypeOK
  BY DEF IInv
<1>2. QED
  BY <1>1, Inductive, PTL

\* However the watch and the search interleave, this process holds at most one
\* connection to an instance (container.go:217-250, 255-289).
THEOREM ConnectionsSafe == Spec => []OneConnection
<1>1. IInv => OneConnection
  BY DEF IInv
<1>2. QED
  BY <1>1, Inductive, PTL

-----------------------------------------------------------------------------
(* Discovery implements ClientMap. *)

LEMMA MapInit == Init => CM!Init
BY DEF Init, CM!Init

\* With one connection to an instance at the most, a connection that goes is
\* the only one; a connection that comes is that of a new client.
LEMMA MapNext == IInv /\ [Next]_vars => [CM!Next]_(CM!vars)
<1> DEFINE live == {s \in Services : conns[s] > 0}
<1> SUFFICES ASSUME IInv, [Next]_vars PROVE [CM!Next]_(CM!vars)
  OBVIOUS
<1> USE DEF IInv, OneConnection, TypeOK, Threads
<1>1. ASSUME NEW t \in Threads, BuildOK(t) PROVE CM!Next
  <2> DEFINE s == target[t]
  <2>1. s \in Services /\ client[s] = "none" /\ meta[t] \in {"young", "adult"}
    BY <1>1, NoneAssumption DEF BuildOK, Locked, Calling, MetaInv
  <2>2. client' = [client EXCEPT ![s] = meta[t]]
    BY <1>1 DEF BuildOK
  <2>3. live' = live \cup {s}
    BY <1>1, <2>1 DEF BuildOK
  <2> QED
    BY <2>1, <2>2, <2>3 DEF CM!Next, CM!Add
<1>2. ASSUME NEW s \in Services, Grows(s) PROVE CM!Next
  BY <1>2 DEF Grows, CM!Next, CM!Grow
<1>3. ASSUME NEW s \in Services, client' = client, conns' = [conns EXCEPT ![s] = 0]
      PROVE CM!Next \/ UNCHANGED CM!vars
  <2>1. live' = live \ {s}
    BY <1>3
  <2> QED
    BY <1>3, <2>1 DEF CM!Next, CM!Break, CM!vars
<1>4. ASSUME NEW s \in Services, ConnBreaks(s) PROVE CM!Next \/ UNCHANGED CM!vars
  <2>1. conns[s] \in Nat /\ conns[s] > 0 /\ conns[s] <= 1
    BY <1>4 DEF ConnBreaks
  <2>2. conns[s] - 1 = 0
    BY <2>1
  <2>3. conns' = [conns EXCEPT ![s] = 0] /\ client' = client
    BY <1>4, <2>2 DEF ConnBreaks
  <2> QED
    BY <1>3, <2>3
<1>5. ASSUME NEW s \in Services, Instance(s) PROVE CM!Next \/ UNCHANGED CM!vars
  <2>1. client' = client /\ (conns' = [conns EXCEPT ![s] = 0] \/ conns' = conns)
    BY <1>5 DEF Instance, InstanceStart, InstanceListens, InstanceRegisters, InstanceSignal,
      InstanceDeregisters, InstanceCrash, InstanceExpires, Ends, clients
  <2> QED
    BY <1>3, <2>1 DEF CM!vars
<1>6. ASSUME NEW t \in Threads, Lock(t) \/ BuildFound(t) \/ BuildFail(t)
      PROVE UNCHANGED CM!vars
  BY <1>6 DEF Lock, BuildFound, BuildFail, clients, CM!vars
<1>7. ASSUME Find \/ Watch \/ Unsubscribe \/ GrowsEarly PROVE UNCHANGED CM!vars
  BY <1>7 DEF Find, Subscribe, FindOK, FindFail, FindEnd, FindNext, Watch, WatchFirst,
    WatchLoad, WatchEnd, WatchKnown, WatchNew, Unsubscribe, GrowsEarly, clients, CM!vars
<1>8. CASE UNCHANGED vars
  BY <1>8 DEF vars, clients, CM!vars
<1> QED
  BY <1>1, <1>2, <1>4, <1>5, <1>6, <1>7, <1>8 DEF Next, Build

\* The map of clients a lookup sees is the one of ClientMap, for any set of
\* instances and however often they start, stop and crash.
THEOREM ImplementsClientMap == Spec => ClientMapSpec
BY MapInit, MapNext, Inductive, PTL DEF Spec, ClientMapSpec, CM!Spec
=============================================================================
