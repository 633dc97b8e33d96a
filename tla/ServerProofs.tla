---------------------------- MODULE ServerProofs -----------------------------
(***************************************************************************)
(* Proofs about Server, for any set of connections and ids.                *)
(***************************************************************************)
EXTENDS Server, TLAPS

\* An id is known from Accept on.
Accepted == {"check", "add", "read", "remove", "disconnect", "close"}
CidInv == \A c \in Conns : pc[c] \in Accepted => cid[c] \in Ids

\* The inductive invariant of any server, whatever its Acceptor.
IInv == TypeOK /\ CidInv /\ NoStaleEntry

-----------------------------------------------------------------------------

LEMMA InitInv == Init => IInv
  BY NoneAssumption DEF Init, IInv, TypeOK, CidInv, NoStaleEntry, Accepted

LEMMA TypeNext == IInv /\ [Next]_vars => TypeOK'
<1> SUFFICES ASSUME IInv, [Next]_vars PROVE TypeOK'
  OBVIOUS
<1>0. TypeOK /\ CidInv
  BY DEF IInv
<1> USE <1>0 DEF TypeOK, connVars, shutVars, deployed, Goto, CloseConn
<1>1. ASSUME NEW c \in Conns, Connect(c) PROVE TypeOK'
  BY <1>1 DEF Connect
<1>2. ASSUME NEW c \in Conns, NEW id \in Ids, AcceptOK(c, id) PROVE TypeOK'
  BY <1>2 DEF AcceptOK
<1>3. ASSUME NEW c \in Conns, AcceptFail(c) PROVE TypeOK'
  BY <1>3 DEF AcceptFail
<1>4. ASSUME NEW c \in Conns, CheckRepeated(c) PROVE TypeOK'
  BY <1>4 DEF CheckRepeated
<1>5. ASSUME NEW c \in Conns, CheckFree(c) PROVE TypeOK'
  BY <1>5 DEF CheckFree
<1>6. ASSUME NEW c \in Conns, Add(c) PROVE TypeOK'
  BY <1>6 DEF Add
<1>7. ASSUME NEW c \in Conns, ReadEnd(c) PROVE TypeOK'
  BY <1>7 DEF ReadEnd
<1>8. ASSUME NEW c \in Conns, Remove(c) PROVE TypeOK'
  BY <1>8 DEF Remove
<1>9. ASSUME NEW c \in Conns, Disconnect(c) PROVE TypeOK'
  BY <1>9 DEF Disconnect
<1>10. ASSUME NEW c \in Conns, Close(c) PROVE TypeOK'
  BY <1>10 DEF Close
<1>11. CASE ShutdownStart
  BY <1>11 DEF ShutdownStart
<1>12. ASSUME NEW id \in Ids, RangeVisit(id) PROVE TypeOK'
  BY <1>12 DEF RangeVisit
<1>13. CASE RangeEnd
  BY <1>13 DEF RangeEnd
<1>14. ASSUME NEW c \in Conns, NEW e \in BOOLEAN, ShutdownClose(c, e) PROVE TypeOK'
  BY <1>14 DEF ShutdownClose
<1>15. CASE UNCHANGED vars
  BY <1>15 DEF vars
<1>16. QED
  BY <1>1, <1>2, <1>3, <1>4, <1>5, <1>6, <1>7, <1>8, <1>9, <1>10, <1>11, <1>12,
     <1>13, <1>14, <1>15 DEF Next, Proceed, Shutdown

\* An entry is made by the goroutine of its connection, under its id, and
\* taken out by it before that goroutine goes on.
LEMMA EntryNext == IInv /\ [Next]_vars => CidInv' /\ NoStaleEntry'
<1> SUFFICES ASSUME IInv, [Next]_vars PROVE CidInv' /\ NoStaleEntry'
  OBVIOUS
<1>0. TypeOK /\ CidInv /\ NoStaleEntry
  BY DEF IInv
<1> USE <1>0, NoneAssumption
        DEF TypeOK, CidInv, NoStaleEntry, Accepted, connVars, shutVars, deployed, Goto
<1>1. ASSUME NEW c \in Conns, Connect(c) PROVE CidInv' /\ NoStaleEntry'
  BY <1>1 DEF Connect
<1>2. ASSUME NEW c \in Conns, NEW id \in Ids, AcceptOK(c, id)
      PROVE  CidInv' /\ NoStaleEntry'
  BY <1>2 DEF AcceptOK
<1>3. ASSUME NEW c \in Conns, AcceptFail(c) PROVE CidInv' /\ NoStaleEntry'
  BY <1>3 DEF AcceptFail
<1>4. ASSUME NEW c \in Conns, CheckRepeated(c) PROVE CidInv' /\ NoStaleEntry'
  BY <1>4 DEF CheckRepeated
<1>5. ASSUME NEW c \in Conns, CheckFree(c) PROVE CidInv' /\ NoStaleEntry'
  BY <1>5 DEF CheckFree
<1>6. ASSUME NEW c \in Conns, Add(c) PROVE CidInv' /\ NoStaleEntry'
  BY <1>6 DEF Add
<1>7. ASSUME NEW c \in Conns, ReadEnd(c) PROVE CidInv' /\ NoStaleEntry'
  BY <1>7 DEF ReadEnd
<1>8. ASSUME NEW c \in Conns, Remove(c) PROVE CidInv' /\ NoStaleEntry'
  BY <1>8 DEF Remove
<1>9. ASSUME NEW c \in Conns, Disconnect(c) PROVE CidInv' /\ NoStaleEntry'
  BY <1>9 DEF Disconnect
<1>10. ASSUME NEW c \in Conns, Close(c) PROVE CidInv' /\ NoStaleEntry'
  BY <1>10 DEF Close
<1>11. CASE UNCHANGED connVars
  BY <1>11
<1>12. ASSUME NEW c \in Conns, NEW e \in BOOLEAN, ShutdownClose(c, e)
       PROVE  CidInv' /\ NoStaleEntry'
  BY <1>12 DEF ShutdownClose
<1>13. QED
  BY <1>1, <1>2, <1>3, <1>4, <1>5, <1>6, <1>7, <1>8, <1>9, <1>10, <1>11, <1>12
     DEF Next, Proceed, Shutdown, vars, ShutdownStart, RangeVisit, RangeEnd

\* IInv holds in every reachable state of Server.
THEOREM Invariance == Spec => []IInv
<1>1. IInv /\ [Next]_vars => IInv'
  BY TypeNext, EntryNext DEF IInv
<1>2. QED
  BY InitInv, <1>1, PTL DEF Spec

\* The variables of a server keep to their types: whatever the acceptor
\* returns, the map has only connections under ids (channels.go:16-27).
THEOREM TypeCorrect == Spec => []TypeOK
<1>1. IInv => TypeOK
  BY DEF IInv
<1>2. QED
  BY <1>1, Invariance, PTL

\* The registry of a server holds no stale entry, even where the ids of
\* connections repeat (tcp/server.go:134, 140; channels.go:16-27).
THEOREM RegistrySafe == Spec => []NoStaleEntry
<1>1. IInv => NoStaleEntry
  BY DEF IInv
<1>2. QED
  BY <1>1, Invariance, PTL

-----------------------------------------------------------------------------
(* Where Accept makes a new id for each connection. *)

\* No two connections have the same id.
Unique == \A c, d \in Conns : cid[c] \in Ids /\ cid[c] = cid[d] => c = d

\* The map holds a connection from Add to Remove.
Registered == \A c \in Conns : pc[c] \in {"read", "remove"} => channels[cid[c]] = c

\* An announced connection is on its way to Disconnect, or past it.
Announced ==
    \A c \in announced :
        pc[c] \in {"check", "add", "read", "remove", "disconnect"} \/ c \in signedOut

\* A finished connection is closed.
DoneClosed == \A c \in Conns : pc[c] = "done" => ~open[c]

GInv == Unique /\ Registered /\ Announced /\ DoneClosed

LEMMA GatewayInit == Init => GInv
  BY NoneAssumption DEF Init, GInv, Unique, Registered, Announced, DoneClosed

\* No step changes how the server is deployed.
LEMMA DeployedOnce == [Next]_vars => UNCHANGED deployed
  BY DEF Next, Proceed, Shutdown, vars, deployed, Connect, AcceptOK, AcceptFail,
         CheckRepeated, CheckFree, Add, ReadEnd, Remove, Disconnect, Close,
         ShutdownStart, RangeVisit, RangeEnd, ShutdownClose

\* A new id is nobody's, so no channel is found under it, and nobody else
\* writes the entry made under it.
LEMMA GatewayNext ==
    ASSUME acceptor = "unique", IInv, GInv, [Next]_vars
    PROVE  GInv'
<1>0. TypeOK /\ CidInv /\ NoStaleEntry /\ GInv
  BY DEF IInv
<1> USE <1>0, NoneAssumption
        DEF TypeOK, CidInv, NoStaleEntry, GInv, Unique, Registered, Announced, DoneClosed,
            Accepted, connVars, shutVars, deployed, Goto, CloseConn
<1>1. ASSUME NEW c \in Conns, Connect(c) PROVE GInv'
  BY <1>1 DEF Connect
<1>2. ASSUME NEW c \in Conns, NEW id \in Ids, AcceptOK(c, id) PROVE GInv'
  BY <1>2, acceptor = "unique" DEF AcceptOK
<1>3. ASSUME NEW c \in Conns, AcceptFail(c) PROVE GInv'
  BY <1>3 DEF AcceptFail
<1>4. ASSUME NEW c \in Conns, CheckRepeated(c) PROVE GInv'
  <2>1. pc[c] = "check" /\ cid[c] \in Ids /\ channels[cid[c]] # None
    BY <1>4 DEF CheckRepeated
  <2>2. channels[cid[c]] = c
    BY <2>1
  <2>3. QED
    BY <2>1, <2>2
<1>5. ASSUME NEW c \in Conns, CheckFree(c) PROVE GInv'
  BY <1>5 DEF CheckFree
<1>6. ASSUME NEW c \in Conns, Add(c) PROVE GInv'
  BY <1>6 DEF Add
<1>7. ASSUME NEW c \in Conns, ReadEnd(c) PROVE GInv'
  BY <1>7 DEF ReadEnd
<1>8. ASSUME NEW c \in Conns, Remove(c) PROVE GInv'
  BY <1>8 DEF Remove
<1>9. ASSUME NEW c \in Conns, Disconnect(c) PROVE GInv'
  BY <1>9 DEF Disconnect
<1>10. ASSUME NEW c \in Conns, Close(c) PROVE GInv'
  BY <1>10 DEF Close
<1>11. CASE UNCHANGED connVars
  BY <1>11
<1>12. ASSUME NEW c \in Conns, NEW e \in BOOLEAN, ShutdownClose(c, e) PROVE GInv'
  BY <1>12 DEF ShutdownClose
<1>13. QED
  BY <1>1, <1>2, <1>3, <1>4, <1>5, <1>6, <1>7, <1>8, <1>9, <1>10, <1>11, <1>12
     DEF Next, Proceed, Shutdown, vars, ShutdownStart, RangeVisit, RangeEnd

\* IInv and, where ids are unique, GInv hold in every reachable state.
THEOREM GatewayInvariance == Spec => [](IInv /\ (acceptor = "unique" => GInv))
<1>1. (acceptor = "unique" => GInv) /\ IInv /\ [Next]_vars
        => (acceptor = "unique" => GInv)'
  BY GatewayNext, DeployedOnce DEF deployed
<1>2. Init => (acceptor = "unique" => GInv)
  BY GatewayInit
<1>3. QED
  BY <1>1, <1>2, Invariance, PTL DEF Spec

\* With unique ids a connection that is read can be pushed to by its id, and no
\* two are served under one id (channels.go:16-27, tcp/server.go:129-137).
THEOREM GatewaySafe ==
    Spec => [](Reachable /\ (acceptor = "unique" => OneConnectionPerId))
<1>1. IInv /\ (acceptor = "unique" => GInv) => Reachable
  BY DEF GInv, Registered, Reachable
<1>2. IInv /\ (acceptor = "unique" => GInv)
        => (acceptor = "unique" => OneConnectionPerId)
  BY DEF GInv, IInv, CidInv, Accepted, Unique, OneConnectionPerId
<1>3. QED
  BY <1>1, <1>2, GatewayInvariance, PTL

\* With unique ids no connection that was announced as logged in ends without
\* being signed out, however its read loop and Shutdown meet
\* (tcp/server.go:139-146).
THEOREM SignOutSafe == Spec => []AnnouncedIsSignedOut
<1>1. IInv /\ (acceptor = "unique" => GInv) => AnnouncedIsSignedOut
  BY DEF GInv, Announced, AnnouncedIsSignedOut
<1>2. QED
  BY <1>1, GatewayInvariance, PTL

-----------------------------------------------------------------------------
(* Shutdown. *)

\* The connection is closed, or past the read loop and about to be.
Ending(c) == ~open[c] \/ pc[c] \in {"disconnect", "close"}

\* Each connection registered at the start of Shutdown is ending, or has been
\* collected, or is still in the map under a key Range has not visited.
ShutInv ==
    /\ \A c \in registered : pc[c] \in {"read", "remove", "disconnect", "close", "done"}
    /\ spc = "idle" => unvisited = {} /\ snapshot = {}
    /\ spc = "range" =>
        \A c \in registered :
            \/ Ending(c) \/ c \in snapshot
            \/ pc[c] \in {"read", "remove"} /\ cid[c] \in unvisited
    /\ spc \in {"closing", "returned"} =>
        \A c \in registered : Ending(c) \/ c \in snapshot
    /\ spc = "returned" => snapshot = {}

\* A connection leaves the map only by its own Remove, after which it ends.
LEMMA ShutNext ==
    ASSUME protocol = "tcp", IInv, GInv, ShutInv, [Next]_vars
    PROVE  ShutInv'
<1>0. /\ TypeOK /\ CidInv /\ NoStaleEntry /\ Registered /\ DoneClosed
      /\ ShutInv
  BY DEF GInv, IInv
<1> USE <1>0, NoneAssumption
        DEF TypeOK, ShutInv, Ending, connVars, shutVars, deployed, Goto, CloseConn
<1>1. ASSUME NEW c \in Conns, Connect(c) PROVE ShutInv'
  BY <1>1 DEF Connect
<1>2. ASSUME NEW c \in Conns, NEW id \in Ids, AcceptOK(c, id) PROVE ShutInv'
  BY <1>2 DEF AcceptOK
<1>3. ASSUME NEW c \in Conns, AcceptFail(c) PROVE ShutInv'
  BY <1>3 DEF AcceptFail
<1>4. ASSUME NEW c \in Conns, CheckRepeated(c) PROVE ShutInv'
  BY <1>4 DEF CheckRepeated
<1>5. ASSUME NEW c \in Conns, CheckFree(c) \/ Add(c) \/ ReadEnd(c) PROVE ShutInv'
  BY <1>5 DEF CheckFree, Add, ReadEnd
<1>6. ASSUME NEW c \in Conns, Remove(c) \/ Disconnect(c) \/ Close(c) PROVE ShutInv'
  BY <1>6 DEF Remove, Disconnect, Close
<1>7. CASE ShutdownStart
  BY <1>7, protocol = "tcp" DEF ShutdownStart, GoesOn, NoStaleEntry
<1>8. ASSUME NEW id \in Ids, RangeVisit(id) PROVE ShutInv'
  BY <1>8 DEF RangeVisit, Registered
<1>9. CASE RangeEnd
  BY <1>9 DEF RangeEnd
<1>10. ASSUME NEW c \in Conns, NEW e \in BOOLEAN, ShutdownClose(c, e) PROVE ShutInv'
  BY <1>10 DEF ShutdownClose
<1>11. CASE UNCHANGED vars
  BY <1>11 DEF vars
<1>12. QED
  BY <1>1, <1>2, <1>3, <1>4, <1>5, <1>6, <1>7, <1>8, <1>9, <1>10, <1>11
     DEF Next, Proceed, Shutdown

\* When Shutdown of a tcp server has run to its end, no connection that was
\* registered when it began is left reading (tcp/server.go:155-180).
THEOREM ShutdownSafe == Spec => []TcpShutdownCloses
<1> DEFINE Here == protocol = "tcp" /\ acceptor = "unique"
           G == IInv /\ (acceptor = "unique" => GInv)
<1>1. Init => (Here => ShutInv)
  BY DEF Init, ShutInv
<1>2. G /\ (Here => ShutInv) /\ [Next]_vars => (Here => ShutInv)'
  BY ShutNext, DeployedOnce DEF deployed
<1>3. (Here => ShutInv) => TcpShutdownCloses
  BY DEF ShutInv, Ending, ShutdownCloses, TcpShutdownCloses
<1>4. Spec => []G
  BY GatewayInvariance
<1>5. QED
  BY <1>1, <1>2, <1>3, <1>4, PTL DEF Spec
=============================================================================
