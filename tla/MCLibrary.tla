------------------------------ MODULE MCLibrary ------------------------------
(***************************************************************************)
(* Event, Router, Sequence, Wire, Client and Keepalive side by side: one   *)
(* of the six is chosen at the start and runs alone.                       *)
(***************************************************************************)
EXTENDS Event, Client, Keepalive, Router, Sequence, Wire

VARIABLE which

Registers(c, handlers) == [call |-> c, handlers |-> handlers]

\* The second one registers its middleware twice, the last one panics.
MCSetups == {
    <<Registers("use", <<"next">>), Registers("handle", <<"plain", "next">>)>>,
    <<Registers("use", <<"plain">>), Registers("handle", <<"nil">>),
      Registers("handle", << >>)>>,
    <<Registers("use", <<"next">>), Registers("handle", <<"nil", "plain">>)>>,
    <<Registers("use", <<"next">>), Registers("handle", <<"session">>)>>}

MCMagicLogicPkt == <<2>>
MCMagicBasicPkt == <<1>>
MCLogicPkts == [header : {<< >>, <<1>>}, body : {<< >>, <<0, 2>>}]
MCBasicPkts == [code : {1, 2}, body : {<< >>, <<2, 2>>}]

allVars == <<which, eventVars, routerVars, sequenceVars, wireVars, clientVars, keepaliveVars>>

\* What a component that does not run would choose at its start is fixed.
LibraryInit ==
    /\ which \in {"event", "router", "sequence", "wire", "client", "keepalive"}
    /\ EventInit /\ RouterInit /\ SequenceInit /\ WireInit /\ ClientInit /\ KeepaliveInit
    /\ which = "router" \/ Len(setup) = 3
    /\ which = "client" \/ kind = "tcp"
    /\ which = "keepalive" \/ acceptor = "none"

OnlyEvent ==
    /\ which = "event"
    /\ UNCHANGED <<which, routerVars, sequenceVars, wireVars, clientVars, keepaliveVars>>

OnlyClient ==
    /\ which = "client"
    /\ UNCHANGED <<which, eventVars, routerVars, sequenceVars, wireVars, keepaliveVars>>

OnlyKeepalive ==
    /\ which = "keepalive"
    /\ UNCHANGED <<which, eventVars, routerVars, sequenceVars, wireVars, clientVars>>

LibraryNext ==
    \/ OnlyEvent /\ EventNext
    \/ OnlyClient /\ ClientNext
    \/ OnlyKeepalive /\ KeepaliveNext
    \/ /\ which = "router" /\ RouterNext
       /\ UNCHANGED <<which, eventVars, sequenceVars, wireVars, clientVars, keepaliveVars>>
    \/ /\ which = "sequence" /\ SequenceNext
       /\ UNCHANGED <<which, eventVars, routerVars, wireVars, clientVars, keepaliveVars>>
    \/ /\ which = "wire" /\ WireNext
       /\ UNCHANGED <<which, eventVars, routerVars, sequenceVars, clientVars, keepaliveVars>>

\* With the fairness of Event, Client and Keepalive.
LibrarySpec ==
    /\ LibraryInit /\ [][LibraryNext]_allVars
    /\ \A p \in Callers :
          WF_allVars(OnlyEvent /\ Fire(p)) /\ SF_allVars(OnlyEvent /\ Enter(p))
    /\ \A t \in Connectors : WF_allVars(OnlyClient /\ ConnectorRuns(t))
    /\ \A t \in Senders : WF_allVars(OnlyClient /\ SenderRuns(t))
    /\ \A t \in Closers : WF_allVars(OnlyClient /\ CloserRuns(t))
    /\ \A t \in Connectors \cup Senders : SF_allVars(OnlyClient /\ Locks(t))
    /\ WF_allVars(OnlyKeepalive /\ Served) /\ WF_allVars(OnlyKeepalive /\ TimePasses)

=============================================================================
