---------------------------- MODULE MCUdpSession ----------------------------
(* Model values for UdpSession.                                            *)
EXTENDS UdpSession

AnyRecv == {"nothing", "send", "disconnect"}

\* An application that polls its connection as the client program does; a
\* packet may make it answer or disconnect.
Polling == [owned |-> TRUE, tick |-> {"poll"}, recv |-> AnyRecv,
            reconnects |-> {FALSE}]

\* Any application that connects only when disconnected.
Other(owned) == [owned |-> owned, tick |-> {"nothing", "poll", "disconnect"},
                 recv |-> AnyRecv, reconnects |-> BOOLEAN]

ThreeApps == {Polling, Other(TRUE), Other(FALSE)}
=============================================================================
