---------------------------- MODULE MCKcpSession ----------------------------
(* Model values for KcpSession.                                            *)
EXTENDS KcpSession

\* The client program: its on_time polls the connection, nothing else acts.
Client == [role |-> "client", owned |-> TRUE, tick |-> {"poll"},
           recv |-> {"nothing"}, reconnects |-> {FALSE}]

\* The server program answers and sends from a timer, and never disconnects.
Server == [role |-> "session", owned |-> FALSE, tick |-> {"nothing", "send"},
           recv |-> {"nothing", "send"}, reconnects |-> {FALSE}]

\* Any application that connects only when disconnected.
Any == [role |-> "client", owned |-> FALSE,
        tick |-> {"nothing", "poll", "disconnect"},
        recv |-> {"nothing", "send", "disconnect"}, reconnects |-> BOOLEAN]

ThreeApps == {Client, Server, Any}
=============================================================================
