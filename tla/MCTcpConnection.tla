-------------------------- MODULE MCTcpConnection --------------------------
(* Model values for TcpConnection.                                         *)
EXTENDS TcpConnection

\* The client program: its timer polls the connection, nothing else acts.
ClientTick == {"poll"}
ClientConn == {"nothing"}
ClientRecv == {"nothing"}
ClientReconnects == {"no"}

\* Any application.
AnyTick == {"nothing", "send", "connect", "disconnect"}
AnyConn == {"nothing", "send"}
AnyRecv == {"nothing", "send", "disconnect"}
AnyReconnects == {"no", "syn", "refused"}
=============================================================================
