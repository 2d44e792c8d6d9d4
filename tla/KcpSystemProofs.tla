-------------------------- MODULE KcpSystemProofs --------------------------
(***************************************************************************)
(* NoCrossTalk and Partners of KcpSystem for every set of clients, any     *)
(* number of receives of the acceptor and any bounds.                      *)
(*                                                                         *)
(* Numbers: until the server is restarted or has made as many sessions as  *)
(* there are numbers, get_conv finds the next number free and a            *)
(* conversation number is that of its session, wherever it is written      *)
(* down.  Pairing: as long as nothing has spoiled a client's port, the     *)
(* port has one session at most, which is open and not deaf; the hello is  *)
(* gone when there is one; and whatever carries the number of a session    *)
(* carries that of this one, also when numbers are given again.            *)
(***************************************************************************)
EXTENDS KcpSystem, FiniteSetTheorems, WellFoundedInduction, TLAPS

Types ==
  /\ cl \in [Client -> [port : Nat, kcp : Nat, link : Nat]]
  /\ sessions \subseteq [id : Nat, port : Nat, conv : Nat, open : BOOLEAN, deaf : BOOLEAN]
  /\ ac \in [up : BOOLEAN, conv : Nat, done : Nat, remote : Nat]
  /\ ac.conv <= MaxConv
  /\ net \subseteq [port : Nat, up : BOOLEAN, conv : Nat, id : Nat]
  /\ ports \in Nat /\ ids \in Nat /\ restarts \in Nat
  /\ mixed \in BOOLEAN

\* A port that was not yet given to a client is known nowhere.
Fresh ==
  /\ ports > 0
  /\ \A c \in Client : cl[c].port < ports /\ (cl[c].port = 0 => cl[c].kcp = 0)
  /\ \A s \in sessions : s.port \in 1..ports - 1
  /\ \A m \in net : m.port \in 1..ports - 1
  /\ ac.done > 0 => ac.remote \in 1..ports - 1

\* Only a hello has conversation 0.
Hellos ==
  /\ \A m \in net : m.conv = 0 => m = Hello(m.port)
  /\ \A s \in sessions : s.conv # 0

Numbers ==
  restarts = 0 /\ ids <= MaxConv + 1 =>
    /\ ac.up => ac.conv + 1 = ids
    /\ \A s \in sessions : s.conv = s.id /\ s.id < ids
    /\ \A m \in net : m.conv = m.id
    /\ \A c \in Client : cl[c].kcp = cl[c].link
    /\ ~mixed

\* A client uses the port, and nothing has happened to it.
Live(p) == p \notin spoiled /\ \E c \in Client : cl[c].port = p

Known(p, i) == \E s \in sessions : s.port = p /\ s.id = i

PairedAt(p) ==
  /\ \A s \in sessions : s.port = p => s.open /\ ~s.deaf /\ Hello(p) \notin net
  /\ \A s, t \in sessions : s.port = p /\ t.port = p => s = t
  /\ ac.done > 0 /\ ac.remote = p => Hello(p) \notin net
  /\ \A m \in net : m.port = p /\ m # Hello(p) => Known(p, m.id)
  /\ \A c \in Client : cl[c].port = p /\ cl[c].kcp # 0 => Known(p, cl[c].link)

Pairing == \A p \in Nat \ {0} : Live(p) => PairedAt(p)

IInv == Types /\ Fresh /\ Hellos /\ Numbers /\ Pairing

-----------------------------------------------------------------------------

\* It holds before anybody connects.
LEMMA InitIInv == Init => IInv
<1> SUFFICES ASSUME Init PROVE IInv
  OBVIOUS
<1> USE DEF Init, NoSocket, Listening
<1>1. Types
  <2>1. cl \in [Client -> [port : Nat, kcp : Nat, link : Nat]]
    OBVIOUS
  <2>2. ac \in [up : BOOLEAN, conv : Nat, done : Nat, remote : Nat]
    OBVIOUS
  <2>3. ac.conv <= MaxConv
    BY KcpSystemConstants
  <2>4. QED
    BY <2>1, <2>2, <2>3 DEF Types
<1>2. Fresh /\ Hellos /\ Numbers
  BY DEF Fresh, Hellos, Numbers
<1>3. Pairing
  BY DEF Pairing, Live
<1>4. QED
  BY <1>1, <1>2, <1>3 DEF IInv

\* A delivery takes at most m from the network; a hello that stays there has
\* spoiled its port.
LEMMA TakenFacts ==
  ASSUME NEW m \in net, Taken(m)
  PROVE  /\ net' \subseteq net /\ spoiled \subseteq spoiled'
         /\ m.conv = 0 => m \notin net' \/ m.port \in spoiled'
BY DEF Taken, Fault

\* get_conv gives a free number: the next one, if that is free.
LEMMA ConvFacts ==
  ASSUME Types, Free # {}
  PROVE  /\ get_conv(ac.conv) \in Free
         /\ ac.conv + 1 \in Free => get_conv(ac.conv) = ac.conv + 1
<1> DEFINE n == ac.conv
           R == OpToRel(<, Nat)
           D == {Distance(n, k) : k \in Free}
<1>1. n \in Nat /\ MaxConv \in Nat /\ n <= MaxConv
  BY KcpSystemConstants DEF Types
<1>2. Free \subseteq 1..MaxConv
  BY DEF Free
<1>3. D \subseteq Nat /\ D # {}
  <2>1. \A k \in Free : Distance(n, k) \in Nat
    BY <1>1, <1>2 DEF Distance
  <2>2. QED
    BY <2>1
<1>4. \E x \in D : \A y \in D : ~(<<y, x>> \in R)
  <2> HIDE DEF D, R
  <2>1. IsWellFoundedOn(R, Nat)
    BY NatLessThanWellFounded DEF R
  <2>2. QED
    BY <1>3, <2>1, WFMin
<1>5. PICK x \in D : \A y \in D : ~(<<y, x>> \in R)
  BY <1>4
<1>6. \A y \in D : x <= y
  <2>1. \A i, j \in Nat : i < j => <<i, j>> \in R
    BY DEF OpToRel
  <2> HIDE DEF D, R
  <2> TAKE y \in D
  <2>2. x \in Nat /\ y \in Nat /\ ~(<<y, x>> \in R)
    BY <1>3, <1>5
  <2>3. ~(y < x)
    BY <2>1, <2>2
  <2>4. QED
    BY <2>2, <2>3
<1>7. PICK k \in Free : x = Distance(n, k)
  BY <1>5
<1>8. \A j \in Free : Distance(n, k) <= Distance(n, j)
  BY <1>6, <1>7
<1> DEFINE g == get_conv(n)
<1>9. g \in Free /\ \A j \in Free : Distance(n, g) <= Distance(n, j)
  <2> HIDE DEF D, R, n
  <2>1. QED
    BY <1>8 DEF get_conv
<1> HIDE DEF g, n, D, R
<1>10. ASSUME n + 1 \in Free PROVE g = n + 1
  <2>1. Distance(n, g) <= Distance(n, n + 1)
    BY <1>9, <1>10
  <2>2. g \in 1..MaxConv /\ n + 1 \in 1..MaxConv
    BY <1>2, <1>9, <1>10
  <2>3. g \in Nat /\ g >= 1 /\ n + 1 <= MaxConv
    BY <1>1, <2>2
  <2>4. Distance(n, n + 1) = 1
    BY <1>1 DEF Distance
  <2>5. QED
    BY <1>1, <2>1, <2>3, <2>4 DEF Distance
<1>11. QED
  BY <1>9, <1>10 DEF g, n

\* The handler of the acceptor refuses, or makes one session.
NewSession == [id |-> ids, port |-> ac.remote, conv |-> get_conv(ac.conv),
               open |-> TRUE, deaf |-> FALSE]

\* What its steps have in common.
LEMMA AcceptFacts ==
  ASSUME Types, RunAccept
  PROVE  /\ ac' \in [up : BOOLEAN, conv : Nat, done : Nat, remote : Nat]
         /\ ac'.conv <= MaxConv /\ ac'.up = ac.up /\ ac.done > 0
         /\ ac'.done > 0 => ac'.remote = ac.remote
         /\ \/ ac'.conv = ac.conv /\ UNCHANGED <<sessions, ids>>
            \/ /\ ac.up /\ ac'.conv = get_conv(ac.conv) /\ ids' = ids + 1
               /\ ~is_accepted(ac.remote) /\ Free # {}
               /\ sessions' = sessions \cup {NewSession}
         /\ UNCHANGED <<cl, net, ports, spoiled, restarts, mixed>>
<1> USE DEF Types
<1>1. ac.done > 0 /\ ac.done - 1 \in Nat /\ ac.up
  BY DEF RunAccept
<1>2. UNCHANGED <<cl, net, ports, spoiled, restarts, mixed>>
  BY DEF RunAccept
<1> DEFINE r == IF ac.done = 1 THEN 0 ELSE ac.remote
<1>3. /\ Handled(ac) = [up |-> ac.up, conv |-> ac.conv, done |-> ac.done - 1,
                        remote |-> r]
      /\ Handled(ac) \in [up : BOOLEAN, conv : Nat, done : Nat, remote : Nat]
  <2>1. r \in Nat
    OBVIOUS
  <2>2. Handled(ac) = [ac EXCEPT !.done = ac.done - 1, !.remote = r]
    BY DEF Handled
  <2> HIDE DEF r
  <2>3. QED
    BY <1>1, <2>1, <2>2
<1>4. Handled(ac).done > 0 => Handled(ac).remote = ac.remote
  BY <1>1, <1>3
<1>5. CASE Refuse \/ ConnectFails
  <2>1. ac' = Handled(ac) /\ UNCHANGED <<sessions, ids>>
    BY <1>5 DEF Refuse, ConnectFails
  <2>2. QED
    BY <1>1, <1>2, <1>3, <1>4, <2>1
<1>6. CASE Accept
  <2>1. /\ ac' = [Handled(ac) EXCEPT !.conv = get_conv(ac.conv)]
        /\ sessions' = sessions \cup {NewSession} /\ ids' = ids + 1
        /\ ~is_accepted(ac.remote) /\ Free # {}
    BY <1>6 DEF Accept, NewSession
  <2>2. get_conv(ac.conv) \in Nat /\ get_conv(ac.conv) <= MaxConv
    BY <2>1, ConvFacts, KcpSystemConstants DEF Free
  <2>3. ac' = [up |-> ac.up, conv |-> get_conv(ac.conv), done |-> ac.done - 1,
               remote |-> r]
    BY <1>3, <2>1
  <2>4. ac' \in [up : BOOLEAN, conv : Nat, done : Nat, remote : Nat]
    BY <1>1, <2>2, <2>3
  <2>5. /\ ac'.up = ac.up /\ ac'.conv = get_conv(ac.conv)
        /\ ac'.done > 0 => ac'.remote = ac.remote
    BY <1>1, <2>3
  <2>6. QED
    BY <1>1, <1>2, <2>1, <2>2, <2>4, <2>5
<1>7. QED
  BY <1>5, <1>6 DEF RunAccept

-----------------------------------------------------------------------------
(* The types and the ports                                                 *)

\* Every step keeps the types.
LEMMA StepTypes == ASSUME IInv, [Next]_vars PROVE Types'
<1> USE DEF IInv, Types, Fresh, NoSocket, Datagram, Hello, Listening
<1> USE KcpSystemConstants
<1>1. ASSUME NEW c \in Client, Connect(c) PROVE Types'
  <2>1. Hello(ports) \in [port : Nat, up : BOOLEAN, conv : Nat, id : Nat]
    OBVIOUS
  <2>2. [NoSocket EXCEPT !.port = ports] \in [port : Nat, kcp : Nat, link : Nat]
    OBVIOUS
  <2>3. cl' \in [Client -> [port : Nat, kcp : Nat, link : Nat]]
    BY <1>1, <2>2 DEF Connect
  <2>4. net' \subseteq [port : Nat, up : BOOLEAN, conv : Nat, id : Nat]
    BY <1>1, <2>1 DEF Connect
  <2>5. QED
    BY <1>1, <2>3, <2>4 DEF Connect
<1>2. ASSUME NEW c \in Client, Disconnect(c) PROVE Types'
  BY <1>2 DEF Disconnect
<1>3. ASSUME NEW c \in Client, ClientSends(c) PROVE Types'
  <2>1. Datagram(cl[c].port, TRUE, cl[c].kcp, cl[c].link)
          \in [port : Nat, up : BOOLEAN, conv : Nat, id : Nat]
    OBVIOUS
  <2>2. QED
    BY <1>3, <2>1 DEF ClientSends
<1>4. ASSUME NEW s \in sessions, SessionSends(s) PROVE Types'
  <2>1. Datagram(s.port, FALSE, s.conv, s.id)
          \in [port : Nat, up : BOOLEAN, conv : Nat, id : Nat]
    OBVIOUS
  <2>2. QED
    BY <1>4, <2>1 DEF SessionSends
<1>5. ASSUME NEW s \in sessions, SessionCloses(s) PROVE Types'
  BY <1>5 DEF SessionCloses, Becomes
<1>6. ASSUME NEW s \in sessions, SessionDestroyed(s) PROVE Types'
  BY <1>6 DEF SessionDestroyed
<1>7. ASSUME NEW m \in net, NEW c \in Client, ClientReceives(c, m) PROVE Types'
  BY <1>7, TakenFacts DEF ClientReceives, Input
<1>8. ASSUME NEW m \in net, NEW c \in Client, ServerUnreachable(c, m) PROVE Types'
  BY <1>8, TakenFacts DEF ServerUnreachable
<1>9. ASSUME NEW m \in net, AcceptorReceives(m) PROVE Types'
  <2>1. ac' = [up |-> ac.up, conv |-> ac.conv, done |-> ac.done + 1, remote |-> m.port]
    BY <1>9 DEF AcceptorReceives
  <2>2. ac' \in [up : BOOLEAN, conv : Nat, done : Nat, remote : Nat]
    BY <2>1
  <2>3. QED
    BY <1>9, <2>1, <2>2, TakenFacts DEF AcceptorReceives
<1>10. ASSUME NEW m \in net, NEW s \in sessions, SessionReceives(s, m) PROVE Types'
  <2>1. [s EXCEPT !.deaf = (m.conv = 0)]
          \in [id : Nat, port : Nat, conv : Nat, open : BOOLEAN, deaf : BOOLEAN]
    OBVIOUS
  <2>2. sessions' \subseteq
          [id : Nat, port : Nat, conv : Nat, open : BOOLEAN, deaf : BOOLEAN]
    BY <1>10, <2>1 DEF SessionReceives, Becomes
  <2>3. mixed' \in BOOLEAN
    BY <1>10 DEF SessionReceives
  <2>4. QED
    BY <1>10, <2>2, <2>3, TakenFacts DEF SessionReceives
<1>11. ASSUME NEW m \in net, NEW s \in sessions, ClientUnreachable(s, m) PROVE Types'
  BY <1>11, TakenFacts DEF ClientUnreachable, Becomes
<1>12. ASSUME NEW m \in net, Lost(m) PROVE Types'
  BY <1>12 DEF Lost
<1>13. CASE RunAccept
  <2>1. Free # {} => NewSession \in
          [id : Nat, port : Nat, conv : Nat, open : BOOLEAN, deaf : BOOLEAN]
    BY ConvFacts DEF NewSession, Free
  <2>2. sessions' \subseteq
          [id : Nat, port : Nat, conv : Nat, open : BOOLEAN, deaf : BOOLEAN]
    BY <1>13, <2>1, AcceptFacts
  <2>3. QED
    BY <1>13, <2>2, AcceptFacts
<1>14. CASE Crash
  BY <1>14 DEF Crash
<1>15. CASE Restart
  BY <1>15 DEF Restart
<1>16. CASE UNCHANGED vars
  BY <1>16 DEF vars
<1>17. QED
  BY <1>1, <1>2, <1>3, <1>4, <1>5, <1>6, <1>7, <1>8, <1>9, <1>10, <1>11, <1>12,
     <1>13, <1>14, <1>15, <1>16 DEF Next, Arrives

\* Every step keeps the ports apart: only connect() brings a new one into use.
LEMMA StepFresh == ASSUME IInv, [Next]_vars PROVE Fresh'
<1> USE DEF IInv, Types, Fresh, NoSocket, Datagram, Hello, Listening
<1>1. ASSUME NEW c \in Client, Connect(c) PROVE Fresh'
  BY <1>1 DEF Connect
<1>2. ASSUME NEW c \in Client, Disconnect(c) PROVE Fresh'
  BY <1>2 DEF Disconnect
<1>3. ASSUME NEW c \in Client, ClientSends(c) PROVE Fresh'
  BY <1>3 DEF ClientSends
<1>4. ASSUME NEW s \in sessions, SessionSends(s) PROVE Fresh'
  BY <1>4 DEF SessionSends
<1>5. ASSUME NEW s \in sessions, SessionCloses(s) PROVE Fresh'
  BY <1>5 DEF SessionCloses, Becomes
<1>6. ASSUME NEW s \in sessions, SessionDestroyed(s) PROVE Fresh'
  BY <1>6 DEF SessionDestroyed
<1>7. ASSUME NEW m \in net, NEW c \in Client, ClientReceives(c, m) PROVE Fresh'
  BY <1>7, TakenFacts DEF ClientReceives, Input
<1>8. ASSUME NEW m \in net, NEW c \in Client, ServerUnreachable(c, m) PROVE Fresh'
  BY <1>8, TakenFacts DEF ServerUnreachable
<1>9. ASSUME NEW m \in net, AcceptorReceives(m) PROVE Fresh'
  BY <1>9, TakenFacts DEF AcceptorReceives
<1>10. ASSUME NEW m \in net, NEW s \in sessions, SessionReceives(s, m) PROVE Fresh'
  BY <1>10, TakenFacts DEF SessionReceives, Becomes
<1>11. ASSUME NEW m \in net, NEW s \in sessions, ClientUnreachable(s, m) PROVE Fresh'
  BY <1>11, TakenFacts DEF ClientUnreachable, Becomes
<1>12. ASSUME NEW m \in net, Lost(m) PROVE Fresh'
  BY <1>12 DEF Lost
<1>13. CASE RunAccept
  BY <1>13, AcceptFacts DEF NewSession
<1>14. CASE Crash
  BY <1>14 DEF Crash
<1>15. CASE Restart
  BY <1>15 DEF Restart
<1>16. CASE UNCHANGED vars
  BY <1>16 DEF vars
<1>17. QED
  BY <1>1, <1>2, <1>3, <1>4, <1>5, <1>6, <1>7, <1>8, <1>9, <1>10, <1>11, <1>12,
     <1>13, <1>14, <1>15, <1>16 DEF Next, Arrives

-----------------------------------------------------------------------------
(* The numbers                                                             *)

\* No step but connect() sends conversation 0, and get_conv never gives it.
LEMMA StepHellos == ASSUME IInv, [Next]_vars PROVE Hellos'
<1> USE DEF IInv, Types, Hellos, Datagram, Hello
<1>1. ASSUME NEW c \in Client, Connect(c) PROVE Hellos'
  BY <1>1 DEF Connect
<1>2. ASSUME NEW c \in Client, Disconnect(c) PROVE Hellos'
  BY <1>2 DEF Disconnect
<1>3. ASSUME NEW c \in Client, ClientSends(c) PROVE Hellos'
  BY <1>3 DEF ClientSends
<1>4. ASSUME NEW s \in sessions, SessionSends(s) PROVE Hellos'
  BY <1>4 DEF SessionSends
<1>5. ASSUME NEW s \in sessions, SessionCloses(s) PROVE Hellos'
  BY <1>5 DEF SessionCloses, Becomes
<1>6. ASSUME NEW s \in sessions, SessionDestroyed(s) PROVE Hellos'
  BY <1>6 DEF SessionDestroyed
<1>7. ASSUME NEW m \in net, NEW c \in Client, ClientReceives(c, m) PROVE Hellos'
  BY <1>7, TakenFacts DEF ClientReceives
<1>8. ASSUME NEW m \in net, NEW c \in Client, ServerUnreachable(c, m) PROVE Hellos'
  BY <1>8, TakenFacts DEF ServerUnreachable
<1>9. ASSUME NEW m \in net, AcceptorReceives(m) PROVE Hellos'
  BY <1>9, TakenFacts DEF AcceptorReceives
<1>10. ASSUME NEW m \in net, NEW s \in sessions, SessionReceives(s, m) PROVE Hellos'
  BY <1>10, TakenFacts DEF SessionReceives, Becomes
<1>11. ASSUME NEW m \in net, NEW s \in sessions, ClientUnreachable(s, m) PROVE Hellos'
  BY <1>11, TakenFacts DEF ClientUnreachable, Becomes
<1>12. ASSUME NEW m \in net, Lost(m) PROVE Hellos'
  BY <1>12 DEF Lost
<1>13. CASE RunAccept
  <2>1. Free # {} => NewSession.conv # 0
    BY ConvFacts, KcpSystemConstants DEF NewSession, Free
  <2>2. QED
    BY <1>13, <2>1, AcceptFacts
<1>14. CASE Crash
  BY <1>14 DEF Crash
<1>15. CASE Restart
  BY <1>15 DEF Restart
<1>16. CASE UNCHANGED vars
  BY <1>16 DEF vars
<1>17. QED
  BY <1>1, <1>2, <1>3, <1>4, <1>5, <1>6, <1>7, <1>8, <1>9, <1>10, <1>11, <1>12,
     <1>13, <1>14, <1>15, <1>16 DEF Next, Arrives

\* Every step keeps numbers and sessions together: get_conv counts sessions
\* until it has given every number once.
LEMMA StepNumbers == ASSUME IInv, [Next]_vars PROVE Numbers'
<1> USE DEF IInv, Types, Numbers, NoSocket, Datagram, Hello, Listening
<1>1. ASSUME NEW c \in Client, Connect(c) PROVE Numbers'
  BY <1>1 DEF Connect
<1>2. ASSUME NEW c \in Client, Disconnect(c) PROVE Numbers'
  BY <1>2 DEF Disconnect
<1>3. ASSUME NEW c \in Client, ClientSends(c) PROVE Numbers'
  BY <1>3 DEF ClientSends
<1>4. ASSUME NEW s \in sessions, SessionSends(s) PROVE Numbers'
  BY <1>4 DEF SessionSends
<1>5. ASSUME NEW s \in sessions, SessionCloses(s) PROVE Numbers'
  BY <1>5 DEF SessionCloses, Becomes
<1>6. ASSUME NEW s \in sessions, SessionDestroyed(s) PROVE Numbers'
  BY <1>6 DEF SessionDestroyed
<1>7. ASSUME NEW m \in net, NEW c \in Client, ClientReceives(c, m) PROVE Numbers'
  BY <1>7, TakenFacts DEF ClientReceives, Input
<1>8. ASSUME NEW m \in net, NEW c \in Client, ServerUnreachable(c, m) PROVE Numbers'
  BY <1>8, TakenFacts DEF ServerUnreachable
<1>9. ASSUME NEW m \in net, AcceptorReceives(m) PROVE Numbers'
  BY <1>9, TakenFacts DEF AcceptorReceives
<1>10. ASSUME NEW m \in net, NEW s \in sessions, SessionReceives(s, m) PROVE Numbers'
  BY <1>10, TakenFacts DEF SessionReceives, Becomes
<1>11. ASSUME NEW m \in net, NEW s \in sessions, ClientUnreachable(s, m) PROVE Numbers'
  BY <1>11, TakenFacts DEF ClientUnreachable, Becomes
<1>12. ASSUME NEW m \in net, Lost(m) PROVE Numbers'
  BY <1>12 DEF Lost
<1>13. CASE RunAccept
  <2>1. CASE UNCHANGED <<sessions, ids>> /\ ac'.conv = ac.conv
    BY <1>13, <2>1, AcceptFacts
  <2>2. CASE /\ ac.up /\ ac'.conv = get_conv(ac.conv) /\ ids' = ids + 1
             /\ Free # {} /\ sessions' = sessions \cup {NewSession}
    <3>1. SUFFICES ASSUME restarts' = 0, ids' <= MaxConv + 1
                   PROVE  Numbers'
      OBVIOUS
    <3>2. restarts = 0 /\ ids <= MaxConv /\ ac.conv + 1 = ids
      <4>1. restarts = 0 /\ ids + 1 <= MaxConv + 1
        BY <1>13, <2>2, <3>1, AcceptFacts
      <4>2. ids <= MaxConv /\ ids <= MaxConv + 1
        BY <4>1, KcpSystemConstants
      <4>3. QED
        BY <2>2, <4>1, <4>2
    <3>3. ids \in Free
      BY <3>2, KcpSystemConstants DEF Free
    <3>4. get_conv(ac.conv) = ids
      BY <2>2, <3>2, <3>3, ConvFacts
    <3>5. NewSession.conv = ids /\ NewSession.id = ids
      BY <3>4 DEF NewSession
    <3>6. \A s \in sessions' : s.conv = s.id /\ s.id < ids'
      BY <2>2, <3>2, <3>5, KcpSystemConstants
    <3>7. ac'.conv + 1 = ids'
      BY <2>2, <3>4
    <3>8. QED
      BY <1>13, <3>2, <3>6, <3>7, AcceptFacts, KcpSystemConstants
  <2>3. QED
    BY <1>13, <2>1, <2>2, AcceptFacts
<1>14. CASE Crash
  BY <1>14 DEF Crash
<1>15. CASE Restart
  BY <1>15 DEF Restart
<1>16. CASE UNCHANGED vars
  BY <1>16 DEF vars
<1>17. QED
  BY <1>1, <1>2, <1>3, <1>4, <1>5, <1>6, <1>7, <1>8, <1>9, <1>10, <1>11, <1>12,
     <1>13, <1>14, <1>15, <1>16 DEF Next, Arrives

-----------------------------------------------------------------------------
(* The pairing                                                             *)

\* Hellos are told apart by their ports.
LEMMA HelloFacts ==
  ASSUME NEW p
  PROVE  Hello(p).port = p /\ Hello(p).conv = 0 /\ Hello(p).up
BY DEF Hello, Datagram

\* Whoever sees conversation 0 sees a hello.
LEMMA IsHello ==
  ASSUME IInv, NEW m \in net, m.conv = 0
  PROVE  m = Hello(m.port)
BY DEF IInv, Hellos

\* A step that makes no session and sends nothing keeps the pairing.
LEMMA NothingNew ==
  ASSUME IInv, NEW p \in Nat \ {0}, Live(p), sessions' = sessions, net' \subseteq net,
         ac'.done > 0 /\ ac'.remote = p => Hello(p) \notin net',
         \A c \in Client : cl'[c].port = p /\ cl'[c].kcp # 0 => Known(p, cl'[c].link)
  PROVE  PairedAt(p)'
BY DEF IInv, Pairing, PairedAt, Known, Hello, Datagram

\* So does one that only touches sessions of other ports.
LEMMA OtherPort ==
  ASSUME IInv, NEW p \in Nat \ {0}, Live(p),
         \A t : t.port = p => (t \in sessions' <=> t \in sessions),
         net' \subseteq net, cl' = cl, ac' = ac
  PROVE  PairedAt(p)'
<1>1. Hello(p)' = Hello(p)
  BY DEF Hello, Datagram
<1>2. QED
  BY <1>1 DEF IInv, Pairing, PairedAt, Known

\* Every step keeps the pairing of each live port.
LEMMA StepPairing == ASSUME IInv, [Next]_vars PROVE Pairing'
<1> SUFFICES ASSUME NEW p \in Nat \ {0}, Live(p)' PROVE PairedAt(p)'
  BY DEF Pairing
<1>1. ASSUME NEW c \in Client, Connect(c) PROVE PairedAt(p)'
  <2>1. CASE p = ports
    <3>1. sessions' = sessions /\ ac' = ac /\ net' = net \cup {Hello(p)}
      BY <1>1, <2>1 DEF Connect
    <3>2. \A s \in sessions : s.port # p
      BY <2>1 DEF IInv, Types, Fresh
    <3>3. \A m \in net : m.port # p
      BY <2>1 DEF IInv, Types, Fresh
    <3>4. \A d \in Client : cl'[d].port = p => cl'[d].kcp = 0
      BY <1>1, <2>1 DEF Connect, NoSocket, IInv, Types, Fresh
    <3>5. ~(ac.done > 0 /\ ac.remote = p)
      BY <2>1 DEF IInv, Types, Fresh
    <3>6. Hello(p)' = Hello(p)
      BY DEF Hello, Datagram
    <3>7. QED
      BY <3>1, <3>2, <3>3, <3>4, <3>5, <3>6 DEF PairedAt
  <2>2. CASE p # ports
    <3>1. sessions' = sessions /\ ac' = ac /\ net' = net \cup {Hello(ports)}
      BY <1>1 DEF Connect
    <3>2. \A d \in Client : cl'[d].port = p => cl'[d] = cl[d]
      BY <1>1, <2>2 DEF Connect, NoSocket, IInv, Types
    <3>3. Live(p)
      BY <1>1, <3>1, <3>2 DEF Live, Connect
    <3>4. Hello(ports).port # p /\ Hello(p).port = p
      BY <2>2, HelloFacts
    <3>5. Hello(p)' = Hello(p)
      BY DEF Hello, Datagram
    <3>6. QED
      BY <3>1, <3>2, <3>3, <3>4, <3>5 DEF IInv, Pairing, PairedAt, Known
  <2>3. QED
    BY <2>1, <2>2
<1>2. ASSUME NEW c \in Client, Disconnect(c) PROVE PairedAt(p)'
  <2>1. \A d \in Client : cl'[d].port = p => cl'[d] = cl[d]
    BY <1>2 DEF Disconnect, NoSocket, IInv, Types
  <2>2. Live(p)
    BY <1>2, <2>1 DEF Live, Disconnect
  <2>3. QED
    BY <1>2, <2>1, <2>2, NothingNew DEF Disconnect, IInv, Pairing, PairedAt
<1>3. ASSUME NEW c \in Client, ClientSends(c) PROVE PairedAt(p)'
  <2> DEFINE m == Datagram(cl[c].port, TRUE, cl[c].kcp, cl[c].link)
  <2>1. m.port = cl[c].port /\ m.conv # 0 /\ m.id = cl[c].link /\ cl[c].kcp # 0
    BY <1>3 DEF ClientSends, Datagram
  <2>2. Live(p)
    BY <1>3 DEF Live, ClientSends
  <2>3. net' = net \cup {m} /\ UNCHANGED <<cl, sessions, ac>>
    BY <1>3 DEF ClientSends
  <2>4. m # Hello(p) /\ Hello(p)' = Hello(p)
    BY <2>1, HelloFacts DEF Hello, Datagram
  <2> HIDE DEF m
  <2>5. QED
    BY <2>1, <2>2, <2>3, <2>4 DEF IInv, Pairing, PairedAt, Known
<1>4. ASSUME NEW s \in sessions, SessionSends(s) PROVE PairedAt(p)'
  <2> DEFINE m == Datagram(s.port, FALSE, s.conv, s.id)
  <2>1. m.port = s.port /\ ~m.up /\ m.id = s.id
    BY DEF Datagram
  <2>2. Live(p)
    BY <1>4 DEF Live, SessionSends
  <2>3. net' = net \cup {m} /\ UNCHANGED <<cl, sessions, ac>>
    BY <1>4 DEF SessionSends
  <2>4. m # Hello(p) /\ Hello(p)' = Hello(p)
    BY <2>1, HelloFacts DEF Hello, Datagram
  <2> HIDE DEF m
  <2>5. QED
    BY <2>1, <2>2, <2>3, <2>4 DEF IInv, Pairing, PairedAt, Known
<1>5. ASSUME NEW s \in sessions, SessionCloses(s) PROVE PairedAt(p)'
  <2>1. Live(p) /\ s.port # p
    BY <1>5 DEF Live, SessionCloses
  <2>2. /\ sessions' = (sessions \ {s}) \cup {[s EXCEPT !.open = FALSE]}
        /\ UNCHANGED <<cl, ac, net>>
    BY <1>5 DEF SessionCloses, Becomes
  <2>3. [s EXCEPT !.open = FALSE].port = s.port
    BY DEF IInv, Types
  <2>4. \A t : t.port = p => (t \in sessions' <=> t \in sessions)
    BY <2>1, <2>2, <2>3
  <2>5. QED
    BY <2>1, <2>2, <2>4, OtherPort
<1>6. ASSUME NEW s \in sessions, SessionDestroyed(s) PROVE PairedAt(p)'
  <2>1. Live(p)
    BY <1>6 DEF Live, SessionDestroyed
  <2>2. s.port # p
    BY <1>6, <2>1 DEF SessionDestroyed, IInv, Pairing, PairedAt
  <2>3. sessions' = sessions \ {s} /\ UNCHANGED <<cl, ac, net>>
    BY <1>6 DEF SessionDestroyed
  <2>4. \A t : t.port = p => (t \in sessions' <=> t \in sessions)
    BY <2>2, <2>3
  <2>5. QED
    BY <2>1, <2>3, <2>4, OtherPort
<1>7. ASSUME NEW m \in net, NEW c \in Client, ClientReceives(c, m) PROVE PairedAt(p)'
  <2>1. net' \subseteq net /\ spoiled \subseteq spoiled'
    BY <1>7, TakenFacts DEF ClientReceives
  <2>2. \A d \in Client : cl'[d].port = cl[d].port
    BY <1>7 DEF ClientReceives, Input, IInv, Types
  <2>3. Live(p)
    BY <1>7, <2>1, <2>2 DEF Live, ClientReceives
  <2>4. ASSUME NEW d \in Client, cl'[d].port = p, cl'[d].kcp # 0
        PROVE  Known(p, cl'[d].link)
    <3>1. CASE cl'[d] = cl[d]
      BY <2>3, <2>4, <3>1 DEF IInv, Pairing, PairedAt
    <3>2. CASE cl'[d] # cl[d]
      <4>1. d = c /\ cl'[d].link = m.id /\ m.port = p
        BY <1>7, <2>2, <2>4, <3>2 DEF ClientReceives, Input, IInv, Types
      <4>2. m # Hello(p)
        BY <1>7, HelloFacts DEF ClientReceives
      <4>3. QED
        BY <2>3, <4>1, <4>2 DEF IInv, Pairing, PairedAt
    <3>3. QED
      BY <3>1, <3>2
  <2>5. sessions' = sessions /\ ac' = ac
    BY <1>7 DEF ClientReceives
  <2>6. ac'.done > 0 /\ ac'.remote = p => Hello(p) \notin net'
    BY <2>1, <2>3, <2>5 DEF IInv, Pairing, PairedAt
  <2>7. QED
    BY <2>1, <2>3, <2>4, <2>5, <2>6, NothingNew
<1>8. ASSUME NEW m \in net, NEW c \in Client, ServerUnreachable(c, m) PROVE PairedAt(p)'
  <2>1. net' \subseteq net /\ spoiled \subseteq spoiled' /\ UNCHANGED <<sessions, ac>>
    BY <1>8, TakenFacts DEF ServerUnreachable
  <2>2. \A d \in Client : cl'[d].port = p => cl'[d] = cl[d]
    BY <1>8 DEF ServerUnreachable, NoSocket, IInv, Types
  <2>3. Live(p)
    BY <2>1, <2>2 DEF Live
  <2>4. QED
    BY <2>1, <2>2, <2>3, NothingNew DEF IInv, Pairing, PairedAt
<1>9. ASSUME NEW m \in net, AcceptorReceives(m) PROVE PairedAt(p)'
  <2>1. /\ net' \subseteq net /\ spoiled \subseteq spoiled'
        /\ m.conv = 0 => m \notin net' \/ m.port \in spoiled'
    BY <1>9, TakenFacts DEF AcceptorReceives
  <2>2. UNCHANGED <<cl, sessions>> /\ ac'.remote = m.port
    BY <1>9 DEF AcceptorReceives, IInv, Types
  <2>3. Live(p)
    BY <2>1, <2>2 DEF Live
  <2>4. ASSUME m.port = p PROVE Hello(p) \notin net'
    <3>1. \A s \in sessions : s.port # p
      BY <1>9, <2>3, <2>4 DEF AcceptorReceives, OpenFor, IInv, Pairing, PairedAt
    <3>2. m = Hello(p)
      BY <2>3, <2>4, <3>1 DEF IInv, Pairing, PairedAt, Known
    <3>3. QED
      BY <2>1, <2>4, <3>2, HelloFacts DEF Live
  <2>5. QED
    BY <2>1, <2>2, <2>3, <2>4, NothingNew DEF IInv, Pairing, PairedAt
<1>10. ASSUME NEW m \in net, NEW s \in sessions, SessionReceives(s, m) PROVE PairedAt(p)'
  <2>1. net' \subseteq net /\ spoiled \subseteq spoiled' /\ UNCHANGED <<cl, ac, restarts>>
    BY <1>10, TakenFacts DEF SessionReceives
  <2>2. Live(p)
    BY <2>1 DEF Live
  <2>3. sessions' = (sessions \ {s}) \cup {[s EXCEPT !.deaf = (m.conv = 0)]}
    BY <1>10 DEF SessionReceives, Becomes
  <2>4. CASE s.port # p
    <3>1. [s EXCEPT !.deaf = (m.conv = 0)].port = s.port
      BY DEF IInv, Types
    <3>2. \A t : t.port = p => (t \in sessions' <=> t \in sessions)
      BY <2>3, <2>4, <3>1
    <3>3. QED
      BY <2>1, <2>2, <3>2, OtherPort
  <2>5. CASE s.port = p
    <3>1. m.port = p /\ m.up /\ ~s.deaf
      BY <1>10, <2>5 DEF SessionReceives, OpenFor
    <3>2. m # Hello(p)
      BY <2>2, <2>5 DEF IInv, Pairing, PairedAt
    <3>3. m.conv # 0
      BY <3>1, <3>2, IsHello
    <3>4. [s EXCEPT !.deaf = (m.conv = 0)] = s
      BY <3>1, <3>3 DEF IInv, Types
    <3>5. sessions' = sessions
      BY <2>3, <3>4
    <3>6. QED
      BY <2>1, <2>2, <3>5, NothingNew DEF IInv, Pairing, PairedAt
  <2>6. QED
    BY <2>4, <2>5
<1>11. ASSUME NEW m \in net, NEW s \in sessions, ClientUnreachable(s, m) PROVE PairedAt(p)'
  <2>1. net' \subseteq net /\ spoiled \subseteq spoiled' /\ UNCHANGED <<cl, ac, restarts>>
    BY <1>11, TakenFacts DEF ClientUnreachable
  <2>2. Live(p)
    BY <2>1 DEF Live
  <2>3. s.port # p
    BY <1>11, <2>2 DEF ClientUnreachable, OpenFor, Live
  <2>4. sessions' = (sessions \ {s}) \cup {[s EXCEPT !.open = FALSE]}
    BY <1>11 DEF ClientUnreachable, Becomes
  <2>5. [s EXCEPT !.open = FALSE].port = s.port
    BY DEF IInv, Types
  <2>6. \A t : t.port = p => (t \in sessions' <=> t \in sessions)
    BY <2>3, <2>4, <2>5
  <2>7. QED
    BY <2>1, <2>2, <2>6, OtherPort
<1>12. ASSUME NEW m \in net, Lost(m) PROVE PairedAt(p)'
  <2>1. net' \subseteq net /\ UNCHANGED <<cl, sessions, ac, spoiled, restarts>>
    BY <1>12 DEF Lost
  <2>2. Live(p)
    BY <2>1 DEF Live
  <2>3. QED
    BY <2>1, <2>2, NothingNew DEF IInv, Pairing, PairedAt
<1>13. CASE RunAccept
  <2>1. /\ UNCHANGED <<cl, net, spoiled, restarts>>
        /\ ac.done > 0 /\ (ac'.done > 0 => ac'.remote = ac.remote)
    BY <1>13, AcceptFacts DEF IInv
  <2>2. Live(p)
    BY <2>1 DEF Live
  <2>3. CASE sessions' = sessions
    BY <2>1, <2>2, <2>3, NothingNew DEF IInv, Pairing, PairedAt
  <2>4. CASE ~is_accepted(ac.remote) /\ sessions' = sessions \cup {NewSession}
    <3>1. NewSession.port = ac.remote /\ NewSession.open /\ ~NewSession.deaf
      BY DEF NewSession
    <3>2. \A s \in sessions : s.port # ac.remote
      BY <2>4 DEF is_accepted
    <3>3. Hello(p)' = Hello(p)
      BY DEF Hello, Datagram
    <3>4. QED
      BY <2>1, <2>2, <2>4, <3>1, <3>2, <3>3 DEF IInv, Pairing, PairedAt, Known
  <2>5. QED
    BY <1>13, <2>3, <2>4, AcceptFacts DEF IInv
<1>14. CASE Crash
  <2>1. spoiled' = 1..(ports - 1) /\ cl' = cl
    BY <1>14 DEF Crash
  <2>2. QED
    BY <2>1 DEF Live, IInv, Types, Fresh
<1>15. CASE Restart
  <2>1. UNCHANGED <<cl, sessions, net, spoiled>> /\ ac'.done = 0
    BY <1>15 DEF Restart, Listening
  <2>2. Live(p)
    BY <2>1 DEF Live
  <2>3. QED
    BY <2>1, <2>2, NothingNew DEF IInv, Pairing, PairedAt
<1>16. CASE UNCHANGED vars
  <2>1. UNCHANGED <<cl, sessions, ac, net, spoiled, restarts>>
    BY <1>16 DEF vars
  <2>2. Live(p)
    BY <2>1 DEF Live
  <2>3. QED
    BY <2>1, <2>2, NothingNew DEF IInv, Pairing, PairedAt
<1>17. QED
  BY <1>1, <1>2, <1>3, <1>4, <1>5, <1>6, <1>7, <1>8, <1>9, <1>10, <1>11, <1>12,
     <1>13, <1>14, <1>15, <1>16 DEF Next, Arrives

-----------------------------------------------------------------------------

\* The invariant of the whole system, for every set of clients.
THEOREM Inductive == Spec => []IInv
<1>1. IInv /\ [Next]_vars => IInv'
  BY StepTypes, StepFresh, StepHellos, StepNumbers, StepPairing DEF IInv
<1>2. QED
  BY InitIInv, <1>1, PTL DEF Spec

\* ikcp_input takes no datagram of another session, whoever reconnects and
\* however datagrams are lost, repeated and delayed, before the server is
\* restarted or has made more sessions than there are conversation numbers:
\* whatever was skipped or given back, get_conv gives no number a second time
\* before it has given every one.
THEOREM NoCrossTalkHolds == Spec => []NoCrossTalk
<1>1. IInv => NoCrossTalk
  BY KcpSystemConstants DEF IInv, Types, Numbers, NoCrossTalk
<1>2. QED
  BY Inductive, <1>1, PTL

\* A client that has a conversation is heard by the session its number came
\* from, and by no other, unless the server crashed or disconnected it or its
\* hello was repeated: is_accepted keeps a second session from being made.  That
\* numbers are given again, after a restart or a wrap, does not matter.
THEOREM PartnersHolds == Spec => []Partners
<1>1. ASSUME IInv PROVE Partners
  <2> SUFFICES ASSUME NEW c \in Client, cl[c].kcp # 0, cl[c].port \notin spoiled
               PROVE  Talking(c) /\ Cardinality(OpenFor(cl[c].port)) = 1
    BY DEF Partners
  <2> DEFINE p == cl[c].port
  <2>1. p \in Nat \ {0} /\ Live(p)
    BY <1>1 DEF IInv, Types, Fresh, Live
  <2>2. PairedAt(p)
    BY <1>1, <2>1 DEF IInv, Pairing
  <2>3. PICK s \in sessions : s.port = p /\ s.id = cl[c].link
    BY <2>2 DEF PairedAt, Known
  <2>4. s.open /\ ~s.deaf
    BY <2>2, <2>3 DEF PairedAt
  <2>5. OpenFor(p) = {s}
    BY <2>2, <2>3, <2>4 DEF PairedAt, OpenFor
  <2>6. QED
    BY <2>3, <2>4, <2>5, FS_Singleton DEF Talking
<1>2. QED
  BY Inductive, <1>1, PTL
=============================================================================
