---------------------------- MODULE QueueProofs -----------------------------
(***************************************************************************)
(* The order in which the server gets to a client's connections: those the *)
(* client has given up come before its present one.  So nothing of an      *)
(* earlier connection is left once the present one has been answered.      *)
(***************************************************************************)
EXTENDS ControlPlaneProofs

\* A connection that the server has not closed is served or queued.
Placed ==
  \A i \in Conns : conn[i].srvOpen => i = cur \/ \E k \in DOMAIN backlog : backlog[k] = i

\* Nothing was answered yet on a queued connection.
Unanswered == \A k \in DOMAIN backlog : conn[backlog[k]].s2c = <<>>

\* While another connection of the client is served or queued, its present one
\* is queued, and behind it.
Newest(c) ==
  \A i \in Conns \ {sess[c]} : conn[i].cl = c /\ conn[i].srvOpen =>
    \E k \in DOMAIN backlog :
      backlog[k] = sess[c] /\ \A l \in DOMAIN backlog : backlog[l] = i => l < k

SessionLast == \A c \in Clients : sess[c] # None => Newest(c)

InQueue == Placed /\ Unanswered /\ SessionLast

\* Once a client was answered OK, nothing is left of its other connections.
Settled ==
  \A c \in Clients \ (late \cup split) : offered[c] # {} =>
    \A i \in Conns \ {sess[c]} : conn[i].cl = c => conn[i].c2s = <<>> /\ ~Handling(i)
-----------------------------------------------------------------------------
\* What a step of the server does to the lines a client has not read.
LEMMA ServerLines ==
  ASSUME TypeOK, Sessions, Server, NEW i \in Conns, i # cur
  PROVE  conn'[i].s2c \in {conn[i].s2c, <<>>}
<1>s. conn[i] \in Slots
  BY DEF TypeOK
<1>1. CASE StopServer \/ CrashServer
  <2>1. conn'[i] = SrvClosed(conn[i])
    BY <1>1 DEF StopServer, CrashServer, ServerGone
  <2>. QED
    BY <2>1, <1>s, ClosedFields, FreshFields
<1>2. CASE ~(StopServer \/ CrashServer)
  <2>1. conn'[i] = conn[i]
    BY <1>2 DEF Server, ServerRun, Accept, ReadLine, EndSession, AttachOk, AttachFails, ListFound,
         ListNotFound, DetachOk, DetachFails, WriteReply, WriteFails, CtrlC, StartServer, TypeOK
  <2>. QED
    BY <2>1
<1>. QED
  BY <1>1, <1>2

\* A step of the server takes the head of the backlog, closes the session, is
\* the end of the process, or leaves the order of connections alone.
LEMMA ServerCases ==
  ASSUME TypeOK, Sessions, Server
  PROVE  \/ Accept
         \/ cur' = None /\ UNCHANGED backlog /\ cur \in Conns /\ ~conn'[cur].srvOpen
         \/ backlog' = <<>> /\ \A i \in Conns : ~conn'[i].srvOpen
         \/ UNCHANGED <<cur, backlog>>
<1>s. /\ spc \in Busy \cup {"read"} => cur \in Conns
      /\ \A i \in Conns : conn[i] \in Slots
  BY DEF TypeOK, Sessions, InScope, Busy
<1>1. CASE EndSession \/ WriteFails
  <2>1. CASE cur' = None /\ conn' = [conn EXCEPT ![cur] = SrvClosed(@)]
    <3>1. cur \in Conns /\ conn'[cur] = SrvClosed(conn[cur])
      BY <1>1, <2>1, <1>s DEF EndSession, WriteFails, Busy, TypeOK
    <3>. QED
      BY <1>1, <2>1, <3>1, <1>s, ClosedFields DEF EndSession, WriteFails
  <2>. QED
    BY <1>1, <2>1 DEF EndSession, WriteFails
<1>2. CASE StopServer \/ CrashServer
  BY <1>2, <1>s, ClosedFields DEF StopServer, CrashServer, ServerGone
<1>. QED
  BY <1>1, <1>2 DEF Server, ServerRun, ReadLine, AttachOk, AttachFails, ListFound,
         ListNotFound, DetachOk, DetachFails, WriteReply, CtrlC, StartServer

LEMMA ServerInQueue ==
  ASSUME TypeOK, Sessions, InQueue, Server PROVE InQueue'
<1>n. /\ None \notin Conns /\ backlog \in Seq(Conns)
      /\ \A k \in DOMAIN backlog : backlog[k] \in Conns
      /\ sess \in [Clients -> Conns \cup {None}]
  BY ControlPlaneAssumption DEF ControlPlaneAssumption, TypeOK
<1>a. sess' = sess
  BY DEF Server, ServerRun, Accept, ReadLine, EndSession, AttachOk, AttachFails, ListFound,
         ListNotFound, DetachOk, DetachFails, WriteReply, WriteFails, CtrlC, StopServer,
         CrashServer, ServerGone, StartServer, clientVars
<1>o. \A i \in Conns : conn'[i].srvOpen => conn[i].srvOpen /\ conn'[i].cl = conn[i].cl
  BY ServerSlots
<1>q. \A k \in DOMAIN backlog : backlog[k] # cur /\ conn'[backlog[k]].s2c = <<>>
  BY <1>n, ServerLines DEF Sessions, Queued, InQueue, Unanswered
<1>1. CASE Accept
  <2>1. /\ cur = None /\ cur' = backlog[1] /\ DOMAIN (backlog') = 1..(Len(backlog) - 1)
        /\ DOMAIN backlog = 1..Len(backlog) /\ 1 \in DOMAIN backlog
        /\ \A k \in DOMAIN (backlog') : backlog'[k] = backlog[k + 1] /\ k + 1 \in DOMAIN backlog
        /\ Len(backlog) \in Nat
    BY <1>1, <1>n DEF Accept, Sessions, InScope
  <2>2. \A k \in DOMAIN backlog : k = 1 \/ (k - 1 \in DOMAIN (backlog') /\ backlog[k] = backlog'[k - 1])
    BY <2>1
  <2>3. Placed'
    BY <1>o, <1>n, <2>1, <2>2 DEF Placed, InQueue
  <2>4. Unanswered'
    BY <1>q, <2>1 DEF Unanswered
  <2>5. ASSUME NEW c \in Clients, sess'[c] # None PROVE Newest(c)'
    <3>. SUFFICES ASSUME NEW i \in Conns \ {sess[c]}, conn'[i].cl = c, conn'[i].srvOpen
                  PROVE  \E k \in DOMAIN (backlog') : backlog'[k] = sess[c]
                           /\ \A l \in DOMAIN (backlog') : backlog'[l] = i => l < k
      BY <1>a DEF Newest
    <3>1. PICK k \in DOMAIN backlog : backlog[k] = sess[c]
                           /\ \A l \in DOMAIN backlog : backlog[l] = i => l < k
      BY <2>5, <1>a, <1>o DEF InQueue, SessionLast, Newest
    <3>2. \E l \in DOMAIN backlog : backlog[l] = i
      BY <1>o, <1>n, <2>1 DEF InQueue, Placed
    <3>3. k # 1
      BY <3>1, <3>2, <2>1
    <3>4. k - 1 \in DOMAIN (backlog') /\ backlog'[k - 1] = sess[c]
      BY <3>1, <3>3, <2>2
    <3>5. \A l \in DOMAIN (backlog') : backlog'[l] = i => l < k - 1
      BY <3>1, <2>1
    <3>. QED
      BY <3>4, <3>5
  <2>. QED
    BY <2>3, <2>4, <2>5 DEF InQueue, SessionLast
<1>2. CASE backlog' = <<>> /\ \A i \in Conns : ~conn'[i].srvOpen
  BY <1>2 DEF InQueue, Placed, Unanswered, SessionLast, Newest
<1>3. CASE cur' = None /\ UNCHANGED backlog /\ cur \in Conns /\ ~conn'[cur].srvOpen
  BY <1>3, <1>a, <1>o, <1>q DEF InQueue, Placed, Unanswered, SessionLast, Newest
<1>4. CASE UNCHANGED <<cur, backlog>>
  BY <1>4, <1>a, <1>o, <1>q DEF InQueue, Placed, Unanswered, SessionLast, Newest
<1>. QED
  BY <1>1, <1>2, <1>3, <1>4, ServerCases

LEMMA OthersInQueue ==
  ASSUME TypeOK, Sessions, InQueue, (\E c \in Clients : Client(c)) \/ Kernel PROVE InQueue'
<1>. USE DEF serverVars, usbipVars, targetVars, clientVars
<1>n. /\ None \notin Conns /\ backlog \in Seq(Conns)
      /\ \A k \in DOMAIN backlog : backlog[k] \in Conns
      /\ sess \in [Clients -> Conns \cup {None}]
      /\ \A i \in Conns : conn[i] \in Slots
  BY ControlPlaneAssumption DEF ControlPlaneAssumption, TypeOK
<1>k. ASSUME UNCHANGED <<cur, backlog>>, \A c \in Clients : sess'[c] \in {sess[c], None},
             \A i \in Conns : /\ conn'[i].srvOpen = conn[i].srvOpen
                              /\ conn[i].srvOpen => conn'[i].cl = conn[i].cl
                              /\ conn[i].s2c = <<>> => conn'[i].s2c = <<>>
      PROVE  InQueue'
  BY <1>k, <1>n DEF InQueue, Placed, Unanswered, SessionLast, Newest
<1>1. ASSUME NEW c \in Clients, Client(c) PROVE InQueue'
  <2>1. CASE Connect(c)
    <3>1. PICK i \in Conns :
            /\ conn[i] = FreeSlot /\ backlog' = Append(backlog, i)
            /\ sess' = [sess EXCEPT ![c] = i]
            /\ conn' = [j \in Conns |-> IF j = i THEN OpenConn(c)
                                        ELSE IF j = sess[c] THEN CliClosed(conn[j])
                                        ELSE conn[j]]
      BY <2>1 DEF Connect
    <3>2. /\ conn'[i].cl = c /\ conn'[i].s2c = <<>> /\ ~conn[i].srvOpen
          /\ \A j \in Conns \ {i} : /\ conn'[j].srvOpen = conn[j].srvOpen
                                    /\ conn[j].srvOpen => conn'[j].cl = conn[j].cl
                                    /\ conn[j].s2c = <<>> => conn'[j].s2c = <<>>
      BY <3>1, <1>n, ClosedFields, FreshFields
    <3>3. /\ DOMAIN (backlog') = 1..(Len(backlog) + 1) /\ backlog'[Len(backlog) + 1] = i
          /\ DOMAIN backlog = 1..Len(backlog) /\ Len(backlog) \in Nat
          /\ \A k \in DOMAIN backlog : backlog'[k] = backlog[k] /\ backlog[k] # i
      BY <3>1, <3>2, <1>n DEF Sessions, Queued
    <3>4. cur' = cur
      BY <2>1 DEF Connect
    <3>5. Placed'
      BY <3>2, <3>3, <3>4 DEF InQueue, Placed
    <3>6. Unanswered'
      <4>. SUFFICES ASSUME NEW k \in DOMAIN (backlog') PROVE conn'[backlog'[k]].s2c = <<>>
        BY DEF Unanswered
      <4>1. k = Len(backlog) + 1 \/ k \in DOMAIN backlog
        BY <3>3
      <4>. QED
        BY <4>1, <3>2, <3>3, <1>n DEF InQueue, Unanswered
    <3>7. ASSUME NEW d \in Clients, sess'[d] # None PROVE Newest(d)'
      <4>. SUFFICES ASSUME NEW j \in Conns \ {sess'[d]}, conn'[j].cl = d, conn'[j].srvOpen
                    PROVE  \E k \in DOMAIN (backlog') : backlog'[k] = sess'[d]
                             /\ \A l \in DOMAIN (backlog') : backlog'[l] = j => l < k
        BY DEF Newest
      <4>1. CASE d = c
        <5>1. sess'[d] = i
          BY <4>1, <3>1, <1>n
        <5>2. \A l \in DOMAIN (backlog') : backlog'[l] = j => l < Len(backlog) + 1
          BY <5>1, <3>3
        <5>. QED
          BY <5>1, <5>2, <3>3
      <4>2. CASE d # c
        <5>1. sess'[d] = sess[d] /\ j # i
          BY <4>2, <3>1, <3>2, <1>n
        <5>2. conn[j].cl = d /\ conn[j].srvOpen
          BY <5>1, <3>2
        <5>3. PICK k \in DOMAIN backlog : backlog[k] = sess[d]
                               /\ \A l \in DOMAIN backlog : backlog[l] = j => l < k
          BY <5>1, <5>2, <3>7 DEF InQueue, SessionLast, Newest
        <5>4. k \in DOMAIN (backlog') /\ backlog'[k] = sess[d]
          BY <5>3, <3>3
        <5>5. \A l \in DOMAIN (backlog') : backlog'[l] = j => l < k
          BY <5>1, <5>3, <3>3
        <5>. QED
          BY <5>1, <5>4, <5>5
      <4>. QED
        BY <4>1, <4>2
    <3>. QED
      BY <3>5, <3>6, <3>7 DEF InQueue, SessionLast
  <2>2. CASE Disconnect(c) \/ Exit(c)
    <3>1. \A d \in Clients : sess'[d] \in {sess[d], None}
      BY <2>2, <1>n DEF Disconnect, Exit
    <3>2. \A i \in Conns : conn'[i] \in {conn[i], CliClosed(conn[i])}
      BY <2>2, <1>n DEF Disconnect, Exit, TypeOK
    <3>. QED
      BY <3>1, <3>2, <2>2, <1>n, <1>k, ClosedFields DEF Disconnect, Exit
  <2>3. CASE \E m \in Msgs : Send(c, m)
    <3>1. \A i \in Conns : /\ conn'[i].srvOpen = conn[i].srvOpen /\ conn'[i].cl = conn[i].cl
                           /\ conn'[i].s2c = conn[i].s2c
      BY <2>3, <1>n DEF Send, Slots, TypeOK
    <3>. QED
      BY <3>1, <2>3, <1>k DEF Send
  <2>4. CASE Receive(c)
    <3>1. \A i \in Conns : /\ conn'[i].srvOpen = conn[i].srvOpen /\ conn'[i].cl = conn[i].cl
                           /\ conn[i].s2c = <<>> => conn'[i].s2c = <<>>
      BY <2>4, <1>n DEF Receive, Slots, TypeOK
    <3>. QED
      BY <3>1, <2>4, <1>k DEF Receive
  <2>5. CASE Closed(c) \/ Timeout(c) \/ \E gone \in SUBSET Busids : Forget(c, gone)
    BY <2>5, <1>k DEF Closed, Timeout, Forget
  <2>. QED
    BY <1>1, <2>1, <2>2, <2>3, <2>4, <2>5 DEF Client
<1>2. CASE Kernel
  BY <1>2, <1>k DEF Kernel, LinkDown, Show, ChildAttach, ChildDetach
<1>. QED
  BY <1>1, <1>2

LEMMA NextInQueue ==
  ASSUME TypeOK, Sessions, InQueue, [Next]_vars PROVE InQueue'
<1>1. CASE UNCHANGED vars
  BY <1>1 DEF vars, serverVars, targetVars, clientVars, InQueue, Placed, Unanswered, SessionLast, Newest
<1>. QED
  BY <1>1, ServerInQueue, OthersInQueue DEF Next

\* The server gets to the connections of each client in the order in which the
\* client opened them, its present session last.
THEOREM SessionsInOrder == Spec => []InQueue
<1>1. Init => InQueue
  BY FreshFields DEF Init, InQueue, Placed, Unanswered, SessionLast
<1>2. TypeOK /\ Sessions /\ InQueue /\ [Next]_vars => InQueue'
  BY NextInQueue
<1>. QED
  BY <1>1, <1>2, SessionsCorrect, PTL DEF Spec

-----------------------------------------------------------------------------
\* A request that the server takes up on a connection of a settled client was
\* sent on its present session.
LEMMA ServerSettled ==
  ASSUME TypeOK, Sessions, Settled, Server PROVE Settled'
<1>. USE DEF clientVars, usbipVars, targetVars
<1>a. UNCHANGED <<sess, offered, late>> /\ split \subseteq split'
  BY DEF Server, ServerRun, Accept, ReadLine, EndSession, AttachOk, AttachFails, ListFound,
         ListNotFound, DetachOk, DetachFails, WriteReply, WriteFails, CtrlC, StopServer,
         CrashServer, ServerGone, StartServer
<1>. SUFFICES ASSUME NEW c \in Clients \ (late' \cup split'), offered[c] # {},
                     NEW i \in Conns \ {sess[c]}, conn'[i].cl = c
              PROVE  conn'[i].c2s = <<>> /\ ~Handling(i)'
  BY <1>a DEF Settled
<1>n. /\ \A j \in Conns : conn[j] \in Slots
      /\ None \notin Conns /\ None \notin Clients
      /\ spc \in Busy \cup {"read"} => cur \in Conns /\ conn[cur].srvOpen
  BY ControlPlaneAssumption
  DEF TypeOK, ControlPlaneAssumption, Sessions, InScope, Queued, Busy
<1>1. conn'[i].cliOpen \/ conn'[i].srvOpen
  <2>1. conn'[i] # FreeSlot
    BY <1>n, FreshFields
  <2>. QED
    BY <2>1, ServerSlots DEF EndsAt
<1>2. conn[i].cl = c /\ conn[i].c2s = <<>> /\ ~Handling(i)
  BY <1>1, <1>a, ServerSlots DEF Settled
<1>3. conn'[i].c2s = <<>>
  BY <1>2, ServerSlots
<1>4. ~Handling(i)'
  <2>. SUFFICES ASSUME cur' = i, msg' # None PROVE FALSE
    BY DEF Handling
  <2>1. CASE ReadLine
    BY <1>2, <2>1 DEF ReadLine
  <2>2. CASE ~ReadLine
    <3>1. msg' = msg /\ cur' = cur
      BY <2>2
      DEF Server, ServerRun, Accept, EndSession, AttachOk, AttachFails, ListFound,
          ListNotFound, DetachOk, DetachFails, WriteReply, WriteFails, CtrlC, StopServer,
          CrashServer, ServerGone, StartServer, Sessions, InScope, Busy
    <3>. QED
      BY <3>1, <1>2 DEF Handling
  <2>. QED
    BY <2>1, <2>2
<1>. QED
  BY <1>3, <1>4

\* Only the connections of a client whose end is open get new requests.
LEMMA ClientSettled ==
  ASSUME TypeOK, Sessions, InQueue, InStep, Settled, NEW d \in Clients, Client(d)
  PROVE  Settled'
<1>. USE DEF serverVars, usbipVars, targetVars
<1>n. /\ sess \in [Clients -> Conns \cup {None}] /\ wait \in [Clients -> Msgs \cup {None}]
      /\ None \notin Conns /\ None \notin Clients
      /\ backlog \in Seq(Conns)
      /\ offered \in [Clients -> SUBSET Busids]
      /\ \A j \in Conns : conn[j] \in Slots
      /\ \A c \in Clients : sess[c] # None => conn[sess[c]].cl = c
      /\ cur # None => conn[cur].srvOpen
  BY ControlPlaneAssumption DEF TypeOK, ControlPlaneAssumption, Sessions, Held, Queued
<1>m. UNCHANGED <<cur, msg>>
  BY DEF Client, Connect, Disconnect, Send, Receive, Closed, Timeout, Forget, Exit
<1>. SUFFICES ASSUME NEW c \in Clients \ (late' \cup split'), offered'[c] # {},
                     NEW i \in Conns \ {sess'[c]}, conn'[i].cl = c
              PROVE  conn'[i].c2s = <<>> /\ ~Handling(i)
  BY <1>m DEF Settled, Handling
<1>g. ASSUME c \notin late \cup split, offered[c] # {}, i # sess[c], conn[i].cl = c
      PROVE  conn[i].c2s = <<>> /\ ~Handling(i)
  BY <1>g DEF Settled
<1>q. ASSUME c \notin late \cup split, wait[c] = None, i = sess[c]
      PROVE  conn[i].c2s = <<>> /\ ~Handling(i)
  BY <1>q, <1>n DEF InStep, InStepOn, Quiet
<1>c. ASSUME conn'[i] \in {conn[i], CliClosed(conn[i])} PROVE conn[i].cl = c /\ conn'[i].c2s \in {conn[i].c2s, <<>>}
  BY <1>c, <1>n, ClosedFields, FreshFields
<1>1. CASE Connect(d)
  <2>1. PICK j \in Conns :
          /\ conn[j] = FreeSlot /\ sess' = [sess EXCEPT ![d] = j]
          /\ conn' = [k \in Conns |-> IF k = j THEN OpenConn(d)
                                      ELSE IF k = sess[d] THEN CliClosed(conn[k])
                                      ELSE conn[k]]
    BY <1>1 DEF Connect
  <2>2. UNCHANGED <<offered, late, split>> /\ wait[d] = None
    BY <1>1 DEF Connect
  <2>3. i # j
    BY <2>1, <1>n, FreshFields
  <2>4. conn[i].cl = c /\ conn'[i].c2s \in {conn[i].c2s, <<>>}
    BY <2>1, <2>3, <1>c
  <2>5. i = sess[c] => c = d
    BY <2>1, <2>3, <1>n
  <2>. QED
    BY <2>2, <2>4, <2>5, <1>g, <1>q
<1>2. CASE Disconnect(d)
  <2>1. conn'[i] \in {conn[i], CliClosed(conn[i])} /\ UNCHANGED <<offered, late, split>> /\ wait[d] = None
    BY <1>2, <1>n DEF Disconnect, TypeOK
  <2>2. i = sess[c] => c = d
    BY <1>2, <1>n DEF Disconnect
  <2>. QED
    BY <2>1, <2>2, <1>c, <1>g, <1>q
<1>3. CASE \E m \in Msgs : Send(d, m)
  <2>1. UNCHANGED <<offered, late, split, sess>> /\ sess[d] # None
    BY <1>3 DEF Send
  <2>2. conn[i].cl = c /\ (i # sess[d] => conn'[i] = conn[i])
    BY <1>3, <1>n DEF Send, Slots, TypeOK
  <2>3. i # sess[d]
    BY <2>1, <2>2, <1>n
  <2>. QED
    BY <2>1, <2>2, <2>3, <1>g
<1>4. CASE Receive(d)
  <2>1. UNCHANGED <<late, split, sess>> /\ wait[d] # None /\ sess[d] # None
    BY <1>4 DEF Receive, Sessions, Held
  <2>2. conn[i].cl = c /\ conn'[i].c2s = conn[i].c2s
    BY <1>4, <1>n DEF Receive, Slots, TypeOK
  <2>3. CASE c = d
    <3>1. /\ sess[c] \in Conns /\ conn[sess[c]].s2c # <<>>
      BY <2>1, <2>3, <1>4, <1>n DEF Receive
    <3>2. ~conn[i].srvOpen
      <4>. SUFFICES ASSUME conn[i].srvOpen PROVE FALSE
        OBVIOUS
      <4>1. PICK k \in DOMAIN backlog : backlog[k] = sess[c]
        BY <2>1, <2>2, <2>3 DEF InQueue, SessionLast, Newest
      <4>. QED
        BY <3>1, <4>1 DEF InQueue, Unanswered
    <3>. QED
      BY <2>2, <3>2, <1>n DEF Sessions, Ends, Handling
  <2>4. CASE c # d
    BY <2>1, <2>2, <2>4, <1>4, <1>n, <1>g DEF Receive
  <2>. QED
    BY <2>3, <2>4
<1>5. CASE Closed(d) \/ Timeout(d)
  BY <1>5, <1>g DEF Closed, Timeout
<1>6. CASE \E gone \in SUBSET Busids : Forget(d, gone)
  <2>1. offered[c] # {} /\ UNCHANGED <<conn, sess, late, split>>
    BY <1>6, <1>n DEF Forget
  <2>. QED
    BY <2>1, <1>g
<1>7. CASE Exit(d)
  <2>1. c # d /\ offered[c] # {} /\ c \notin late \cup split /\ i # sess[c]
    BY <1>7, <1>n DEF Exit
  <2>2. conn'[i] \in {conn[i], CliClosed(conn[i])}
    BY <1>7 DEF Exit
  <2>. QED
    BY <2>1, <2>2, <1>c, <1>g
<1>. QED
  BY <1>1, <1>2, <1>3, <1>4, <1>5, <1>6, <1>7 DEF Client

LEMMA NextSettled ==
  ASSUME TypeOK, Sessions, InQueue, InStep, Settled, [Next]_vars PROVE Settled'
<1>1. CASE Kernel \/ UNCHANGED vars
  BY <1>1 DEF Kernel, LinkDown, Show, ChildAttach, ChildDetach, vars, serverVars, targetVars, clientVars, Settled, Handling
<1>. QED
  BY <1>1, ServerSettled, ClientSettled DEF Next

\* A client that was answered OK has nothing under way but on its present
\* session, unless a request timed out or an error had several lines.
THEOREM StaysSettled == Spec => []Settled
<1>1. Init => Settled
  BY DEF Init, Settled
<1>2. TypeOK /\ Sessions /\ InQueue /\ InStep /\ Settled /\ [Next]_vars => Settled'
  BY NextSettled
<1>. QED
  BY <1>1, <1>2, SessionsCorrect, SessionsInOrder, StaysInStep, PTL DEF Spec
=============================================================================
