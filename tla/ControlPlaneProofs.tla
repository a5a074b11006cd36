------------------------- MODULE ControlPlaneProofs -------------------------
(***************************************************************************)
(* Theorems about the control plane, for any number of clients, devices,   *)
(* ports and connections and for every bound.                              *)
(***************************************************************************)
EXTENDS ControlPlane, SequenceTheorems, TLAPS

LEMMA SingleLine ==
  ASSUME NEW S, NEW q \in Seq(S), q # <<>>
  PROVE  /\ Len(q) \in Nat \ {0}
         /\ ~(Len(q) > 1) => Len(q) = 1
         /\ Len(q) = 1 => Tail(q) = <<>>
<1>1. Len(q) \in Nat \ {0}
  BY EmptySeq
<1>2. ~(Len(q) > 1) => Len(q) = 1
  <2>1. \A n \in Nat \ {0} : ~(n > 1) => n = 1
    OBVIOUS
  <2>. QED
    BY <1>1, <2>1
<1>3. ASSUME Len(q) = 1 PROVE Tail(q) = <<>>
  <2>1. Tail(q) \in Seq(S) /\ Len(Tail(q)) = 0
    BY <1>3, HeadTailProperties
  <2>. QED
    BY <2>1, EmptySeq
<1>. QED
  BY <1>1, <1>2, <1>3

LEMMA SlotTypes ==
  /\ FreeSlot \in Slots
  /\ \A c \in Clients : OpenConn(c) \in Slots
  /\ \A r \in Slots : CliClosed(r) \in Slots /\ SrvClosed(r) \in Slots
<1>. DEFINE NoMsgs == <<>>
            NoLines == <<>>
<1>1. NoMsgs \in Seq(Msgs) /\ NoLines \in Seq(Lines)
  OBVIOUS
<1>2. FreeSlot \in Slots
  BY <1>1 DEF Slots, FreeSlot
<1>3. \A c \in Clients : OpenConn(c) \in Slots
  BY <1>1 DEF Slots, OpenConn
<1>4. ASSUME NEW r \in Slots PROVE CliClosed(r) \in Slots /\ SrvClosed(r) \in Slots
  <2>1. [r EXCEPT !.cliOpen = FALSE, !.s2c = <<>>] \in Slots
    BY <1>1 DEF Slots
  <2>2. [r EXCEPT !.srvOpen = FALSE, !.c2s = <<>>] \in Slots
    BY <1>1 DEF Slots
  <2>. QED
    BY <1>2, <2>1, <2>2 DEF CliClosed, SrvClosed
<1>. QED
  BY <1>2, <1>3, <1>4

\* What closing an end leaves of a connection, field by field.
LEMMA ClosedFields ==
  ASSUME NEW r \in Slots
  PROVE  /\ ~CliClosed(r).cliOpen /\ CliClosed(r).s2c = <<>>
         /\ CliClosed(r).srvOpen = r.srvOpen
         /\ r.srvOpen => CliClosed(r).cl = r.cl /\ CliClosed(r).c2s = r.c2s
         /\ ~r.srvOpen => CliClosed(r) = FreeSlot
         /\ ~SrvClosed(r).srvOpen /\ SrvClosed(r).c2s = <<>>
         /\ SrvClosed(r).cliOpen = r.cliOpen
         /\ r.cliOpen => SrvClosed(r).cl = r.cl /\ SrvClosed(r).s2c = r.s2c
         /\ ~r.cliOpen => SrvClosed(r) = FreeSlot
BY DEF CliClosed, SrvClosed, FreeSlot, Slots

LEMMA FreshFields ==
  /\ FreeSlot.c2s = <<>> /\ FreeSlot.s2c = <<>> /\ FreeSlot.cl = None
  /\ ~FreeSlot.cliOpen /\ ~FreeSlot.srvOpen
  /\ \A c \in Clients : /\ OpenConn(c).c2s = <<>> /\ OpenConn(c).s2c = <<>>
                       /\ OpenConn(c).cl = c
                       /\ OpenConn(c).cliOpen /\ OpenConn(c).srvOpen
BY DEF FreeSlot, OpenConn

LEMMA RequestTypes ==
  ASSUME NEW m \in Msgs
  PROVE  /\ m.type \in {"OFFER", "REVOKE", "PING", "BAD"}
         /\ m.type \in {"OFFER", "REVOKE"} => m.bus \in Busids
         /\ m # None
BY ControlPlaneAssumption DEF Msgs, ControlPlaneAssumption

LEMMA InitType == Init => TypeOK
<1>. SUFFICES ASSUME Init PROVE TypeOK
  OBVIOUS
<1>1. FreeSlot \in Slots
  BY SlotTypes
<1>2. backlog \in Seq(Conns) /\ reply \in Seq(Lines)
  <2>1. backlog = <<>> /\ reply = <<>>
    BY DEF Init
  <2>. QED
    BY <2>1
<1>3. spc = "accept" /\ conn \in [Conns -> Slots] /\ vhci \in [Ports -> Devices \cup {None}]
  BY <1>1 DEF Init
<1>4. /\ sess \in [Clients -> Conns \cup {None}] /\ wait \in [Clients -> Msgs \cup {None}]
      /\ offered \in [Clients -> SUBSET Busids]
  BY DEF Init
<1>5. child \in Commands \cup {None} /\ running \in BOOLEAN /\ refilled \in BOOLEAN
      /\ cur \in Conns \cup {None} /\ msg \in Msgs \cup {None} /\ target \in Ports \cup {None}
      /\ shown \subseteq Ports /\ granted \subseteq Devices
      /\ late \subseteq Clients /\ split \subseteq Clients
  BY DEF Init
<1>. QED
  BY <1>2, <1>3, <1>4, <1>5 DEF TypeOK

LEMMA ReplyTypes ==
  ASSUME NEW m \in Msgs
  PROVE  /\ <<>> \in Seq(Lines)
         /\ <<[kind |-> "OK", re |-> m]>> \in Seq(Lines)
         /\ <<[kind |-> "ERR", re |-> m]>> \in Seq(Lines)
<1>1. [kind |-> "OK", re |-> m] \in Lines /\ [kind |-> "ERR", re |-> m] \in Lines
  BY DEF Lines
<1>. QED
  BY <1>1

LEMMA ErrReplyType ==
  ASSUME msg \in Msgs, NEW k \in Nat
  PROVE  ErrReply(k) \in Seq(Lines) /\ ErrReply(k) # <<>>
<1>. DEFINE L(j) == [kind |-> IF j = 1 THEN "ERR" ELSE "TEXT", re |-> msg]
<1>1. \A j \in 1..(k + 1) : L(j) \in Lines
  BY DEF Lines
<1>2. ErrReply(k) = [j \in 1..(k + 1) |-> L(j)]
  BY DEF ErrReply
<1>. HIDE DEF L
<1>3. ErrReply(k) \in Seq(Lines) /\ Len(ErrReply(k)) = k + 1
  BY <1>1, <1>2
<1>. QED
  BY <1>3

-----------------------------------------------------------------------------
(***************************************************************************)
(* Types.  What a step of the server or a client may read is typed because *)
(* Sessions says that it is in scope there.                                *)
(***************************************************************************)
LEMMA ClientType ==
  ASSUME TypeOK, Sessions, NEW c \in Clients, Client(c) PROVE TypeOK'
<1>. USE DEF serverVars, usbipVars, targetVars
<1>s. sess[c] # None => sess[c] \in Conns /\ conn[sess[c]] \in Slots
  BY DEF TypeOK
<1>w. wait[c] # None => sess[c] # None /\ wait[c] \in Msgs
  BY DEF TypeOK, Sessions, Held
<1>t. \A i \in Conns : conn[i] \in Slots /\ CliClosed(conn[i]) \in Slots
  BY SlotTypes DEF TypeOK
<1>1. CASE Connect(c)
  BY <1>1, <1>t, SlotTypes DEF Connect, TypeOK
<1>2. CASE Disconnect(c)
  BY <1>2, <1>t DEF Disconnect, TypeOK
<1>3. CASE \E m \in Msgs : Send(c, m)
  <2>1. PICK m \in Msgs : Send(c, m)
    BY <1>3
  <2>2. sess[c] \in Conns /\ conn[sess[c]] \in Slots
    BY <2>1, <1>s DEF Send
  <2>3. Append(conn[sess[c]].c2s, m) \in Seq(Msgs)
    BY <2>2 DEF Slots
  <2>4. conn' \in [Conns -> Slots]
    BY <2>1, <2>2, <2>3 DEF Send, Slots, TypeOK
  <2>. QED
    BY <2>1, <2>4 DEF Send, TypeOK
<1>4. CASE Receive(c)
  <2>1. sess[c] \in Conns /\ conn[sess[c]] \in Slots
    BY <1>4, <1>s, <1>w DEF Receive
  <2>2. Tail(conn[sess[c]].s2c) \in Seq(Lines)
    BY <2>1, <1>4 DEF Receive, Slots
  <2>3. conn' \in [Conns -> Slots]
    BY <2>1, <2>2, <1>4 DEF Receive, Slots, TypeOK
  <2>4. offered' \in [Clients -> SUBSET Busids]
    BY <1>4, <1>w, RequestTypes DEF Receive, TypeOK
  <2>. QED
    BY <2>3, <2>4, <1>4 DEF Receive, TypeOK
<1>5. CASE Closed(c)
  BY <1>5 DEF Closed, TypeOK
<1>6. CASE Timeout(c)
  BY <1>6 DEF Timeout, TypeOK
<1>7. CASE \E gone \in SUBSET Busids : Forget(c, gone)
  BY <1>7 DEF Forget, TypeOK
<1>8. CASE Exit(c)
  BY <1>8, <1>t DEF Exit, TypeOK
<1>. QED
  BY <1>1, <1>2, <1>3, <1>4, <1>5, <1>6, <1>7, <1>8 DEF Client

LEMMA KernelType ==
  ASSUME TypeOK, Kernel PROVE TypeOK'
<1>. USE DEF serverVars, clientVars, usbipVars, targetVars
<1>1. ASSUME NEW p \in Ports, LinkDown(p) PROVE TypeOK'
  BY <1>1 DEF LinkDown, Release, TypeOK
<1>2. ASSUME NEW p \in Ports, Show(p) PROVE TypeOK'
  BY <1>2 DEF Show, TypeOK
<1>3. ASSUME NEW p \in Ports, ChildAttach(p) PROVE TypeOK'
  <2>1. child.dev \in Devices
    BY <1>3 DEF ChildAttach, TypeOK, Commands, AttachOf, DetachOf
  <2>. QED
    BY <1>3, <2>1 DEF ChildAttach, Import, TypeOK
<1>4. ASSUME NEW p \in Ports, ChildDetach(p) PROVE TypeOK'
  BY <1>4 DEF ChildDetach, Release, TypeOK
<1>. QED
  BY <1>1, <1>2, <1>3, <1>4 DEF Kernel

LEMMA ServerType ==
  ASSUME TypeOK, Sessions, Server PROVE TypeOK'
<1>. USE DEF clientVars, usbipVars, targetVars
<1>s. /\ spc \in Busy \cup {"read"} => cur \in Conns /\ conn[cur] \in Slots /\ conn[cur].cl \in Clients
      /\ spc \in Busy => msg \in Msgs
      /\ spc = "detach" => target \in Ports
  BY DEF TypeOK, Sessions, InScope, Queued, Ends, Busy
<1>t. /\ \A i \in Conns : CliClosed(conn[i]) \in Slots /\ SrvClosed(conn[i]) \in Slots
      /\ FreeSlot \in Slots
  BY SlotTypes DEF TypeOK
<1>o. msg \in Msgs => OkReply \in Seq(Lines)
  BY ReplyTypes DEF OkReply
<1>e. ASSUME msg \in Msgs, NEW k \in 0..MaxStderr PROVE ErrReply(k) \in Seq(Lines)
  BY <1>e, ErrReplyType, ControlPlaneAssumption DEF ControlPlaneAssumption
<1>d. spc = "attach" => Dev(conn[cur].cl, msg.bus) \in Devices
  BY <1>s DEF Sessions, InScope, Owned, Owns, Busy
<1>1. CASE Accept
  BY <1>1 DEF Accept, TypeOK
<1>2. CASE ReadLine
  <2>1. cur \in Conns /\ conn[cur] \in Slots
    BY <1>2, <1>s DEF ReadLine
  <2>2. Head(conn[cur].c2s) \in Msgs /\ Tail(conn[cur].c2s) \in Seq(Msgs)
    BY <2>1, <1>2 DEF ReadLine, Slots
  <2>3. conn' \in [Conns -> Slots]
    BY <2>1, <2>2, <1>2 DEF ReadLine, Slots, TypeOK
  <2>4. reply' \in Seq(Lines)
    BY <2>2, <1>2, ReplyTypes DEF ReadLine, Answer
  <2>5. spc' \in {"read", "attach", "list", "reply"} /\ msg' \in Msgs
    BY <2>2, <1>2 DEF ReadLine, Answer
  <2>. QED
    BY <2>3, <2>4, <2>5, <1>2 DEF ReadLine, TypeOK
<1>3. CASE EndSession
  BY <1>3, <1>s, <1>t DEF EndSession, TypeOK
<1>4. CASE AttachOk
  <2>1. /\ vhci' \in [Ports -> Devices \cup {None}] /\ shown' \subseteq Ports
        /\ granted' \subseteq Devices
    BY <1>4, <1>d DEF AttachOk, Import, TypeOK
  <2>. QED
    BY <2>1, <1>4, <1>s, <1>o DEF AttachOk, Answer, TypeOK, Busy
<1>5. CASE AttachFails
  BY <1>5, <1>s, <1>e DEF AttachFails, Answer, TypeOK, Busy
<1>6. CASE ListFound
  BY <1>6 DEF ListFound, InUse, TypeOK
<1>7. CASE ListNotFound
  BY <1>7, <1>s, <1>o DEF ListNotFound, Answer, TypeOK, Busy
<1>8. CASE DetachOk
  BY <1>8, <1>s, <1>o DEF DetachOk, Release, Answer, TypeOK, Busy
<1>9. CASE DetachFails
  BY <1>9, <1>s, <1>e DEF DetachFails, Answer, TypeOK, Busy
<1>10. CASE WriteReply
  <2>1. cur \in Conns /\ conn[cur] \in Slots /\ conn[cur].cl \in Clients
    BY <1>10, <1>s DEF WriteReply, Busy
  <2>2. conn[cur].s2c \in Seq(Lines) /\ conn[cur].s2c \o reply \in Seq(Lines)
    BY <2>1 DEF Slots, TypeOK
  <2>3. conn' \in [Conns -> Slots] /\ split' \subseteq Clients
    BY <2>1, <2>2, <1>10 DEF WriteReply, Slots, TypeOK
  <2>. QED
    BY <2>3, <1>10 DEF WriteReply, TypeOK
<1>11. CASE WriteFails
  BY <1>11, <1>s, <1>t DEF WriteFails, TypeOK, Busy
<1>12. CASE CtrlC
  BY <1>12 DEF CtrlC, TypeOK
<1>g. ASSUME ServerGone
      PROVE  /\ spc' = "stopped" /\ running' = FALSE /\ backlog' \in Seq(Conns)
             /\ cur' = None /\ msg' = None /\ target' = None /\ reply' \in Seq(Lines)
             /\ refilled' = FALSE
             /\ conn' \in [Conns -> Slots]
             /\ UNCHANGED <<clientVars, split>>
  BY <1>g, <1>t DEF ServerGone
<1>13. CASE StopServer
  BY <1>13, <1>g DEF StopServer, TypeOK
<1>14. CASE CrashServer
  <2>1. child' \in Commands \cup {None}
    <3>1. spc \in Orphans => spc \in {"attach", "detach"}
      BY ControlPlaneAssumption DEF ControlPlaneAssumption
    <3>. QED
      BY <3>1, <1>14, <1>s, <1>d DEF CrashServer, Commands, Busy, TypeOK
  <2>. QED
    BY <2>1, <1>14, <1>g DEF CrashServer, TypeOK
<1>15. CASE StartServer
  BY <1>15 DEF StartServer, TypeOK
<1>. QED
  BY <1>1, <1>2, <1>3, <1>4, <1>5, <1>6, <1>7, <1>8, <1>9, <1>10, <1>11, <1>12,
     <1>13, <1>14, <1>15 DEF Server, ServerRun
-----------------------------------------------------------------------------
LEMMA ServerInScope ==
  ASSUME TypeOK, Sessions, Server PROVE InScope'
<1>. USE DEF clientVars, usbipVars, targetVars, Busy
<1>s. /\ InScope
      /\ spc = "read" => cur \in Conns /\ conn[cur] \in Slots
      /\ spc \in Busy => msg \in Msgs
  BY DEF TypeOK, Sessions, InScope
<1>o. OkReply # <<>>
  BY DEF OkReply
<1>e. ASSUME msg \in Msgs, NEW k \in 0..MaxStderr PROVE ErrReply(k) # <<>>
  BY <1>e, ErrReplyType, ControlPlaneAssumption DEF ControlPlaneAssumption
<1>n. None \notin Conns /\ None \notin Ports /\ None \notin Msgs
  BY ControlPlaneAssumption DEF ControlPlaneAssumption
<1>1. CASE Accept
  <2>1. Head(backlog) \in Conns
    BY <1>1 DEF Accept, TypeOK
  <2>. QED
    BY <1>1, <1>s, <1>n, <2>1 DEF Accept, InScope
<1>2. CASE ReadLine
  <2>1. Head(conn[cur].c2s) \in Msgs
    BY <1>s, <1>2 DEF ReadLine, Slots
  <2>2. /\ msg' \in Msgs /\ UNCHANGED <<cur, target, backlog>>
        /\ \/ msg'.type = "OFFER" /\ spc' = "attach" /\ reply' = <<>>
           \/ msg'.type = "REVOKE" /\ spc' = "list" /\ reply' = <<>>
           \/ spc' = "reply" /\ reply' # <<>>
    BY <2>1, <1>2 DEF ReadLine, Answer
  <2>. QED
    BY <2>2, <1>2, <1>s, <1>n DEF ReadLine, InScope
<1>3. CASE EndSession
  BY <1>3, <1>s DEF EndSession, InScope
<1>4. CASE AttachOk
  BY <1>4, <1>s, <1>o DEF AttachOk, Answer, InScope
<1>5. CASE AttachFails
  BY <1>5, <1>s, <1>e DEF AttachFails, Answer, InScope
<1>6. CASE ListFound
  BY <1>6, <1>s, <1>n DEF ListFound, InUse, InScope, TypeOK
<1>7. CASE ListNotFound
  BY <1>7, <1>s, <1>o DEF ListNotFound, Answer, InScope
<1>8. CASE DetachOk
  BY <1>8, <1>s, <1>o DEF DetachOk, Answer, InScope
<1>9. CASE DetachFails
  BY <1>9, <1>s, <1>e DEF DetachFails, Answer, InScope
<1>10. CASE WriteReply
  BY <1>10, <1>s DEF WriteReply, InScope
<1>11. CASE WriteFails
  BY <1>11, <1>s DEF WriteFails, InScope
<1>12. CASE CtrlC
  BY <1>12, <1>s DEF CtrlC, InScope
<1>13. CASE StopServer
  BY <1>13 DEF StopServer, ServerGone, InScope
<1>14. CASE CrashServer
  BY <1>14 DEF CrashServer, ServerGone, InScope
<1>15. CASE StartServer
  BY <1>15, <1>s DEF StartServer, InScope
<1>. QED
  BY <1>1, <1>2, <1>3, <1>4, <1>5, <1>6, <1>7, <1>8, <1>9, <1>10, <1>11, <1>12,
     <1>13, <1>14, <1>15 DEF Server, ServerRun

LEMMA OthersInScope ==
  ASSUME TypeOK, Sessions, (\E c \in Clients : Client(c)) \/ Kernel PROVE InScope'
<1>1. UNCHANGED <<spc, cur, msg, reply, target>> /\ (spc = "stopped" => backlog' = backlog)
  BY DEF Client, Connect, Disconnect, Send, Receive, Closed, Timeout, Forget, Exit,
         Kernel, LinkDown, Show, ChildAttach, ChildDetach, serverVars, targetVars
<1>. QED
  BY <1>1 DEF Sessions, InScope, Busy

-----------------------------------------------------------------------------
LEMMA ServerQueued ==
  ASSUME TypeOK, Sessions, Server PROVE Queued'
<1>. USE DEF clientVars, usbipVars, targetVars
<1>s. /\ spc \in Busy \cup {"read"} => cur \in Conns /\ cur # None
      /\ \A i \in Conns : conn[i] \in Slots
      /\ Queued
  BY DEF TypeOK, Sessions, InScope, Busy
<1>n. /\ None \notin Conns /\ backlog \in Seq(Conns)
      /\ \A k \in DOMAIN backlog : backlog[k] \in Conns
  BY ControlPlaneAssumption DEF ControlPlaneAssumption, TypeOK
<1>c. ASSUME spc \in Busy \cup {"read"}, UNCHANGED backlog, cur' = None,
             conn' = [conn EXCEPT ![cur] = SrvClosed(@)]
      PROVE  Queued'
  <2>1. \A i \in Conns \ {cur} : conn'[i] = conn[i]
    BY <1>c, <1>s DEF TypeOK
  <2>. QED
    BY <2>1, <1>c, <1>s, <1>n DEF Queued
<1>u. ASSUME UNCHANGED <<cur, backlog>>, \A i \in Conns : conn'[i].srvOpen = conn[i].srvOpen
      PROVE  Queued'
  BY <1>u, <1>s, <1>n DEF Queued, TypeOK
<1>1. CASE Accept
  <2>1. /\ cur' = backlog[1] /\ DOMAIN (backlog') = 1..(Len(backlog) - 1)
        /\ \A k \in DOMAIN (backlog') : backlog'[k] = backlog[k + 1] /\ k + 1 \in DOMAIN backlog
        /\ 1 \in DOMAIN backlog /\ conn' = conn
    BY <1>1, <1>n DEF Accept
  <2>. QED
    BY <2>1, <1>s, <1>n DEF Queued
<1>2. CASE ReadLine
  <2>1. cur \in Conns /\ conn[cur] \in Slots
    BY <1>2, <1>s DEF ReadLine
  <2>2. \A i \in Conns : conn'[i].srvOpen = conn[i].srvOpen
    BY <2>1, <1>2, <1>s DEF ReadLine, Slots, TypeOK
  <2>. QED
    BY <2>2, <1>2, <1>u DEF ReadLine
<1>3. CASE EndSession
  BY <1>3, <1>c DEF EndSession
<1>4. CASE AttachOk \/ AttachFails \/ ListFound \/ ListNotFound \/ DetachOk \/ DetachFails
           \/ CtrlC \/ StartServer
  BY <1>4, <1>u DEF AttachOk, AttachFails, ListFound, ListNotFound, DetachOk, DetachFails,
                    CtrlC, StartServer
<1>5. CASE WriteReply
  <2>1. cur \in Conns /\ conn[cur] \in Slots
    BY <1>5, <1>s DEF WriteReply, Busy
  <2>2. \A i \in Conns : conn'[i].srvOpen = conn[i].srvOpen
    BY <2>1, <1>5, <1>s DEF WriteReply, Slots, TypeOK
  <2>. QED
    BY <2>2, <1>5, <1>u DEF WriteReply
<1>6. CASE WriteFails
  BY <1>6, <1>c, <1>u DEF WriteFails, Busy
<1>7. CASE StopServer \/ CrashServer
  BY <1>7 DEF StopServer, CrashServer, ServerGone, Queued
<1>. QED
  BY <1>1, <1>2, <1>3, <1>4, <1>5, <1>6, <1>7 DEF Server, ServerRun

LEMMA OthersQueued ==
  ASSUME TypeOK, Sessions, (\E c \in Clients : Client(c)) \/ Kernel PROVE Queued'
<1>. USE DEF serverVars, usbipVars, targetVars, clientVars
<1>s. /\ \A i \in Conns : conn[i] \in Slots
      /\ Queued
      /\ None \notin Conns /\ backlog \in Seq(Conns) /\ cur \in Conns \cup {None}
      /\ \A k \in DOMAIN backlog : backlog[k] \in Conns
  BY ControlPlaneAssumption DEF ControlPlaneAssumption, TypeOK, Sessions
<1>u. ASSUME UNCHANGED <<cur, backlog>>, \A i \in Conns : conn'[i].srvOpen = conn[i].srvOpen
      PROVE  Queued'
  BY <1>u, <1>s DEF Queued
<1>1. ASSUME NEW c \in Clients, Client(c) PROVE Queued'
  <2>1. CASE Connect(c)
    <3>1. PICK i \in Conns :
            /\ conn[i] = FreeSlot /\ backlog' = Append(backlog, i)
            /\ conn' = [j \in Conns |-> IF j = i THEN OpenConn(c)
                                        ELSE IF j = sess[c] THEN CliClosed(conn[j])
                                        ELSE conn[j]]
      BY <2>1 DEF Connect
    <3>2. conn'[i].srvOpen /\ \A j \in Conns \ {i} : conn'[j].srvOpen = conn[j].srvOpen
      BY <3>1, <1>s, ClosedFields, FreshFields
    <3>3. ~conn[i].srvOpen
      BY <3>1, FreshFields
    <3>4. /\ DOMAIN (backlog') = 1..(Len(backlog) + 1) /\ backlog'[Len(backlog) + 1] = i
          /\ DOMAIN backlog = 1..Len(backlog)
          /\ \A k \in DOMAIN backlog : backlog'[k] = backlog[k]
      BY <3>1, <1>s
    <3>5. cur' = cur
      BY <2>1 DEF Connect
    <3>. QED
      BY <3>2, <3>3, <3>4, <3>5, <1>s DEF Queued
  <2>2. CASE Disconnect(c)
    BY <2>2, <1>s, <1>u, ClosedFields DEF Disconnect, TypeOK
  <2>3. CASE \E m \in Msgs : Send(c, m)
    <3>1. \A i \in Conns : conn'[i].srvOpen = conn[i].srvOpen
      BY <2>3, <1>s DEF Send, Slots, TypeOK
    <3>. QED
      BY <3>1, <2>3, <1>u DEF Send
  <2>4. CASE Receive(c)
    <3>1. \A i \in Conns : conn'[i].srvOpen = conn[i].srvOpen
      BY <2>4, <1>s DEF Receive, Slots, TypeOK
    <3>. QED
      BY <3>1, <2>4, <1>u DEF Receive
  <2>5. CASE Closed(c) \/ Timeout(c) \/ \E gone \in SUBSET Busids : Forget(c, gone)
    BY <2>5, <1>u DEF Closed, Timeout, Forget
  <2>6. CASE Exit(c)
    BY <2>6, <1>s, <1>u, ClosedFields DEF Exit
  <2>. QED
    BY <1>1, <2>1, <2>2, <2>3, <2>4, <2>5, <2>6 DEF Client
<1>2. ASSUME Kernel PROVE Queued'
  BY <1>2, <1>u DEF Kernel, LinkDown, Show, ChildAttach, ChildDetach
<1>. QED
  BY <1>1, <1>2

-----------------------------------------------------------------------------
EndsAt(i) ==
  /\ conn[i].cliOpen \/ conn[i].srvOpen => conn[i].cl \in Clients
  /\ ~conn[i].cliOpen => conn[i].s2c = <<>>
  /\ ~conn[i].srvOpen => conn[i].c2s = <<>>
  /\ ~conn[i].cliOpen /\ ~conn[i].srvOpen => conn[i] = FreeSlot

\* What a step of the server does to a connection.
LEMMA ServerSlots ==
  ASSUME TypeOK, Sessions, Server, NEW i \in Conns
  PROVE  /\ conn'[i].cliOpen = conn[i].cliOpen
         /\ conn'[i].srvOpen => conn[i].srvOpen
         /\ conn'[i].cliOpen \/ conn'[i].srvOpen => conn'[i].cl = conn[i].cl
         /\ \/ conn'[i].c2s = conn[i].c2s
            \/ conn'[i].c2s = <<>>
            \/ conn[i].c2s # <<>> /\ conn'[i].c2s = Tail(conn[i].c2s)
         /\ EndsAt(i)'
<1>. USE DEF clientVars, usbipVars, targetVars
<1>s. /\ spc \in Busy \cup {"read"} => cur \in Conns /\ conn[cur].srvOpen
      /\ \A j \in Conns : conn[j] \in Slots /\ EndsAt(j)
  BY DEF TypeOK, Sessions, InScope, Queued, Busy, Ends, EndsAt
<1>. DEFINE Goal == /\ conn'[i].cliOpen = conn[i].cliOpen
                    /\ conn'[i].srvOpen => conn[i].srvOpen
                    /\ conn'[i].cliOpen \/ conn'[i].srvOpen => conn'[i].cl = conn[i].cl
                    /\ \/ conn'[i].c2s = conn[i].c2s
                       \/ conn'[i].c2s = <<>>
                       \/ conn[i].c2s # <<>> /\ conn'[i].c2s = Tail(conn[i].c2s)
                    /\ EndsAt(i)'
<1>u. ASSUME conn'[i] = conn[i] PROVE Goal
  BY <1>u, <1>s DEF EndsAt
<1>c. ASSUME conn'[i] = SrvClosed(conn[i]) PROVE Goal
  BY <1>c, <1>s, ClosedFields, FreshFields DEF EndsAt
<1>1. CASE ReadLine
  <2>1. CASE i = cur
    <3>1. conn'[i] = [conn[i] EXCEPT !.c2s = Tail(conn[i].c2s)]
      BY <1>1, <2>1 DEF ReadLine, TypeOK
    <3>2. /\ conn'[i].cl = conn[i].cl /\ conn'[i].s2c = conn[i].s2c
          /\ conn'[i].cliOpen = conn[i].cliOpen /\ conn'[i].srvOpen = conn[i].srvOpen
          /\ conn'[i].c2s = Tail(conn[i].c2s)
      BY <3>1, <1>s DEF Slots
    <3>. QED
      BY <3>2, <1>1, <2>1, <1>s DEF ReadLine, EndsAt
  <2>. QED
    BY <2>1, <1>1, <1>u DEF ReadLine, TypeOK
<1>2. CASE WriteReply
  <2>1. CASE i = cur
    <3>1. conn'[i] = [conn[i] EXCEPT !.s2c = IF conn[i].cliOpen THEN conn[i].s2c \o reply
                                             ELSE conn[i].s2c]
      BY <1>2, <2>1 DEF WriteReply, TypeOK
    <3>2. /\ conn'[i].cl = conn[i].cl /\ conn'[i].c2s = conn[i].c2s
          /\ conn'[i].cliOpen = conn[i].cliOpen /\ conn'[i].srvOpen = conn[i].srvOpen
          /\ ~conn[i].cliOpen => conn'[i].s2c = conn[i].s2c
      BY <3>1, <1>s DEF Slots
    <3>. QED
      BY <3>2, <1>2, <2>1, <1>s DEF WriteReply, EndsAt, Busy
  <2>. QED
    BY <2>1, <1>2, <1>u DEF WriteReply, TypeOK
<1>3. CASE EndSession \/ WriteFails
  BY <1>3, <1>u, <1>c DEF EndSession, WriteFails, TypeOK
<1>4. CASE StopServer \/ CrashServer
  BY <1>4, <1>c DEF StopServer, CrashServer, ServerGone
<1>5. CASE UNCHANGED conn
  BY <1>5, <1>u
<1>. QED
  BY <1>1, <1>2, <1>3, <1>4, <1>5
  DEF Server, ServerRun, Accept, AttachOk, AttachFails, ListFound, ListNotFound, DetachOk,
      DetachFails, CtrlC, StartServer

LEMMA ServerEndsHeld ==
  ASSUME TypeOK, Sessions, Server PROVE Ends' /\ Held'
<1>1. UNCHANGED <<sess, wait>>
  BY DEF Server, ServerRun, Accept, ReadLine, EndSession, AttachOk, AttachFails, ListFound,
         ListNotFound, DetachOk, DetachFails, WriteReply, WriteFails, CtrlC, StopServer,
         CrashServer, ServerGone, StartServer, clientVars
<1>2. Ends'
  BY ServerSlots DEF Ends, EndsAt
<1>3. sess \in [Clients -> Conns \cup {None}]
  BY DEF TypeOK
<1>. QED
  BY <1>1, <1>2, <1>3, ServerSlots DEF Held, Sessions

LEMMA TailElement ==
  ASSUME NEW S, NEW q \in Seq(S), q # <<>>, NEW k \in DOMAIN Tail(q)
  PROVE  k + 1 \in DOMAIN q /\ Tail(q)[k] = q[k + 1]
OBVIOUS

LEMMA ServerOwned ==
  ASSUME TypeOK, Sessions, Server PROVE Owned'
<1>. USE DEF clientVars, usbipVars, targetVars
<1>s. /\ spc \in Busy \cup {"read"} => cur \in Conns /\ conn[cur].srvOpen
      /\ \A j \in Conns : conn[j] \in Slots
      /\ Owned
  BY DEF TypeOK, Sessions, InScope, Queued, Busy
<1>1. ASSUME NEW i \in Conns, NEW k \in DOMAIN conn'[i].c2s
      PROVE  Owns(conn'[i].cl, conn'[i].c2s[k])
  <2>1. conn'[i].c2s # <<>>
    BY <1>1
  <2>2. /\ conn'[i].cl = conn[i].cl
        /\ \/ conn'[i].c2s = conn[i].c2s
           \/ conn[i].c2s # <<>> /\ conn'[i].c2s = Tail(conn[i].c2s)
    BY <2>1, ServerSlots DEF EndsAt
  <2>3. conn[i].c2s \in Seq(Msgs)
    BY <1>s DEF Slots
  <2>4. \E j \in DOMAIN conn[i].c2s : conn'[i].c2s[k] = conn[i].c2s[j]
    <3>1. CASE conn'[i].c2s = conn[i].c2s
      BY <3>1, <1>1
    <3>2. CASE conn[i].c2s # <<>> /\ conn'[i].c2s = Tail(conn[i].c2s)
      BY <3>2, <2>3, <1>1, TailElement
    <3>. QED
      BY <2>2, <3>1, <3>2
  <2>. QED
    BY <2>2, <2>4, <1>s DEF Owned
<1>2. ASSUME msg' # None PROVE Owns(conn'[cur'].cl, msg')
  <2>1. CASE ReadLine
    <3>1. cur \in Conns /\ conn[cur].c2s \in Seq(Msgs) /\ conn[cur].srvOpen
      BY <2>1, <1>s DEF ReadLine, Slots
    <3>2. 1 \in DOMAIN conn[cur].c2s /\ msg' = conn[cur].c2s[1]
      BY <3>1, <2>1 DEF ReadLine
    <3>3. cur' = cur /\ conn'[cur].cl = conn[cur].cl
      BY <3>1, <2>1, <1>s DEF ReadLine, Slots, TypeOK
    <3>. QED
      BY <3>1, <3>2, <3>3, <1>s DEF Owned
  <2>2. CASE ~ReadLine
    <3>1. msg' = msg /\ cur' = cur /\ conn' = conn
      BY <2>2, <1>2
      DEF Server, ServerRun, Accept, EndSession, AttachOk, AttachFails, ListFound,
          ListNotFound, DetachOk, DetachFails, WriteReply, WriteFails, CtrlC, StopServer,
          CrashServer, ServerGone, StartServer, Sessions, InScope, Busy
    <3>. QED
      BY <3>1, <1>2, <1>s DEF Owned
  <2>. QED
    BY <2>1, <2>2
<1>. QED
  BY <1>1, <1>2 DEF Owned

-----------------------------------------------------------------------------
LEMMA OthersEnds ==
  ASSUME TypeOK, Sessions, (\E c \in Clients : Client(c)) \/ Kernel PROVE Ends'
<1>. USE DEF serverVars, usbipVars, targetVars, clientVars
<1>s. /\ \A j \in Conns : conn[j] \in Slots /\ EndsAt(j)
      /\ \A c \in Clients : sess[c] # None => sess[c] \in Conns /\ conn[sess[c]].cliOpen
      /\ \A c \in Clients : wait[c] # None => sess[c] # None
  BY DEF TypeOK, Sessions, Ends, EndsAt, Held
<1>e. ASSUME \A i \in Conns : EndsAt(i)' PROVE Ends'
  BY <1>e DEF Ends, EndsAt
<1>u. ASSUME NEW i \in Conns, conn'[i] = conn[i] PROVE EndsAt(i)'
  BY <1>u, <1>s DEF EndsAt
<1>c. ASSUME NEW i \in Conns, conn'[i] = CliClosed(conn[i]) PROVE EndsAt(i)'
  BY <1>c, <1>s, ClosedFields, FreshFields DEF EndsAt
<1>1. ASSUME NEW c \in Clients, NEW i \in Conns, Client(c) PROVE EndsAt(i)'
  <2>1. CASE Connect(c)
    <3>1. conn'[i] \in {OpenConn(c), CliClosed(conn[i]), conn[i]}
      BY <2>1 DEF Connect
    <3>. QED
      BY <3>1, <1>u, <1>c, FreshFields DEF EndsAt
  <2>2. CASE Disconnect(c) \/ Exit(c)
    BY <2>2, <1>u, <1>c DEF Disconnect, Exit, TypeOK
  <2>3. CASE \E m \in Msgs : Send(c, m)
    <3>1. PICK m \in Msgs : Send(c, m)
      BY <2>3
    <3>2. CASE i = sess[c]
      <4>1. conn'[i] = [conn[i] EXCEPT !.c2s = IF conn[i].srvOpen THEN Append(conn[i].c2s, m)
                                               ELSE conn[i].c2s]
        BY <3>1, <3>2 DEF Send, TypeOK
      <4>2. /\ conn'[i].cl = conn[i].cl /\ conn'[i].s2c = conn[i].s2c
            /\ conn'[i].cliOpen = conn[i].cliOpen /\ conn'[i].srvOpen = conn[i].srvOpen
            /\ ~conn[i].srvOpen => conn'[i].c2s = conn[i].c2s
        BY <4>1, <1>s DEF Slots
      <4>. QED
        BY <4>2, <3>1, <3>2, <1>s DEF Send, EndsAt
    <3>. QED
      BY <3>1, <3>2, <1>u DEF Send, TypeOK
  <2>4. CASE Receive(c)
    <3>2. CASE i = sess[c]
      <4>1. conn'[i] = [conn[i] EXCEPT !.s2c = Tail(conn[i].s2c)]
        BY <2>4, <3>2 DEF Receive, TypeOK
      <4>2. /\ conn'[i].cl = conn[i].cl /\ conn'[i].c2s = conn[i].c2s
            /\ conn'[i].cliOpen = conn[i].cliOpen /\ conn'[i].srvOpen = conn[i].srvOpen
        BY <4>1, <1>s DEF Slots
      <4>. QED
        BY <4>2, <2>4, <3>2, <1>s DEF Receive, EndsAt
    <3>. QED
      BY <2>4, <3>2, <1>u DEF Receive, TypeOK
  <2>5. CASE Closed(c) \/ Timeout(c) \/ \E gone \in SUBSET Busids : Forget(c, gone)
    BY <2>5, <1>u DEF Closed, Timeout, Forget
  <2>. QED
    BY <1>1, <2>1, <2>2, <2>3, <2>4, <2>5 DEF Client
<1>2. ASSUME NEW i \in Conns, Kernel PROVE EndsAt(i)'
  BY <1>2, <1>u DEF Kernel, LinkDown, Show, ChildAttach, ChildDetach
<1>. QED
  BY <1>1, <1>2, <1>e

LEMMA OthersHeld ==
  ASSUME TypeOK, Sessions, (\E c \in Clients : Client(c)) \/ Kernel PROVE Held'
<1>. USE DEF serverVars, usbipVars, targetVars, clientVars
<1>s. /\ \A j \in Conns : conn[j] \in Slots /\ EndsAt(j)
      /\ sess \in [Clients -> Conns \cup {None}] /\ wait \in [Clients -> Msgs \cup {None}]
      /\ None \notin Conns
      /\ Held
  BY ControlPlaneAssumption DEF TypeOK, Sessions, Ends, EndsAt, ControlPlaneAssumption
<1>u. ASSUME UNCHANGED sess, \A c \in Clients : wait'[c] # None => wait[c] # None \/ sess[c] # None,
             \A i \in Conns : conn'[i].cliOpen = conn[i].cliOpen /\ conn'[i].cl = conn[i].cl
      PROVE  Held'
  BY <1>u, <1>s DEF Held, EndsAt
<1>x. ASSUME NEW c \in Clients, sess' = [sess EXCEPT ![c] = None],
             \A d \in Clients : wait'[d] = IF d = c THEN None ELSE wait[d],
             \A i \in Conns : conn'[i] = IF i = sess[c] THEN CliClosed(conn[i]) ELSE conn[i]
      PROVE  Held'
  <2>1. \A i \in Conns : conn'[i].cliOpen => i # sess[c] /\ conn'[i] = conn[i]
    BY <1>x, <1>s, ClosedFields
  <2>2. \A d \in Clients \ {c} : sess[d] # None => sess[d] # sess[c]
    BY <1>s DEF Held
  <2>. QED
    BY <2>1, <2>2, <1>x, <1>s DEF Held, EndsAt
<1>1. ASSUME NEW c \in Clients, Client(c) PROVE Held'
  <2>1. CASE Connect(c)
    <3>1. PICK i \in Conns :
            /\ conn[i] = FreeSlot /\ sess' = [sess EXCEPT ![c] = i]
            /\ conn' = [j \in Conns |-> IF j = i THEN OpenConn(c)
                                        ELSE IF j = sess[c] THEN CliClosed(conn[j])
                                        ELSE conn[j]]
      BY <2>1 DEF Connect
    <3>2. wait' = wait /\ wait[c] = None
      BY <2>1 DEF Connect
    <3>3. \A d \in Clients \ {c} : sess[d] # None => sess[d] # sess[c]
      BY <1>s DEF Held
    <3>4. \A d \in Clients : sess[d] # i
      BY <3>1, <1>s, FreshFields DEF Held
    <3>5. /\ conn'[i].cliOpen /\ conn'[i].cl = c
          /\ \A j \in Conns \ {i} : conn'[j].cliOpen => conn'[j] = conn[j] /\ j # sess[c]
          /\ \A j \in Conns \ {i, sess[c]} : conn'[j] = conn[j]
      BY <3>1, <1>s, FreshFields, ClosedFields
    <3>. QED
      BY <3>1, <3>2, <3>3, <3>4, <3>5, <1>s DEF Held, EndsAt
  <2>2. CASE Disconnect(c)
    BY <2>2, <1>x, <1>s DEF Disconnect, TypeOK
  <2>3. CASE Exit(c)
    BY <2>3, <1>x, <1>s DEF Exit
  <2>4. CASE \E m \in Msgs : Send(c, m)
    <3>1. \A i \in Conns : conn'[i].cliOpen = conn[i].cliOpen /\ conn'[i].cl = conn[i].cl
      BY <2>4, <1>s DEF Send, Slots, TypeOK
    <3>. QED
      BY <3>1, <2>4, <1>u, <1>s DEF Send
  <2>5. CASE Receive(c)
    <3>1. \A i \in Conns : conn'[i].cliOpen = conn[i].cliOpen /\ conn'[i].cl = conn[i].cl
      BY <2>5, <1>s DEF Receive, Slots, TypeOK
    <3>. QED
      BY <3>1, <2>5, <1>u, <1>s DEF Receive
  <2>6. CASE Closed(c) \/ Timeout(c) \/ \E gone \in SUBSET Busids : Forget(c, gone)
    BY <2>6, <1>u, <1>s DEF Closed, Timeout, Forget
  <2>. QED
    BY <1>1, <2>1, <2>2, <2>3, <2>4, <2>5, <2>6 DEF Client
<1>2. ASSUME Kernel PROVE Held'
  BY <1>2, <1>u DEF Kernel, LinkDown, Show, ChildAttach, ChildDetach
<1>. QED
  BY <1>1, <1>2

LEMMA OthersOwned ==
  ASSUME TypeOK, Sessions, (\E c \in Clients : Client(c)) \/ Kernel PROVE Owned'
<1>. USE DEF serverVars, usbipVars, targetVars, clientVars
<1>s. /\ \A j \in Conns : conn[j] \in Slots /\ EndsAt(j)
      /\ msg # None => cur \in Conns /\ conn[cur].srvOpen
      /\ Held /\ Owned
  BY DEF TypeOK, Sessions, InScope, Queued, Busy, Ends, EndsAt
\* Owned' follows for a connection that keeps its client and its requests.
<1>k. ASSUME UNCHANGED <<cur, msg>>,
             \A i \in Conns : /\ conn'[i].c2s # <<>> => conn'[i].c2s = conn[i].c2s
                              /\ conn[i].srvOpen => conn'[i].cl = conn[i].cl
                              /\ ~conn[i].srvOpen => conn'[i].c2s = <<>>
      PROVE  Owned'
  <2>1. ASSUME NEW i \in Conns, NEW k \in DOMAIN conn'[i].c2s
        PROVE  Owns(conn'[i].cl, conn'[i].c2s[k])
    <3>1. conn'[i].c2s # <<>>
      BY <2>1
    <3>. QED
      BY <3>1, <2>1, <1>k, <1>s DEF Owned
  <2>2. msg # None => Owns(conn'[cur].cl, msg)
    BY <1>k, <1>s DEF Owned
  <2>. QED
    BY <2>1, <2>2, <1>k DEF Owned
<1>1. ASSUME NEW c \in Clients, Client(c) PROVE Owned'
  <2>1. CASE Connect(c)
    <3>1. PICK i \in Conns :
            /\ conn[i] = FreeSlot
            /\ conn' = [j \in Conns |-> IF j = i THEN OpenConn(c)
                                        ELSE IF j = sess[c] THEN CliClosed(conn[j])
                                        ELSE conn[j]]
      BY <2>1 DEF Connect
    <3>. QED
      BY <3>1, <2>1, <1>k, <1>s, ClosedFields, FreshFields DEF Connect, EndsAt
  <2>2. CASE Disconnect(c) \/ Exit(c)
    <3>1. \A i \in Conns : conn'[i] \in {conn[i], CliClosed(conn[i])}
      BY <2>2 DEF Disconnect, Exit, TypeOK
    <3>2. UNCHANGED <<cur, msg>>
      BY <2>2 DEF Disconnect, Exit
    <3>. QED
      BY <3>1, <3>2, <1>k, <1>s, ClosedFields, FreshFields DEF EndsAt
  <2>3. CASE \E m \in Msgs : Send(c, m)
    <3>1. PICK m \in Msgs : Send(c, m)
      BY <2>3
    <3>. DEFINE i == sess[c]
    <3>2. i \in Conns /\ conn[i] \in Slots /\ conn[i].cl = c /\ UNCHANGED <<cur, msg>>
      BY <3>1, <1>s DEF Send, Held, TypeOK
    <3>3. Owns(c, m)
      BY <3>1 DEF Send, Owns
    <3>4. \A j \in Conns \ {i} : conn'[j] = conn[j]
      BY <3>1 DEF Send, TypeOK
    <3>5. conn'[i] = [conn[i] EXCEPT !.c2s = IF conn[i].srvOpen THEN Append(conn[i].c2s, m)
                                             ELSE conn[i].c2s]
      BY <3>1, <3>2 DEF Send, TypeOK
    <3>6. /\ conn'[i].cl = c
          /\ conn'[i].c2s = IF conn[i].srvOpen THEN Append(conn[i].c2s, m) ELSE conn[i].c2s
      BY <3>5, <3>2 DEF Slots
    <3>7. ASSUME NEW k \in DOMAIN conn'[i].c2s PROVE Owns(c, conn'[i].c2s[k])
      <4>1. conn[i].c2s \in Seq(Msgs)
        BY <3>2 DEF Slots
      <4>2. conn'[i].c2s[k] = m \/ (k \in DOMAIN conn[i].c2s /\ conn'[i].c2s[k] = conn[i].c2s[k])
        BY <4>1, <3>6, <3>7
      <4>. QED
        BY <4>2, <3>2, <3>3, <1>s DEF Owned
    <3>. QED
      BY <3>2, <3>4, <3>6, <3>7, <1>s DEF Owned
  <2>4. CASE Receive(c)
    <3>1. conn' = [conn EXCEPT ![sess[c]].s2c = Tail(conn[sess[c]].s2c)] /\ UNCHANGED <<cur, msg>>
      BY <2>4 DEF Receive
    <3>2. \A i \in Conns : conn'[i].c2s = conn[i].c2s /\ conn'[i].cl = conn[i].cl
      BY <3>1, <1>s DEF Slots, TypeOK
    <3>. QED
      BY <3>1, <3>2, <1>k, <1>s DEF EndsAt
  <2>5. CASE Closed(c) \/ Timeout(c) \/ \E gone \in SUBSET Busids : Forget(c, gone)
    BY <2>5, <1>k, <1>s DEF Closed, Timeout, Forget, EndsAt
  <2>. QED
    BY <1>1, <2>1, <2>2, <2>3, <2>4, <2>5 DEF Client
<1>2. ASSUME Kernel PROVE Owned'
  BY <1>2, <1>k, <1>s DEF Kernel, LinkDown, Show, ChildAttach, ChildDetach, EndsAt
<1>. QED
  BY <1>1, <1>2

-----------------------------------------------------------------------------
LEMMA InitSessions == Init => Sessions
BY FreshFields
DEF Init, Sessions, InScope, Queued, Ends, Held, Owned, Busy

LEMMA NextTypeSessions ==
  ASSUME TypeOK, Sessions, [Next]_vars PROVE TypeOK' /\ Sessions'
<1>1. CASE Server
  BY <1>1, ServerType, ServerInScope, ServerQueued, ServerEndsHeld, ServerOwned
  DEF Sessions
<1>2. CASE (\E c \in Clients : Client(c)) \/ Kernel
  BY <1>2, ClientType, KernelType, OthersInScope, OthersQueued, OthersEnds, OthersHeld,
     OthersOwned
  DEF Sessions
<1>3. CASE UNCHANGED vars
  BY <1>3
  DEF vars, serverVars, clientVars, usbipVars, targetVars, TypeOK, Sessions, InScope, Queued, Ends,
      Held, Owned, Owns, Busy
<1>. QED
  BY <1>1, <1>2, <1>3 DEF Next

\* Every variable has its type, and the server's place in its loops, its
\* connections and the clients' sessions belong together (TypeOK, Sessions):
\* neither is inductive without the other, since the request that the server
\* works on is typed only because it was read from a connection it holds.
THEOREM SessionsCorrect == Spec => [](TypeOK /\ Sessions)
<1>1. Init => TypeOK /\ Sessions
  BY InitType, InitSessions
<1>2. TypeOK /\ Sessions /\ [Next]_vars => (TypeOK /\ Sessions)'
  BY NextTypeSessions
<1>. QED
  BY <1>1, <1>2, PTL DEF Spec

\* Every variable keeps its type (TypeOK), for all values of the constants.
THEOREM TypeCorrect == Spec => []TypeOK
BY SessionsCorrect, PTL

-----------------------------------------------------------------------------
(***************************************************************************)
(* What a REVOKE detaches.                                                 *)
(***************************************************************************)
LEMMA NextDetaches ==
  ASSUME TypeOK, Sessions, DetachesRevokedBusid, [Next]_vars PROVE DetachesRevokedBusid'
<1>. USE DEF DetachesRevokedBusid, vars, serverVars, clientVars, usbipVars, targetVars
<1>s. /\ spc = "detach" => target \in Ports
      /\ vhci \in [Ports -> Devices \cup {None}]
  BY DEF TypeOK, Sessions, InScope
<1>1. CASE ListFound
  BY <1>1 DEF ListFound, InUse
<1>2. CASE Server /\ ~ListFound
  <2>1. spc' # "detach" \/ (spc = "detach" /\ UNCHANGED <<target, refilled, msg, vhci>>)
    BY <1>2
    DEF Server, ServerRun, Accept, ReadLine, EndSession, AttachOk, AttachFails,
        ListNotFound, DetachOk, DetachFails, WriteReply, WriteFails, CtrlC, StopServer,
        CrashServer, ServerGone, StartServer, Answer
  <2>. QED
    BY <2>1
<1>3. CASE \E c \in Clients : Client(c)
  <2>1. UNCHANGED <<spc, target, refilled, msg, vhci>>
    BY <1>3 DEF Client, Connect, Disconnect, Send, Receive, Closed, Timeout, Forget, Exit
  <2>. QED
    BY <2>1
<1>4. CASE Kernel
  <2>1. /\ UNCHANGED <<spc, target, msg>> /\ refilled \in BOOLEAN
        /\ \/ refilled' = refilled /\ \A p \in Ports : vhci'[p] \in {vhci[p], None}
           \/ \E p \in Ports : /\ refilled' = (refilled \/ p = target)
                               /\ \A q \in Ports \ {p} : vhci'[q] = vhci[q]
    BY <1>4, <1>s
    DEF Kernel, LinkDown, Release, Import, Show, ChildAttach, ChildDetach, TypeOK
  <2>. QED
    BY <2>1, <1>s
<1>. QED
  BY <1>1, <1>2, <1>3, <1>4 DEF Next

\* When the server runs `usbip detach`, the port number it took from the
\* listing still holds a device with the revoked busid, or none, unless an
\* attach command that outlived an earlier server filled that very port since.
THEOREM DetachesRevoked == Spec => []DetachesRevokedBusid
<1>1. Init => DetachesRevokedBusid
  BY DEF Init, DetachesRevokedBusid
<1>2. TypeOK /\ Sessions /\ DetachesRevokedBusid /\ [Next]_vars => DetachesRevokedBusid'
  BY NextDetaches
<1>. QED
  BY <1>1, <1>2, SessionsCorrect, PTL DEF Spec

-----------------------------------------------------------------------------
(***************************************************************************)
(* Sessions stay in step.                                                  *)
(***************************************************************************)

\* The lines of a reply answer the request the server works on, and there are
\* no more of them than a connection holds.
Answers ==
  spc = "reply" => /\ Len(reply) <= MaxLines
                   /\ \A k \in DOMAIN reply : reply[k].re = msg

LEMMA NextAnswers ==
  ASSUME TypeOK, Sessions, Answers, [Next]_vars PROVE Answers'
<1>. USE DEF Answers, vars, serverVars, clientVars, usbipVars, targetVars
<1>m. MaxStderr \in Nat /\ MaxLines \in Nat /\ MaxStderr + 1 <= MaxLines
  BY ControlPlaneAssumption DEF ControlPlaneAssumption
<1>o. ASSUME NEW x, reply' = <<x>>, x.re = msg' PROVE Answers'
  <2>1. 1 <= MaxLines /\ Len(reply') = 1 /\ DOMAIN (reply') = {1} /\ reply'[1] = x
    BY <1>m, <1>o
  <2>. QED
    BY <1>o, <2>1
<1>1. CASE Server
  <2>1. CASE ReadLine
    <3>1. spc' # "reply" \/ \E kind : reply' = <<[kind |-> kind, re |-> msg']>>
      BY <2>1 DEF ReadLine, Answer
    <3>. QED
      BY <3>1, <1>o
  <2>2. CASE AttachOk \/ ListNotFound \/ DetachOk
    <3>1. reply' = <<[kind |-> "OK", re |-> msg']>>
      BY <2>2 DEF AttachOk, ListNotFound, DetachOk, Answer, OkReply
    <3>. QED
      BY <3>1, <1>o
  <2>3. CASE AttachFails \/ DetachFails
    <3>1. PICK k \in 0..MaxStderr : reply' = ErrReply(k) /\ msg' = msg
      BY <2>3 DEF AttachFails, DetachFails, Answer
    <3>2. Len(ErrReply(k)) = k + 1 /\ k + 1 <= MaxLines
      BY <1>m DEF ErrReply
    <3>. QED
      BY <3>1, <3>2, <1>m DEF ErrReply
  <2>4. CASE spc' # "reply" \/ UNCHANGED <<spc, reply, msg>>
    BY <2>4
  <2>. QED
    BY <1>1, <2>1, <2>2, <2>3, <2>4
    DEF Server, ServerRun, Accept, EndSession, ListFound, WriteReply, WriteFails, CtrlC,
        StopServer, CrashServer, ServerGone, StartServer
<1>2. CASE ~Server
  BY <1>2
  DEF Next, Client, Connect, Disconnect, Send, Receive, Closed, Timeout, Forget, Exit,
      Kernel, LinkDown, Show, ChildAttach, ChildDetach
<1>. QED
  BY <1>1, <1>2

\* InStep of one client that neither timed out nor was sent a long error.
LEMMA ServerInStep ==
  ASSUME TypeOK, Sessions, Answers, InStep, Server, NEW c \in Clients \ (late' \cup split'),
         sess'[c] # None
  PROVE  InStepOn(c, sess[c])'
<1>. DEFINE i == sess[c]
<1>. USE DEF clientVars, usbipVars, targetVars
<1>a. UNCHANGED <<sess, wait, late>> /\ split \subseteq split'
  BY DEF Server, ServerRun, Accept, ReadLine, EndSession, AttachOk, AttachFails, ListFound,
         ListNotFound, DetachOk, DetachFails, WriteReply, WriteFails, CtrlC, StopServer,
         CrashServer, ServerGone, StartServer
<1>b. InStepOn(c, i)
  BY <1>a DEF InStep
<1>c. /\ i \in Conns /\ conn[i] \in Slots /\ conn[i].cliOpen /\ conn[i].cl = c
      /\ \A j \in Conns : conn[j] \in Slots
      /\ ~conn[i].srvOpen => conn[i].c2s = <<>>
  BY <1>a DEF TypeOK, Sessions, Held, Ends
<1>d. /\ spc \in Busy \cup {"read"} => cur \in Conns
      /\ spc \notin Busy => msg = None
      /\ spc \in Busy => msg # None
      /\ cur = i => conn[i].srvOpen
  BY <1>c, ControlPlaneAssumption DEF TypeOK, Sessions, InScope, Busy, Queued, ControlPlaneAssumption
<1>. USE DEF InStepOn, Quiet, Underway, Handling
<1>u. ASSUME conn'[i] = conn[i], (cur' = i /\ msg' # None) <=> (cur = i /\ msg # None),
             cur = i /\ msg # None => msg' = msg
      PROVE  InStepOn(c, sess[c])'
  BY <1>u, <1>a, <1>b
<1>g. ASSUME conn'[i] = SrvClosed(conn[i]), cur' = None
      PROVE  InStepOn(c, sess[c])'
  <2>1. /\ conn'[i].s2c = conn[i].s2c /\ conn'[i].c2s = <<>> /\ ~conn'[i].srvOpen
        /\ i # None
    BY <1>g, <1>c, ClosedFields, ControlPlaneAssumption DEF ControlPlaneAssumption
  <2>. QED
    BY <2>1, <1>g, <1>a, <1>b
<1>1. CASE Accept
  BY <1>1, <1>d, <1>u DEF Accept, Busy
<1>2. CASE ReadLine
  <2>1. CASE cur = i
    <3>1. conn'[i] = [conn[i] EXCEPT !.c2s = Tail(conn[i].c2s)] /\ cur' = cur
      BY <1>2, <2>1, <1>c DEF ReadLine, TypeOK
    <3>2. /\ conn'[i].s2c = conn[i].s2c /\ conn'[i].srvOpen = conn[i].srvOpen
          /\ conn'[i].c2s = Tail(conn[i].c2s)
      BY <3>1, <1>c DEF Slots
    <3>3. wait[c] # None /\ conn[i].c2s = <<wait[c]>> /\ conn[i].s2c = <<>>
      BY <1>2, <2>1, <1>b, <1>d DEF ReadLine, Busy
    <3>4. msg' = wait[c] /\ conn'[i].c2s = <<>>
      BY <1>2, <2>1, <3>2, <3>3 DEF ReadLine
    <3>. QED
      BY <3>1, <3>2, <3>3, <3>4, <2>1, <1>a
  <2>2. CASE cur # i
    BY <1>2, <2>2, <1>u, <1>d, <1>c DEF ReadLine, TypeOK
  <2>. QED
    BY <2>1, <2>2
<1>3. CASE EndSession
  <2>1. CASE cur = i
    BY <1>3, <2>1, <1>g, <1>c DEF EndSession, TypeOK
  <2>2. CASE cur # i
    BY <1>3, <2>2, <1>u, <1>d, <1>c, ControlPlaneAssumption
    DEF EndSession, TypeOK, ControlPlaneAssumption
  <2>. QED
    BY <2>1, <2>2
<1>4. CASE AttachOk \/ AttachFails \/ ListFound \/ ListNotFound \/ DetachOk \/ DetachFails
           \/ CtrlC \/ StartServer
  BY <1>4, <1>u DEF AttachOk, AttachFails, ListFound, ListNotFound, DetachOk, DetachFails,
                    CtrlC, StartServer
<1>5. CASE WriteReply
  <2>1. CASE cur = i
    <3>1. conn'[i] = [conn[i] EXCEPT !.s2c = conn[i].s2c \o reply]
      BY <1>5, <2>1, <1>c DEF WriteReply, TypeOK
    <3>2. /\ conn'[i].c2s = conn[i].c2s /\ conn'[i].srvOpen = conn[i].srvOpen
          /\ conn'[i].s2c = conn[i].s2c \o reply
      BY <3>1, <1>c DEF Slots
    <3>3. conn[i].c2s = <<>> /\ conn[i].s2c = <<>> /\ msg = wait[c] /\ wait[c] # None
      BY <1>5, <2>1, <1>b, <1>d DEF WriteReply, Busy
    <3>4. reply \in Seq(Lines) /\ reply # <<>> /\ Len(reply) = 1
      <4>1. reply \in Seq(Lines) /\ reply # <<>>
        BY <1>5 DEF WriteReply, TypeOK, Sessions, InScope
      <4>2. ~(Len(reply) > 1)
        BY <1>5, <2>1, <1>c DEF WriteReply
      <4>. QED
        BY <4>1, <4>2, SingleLine
    <3>5. conn'[i].s2c = reply
      BY <3>2, <3>3, <3>4
    <3>6. Head(reply).re = msg
      BY <3>4, <1>5 DEF Answers, WriteReply
    <3>. QED
      BY <3>2, <3>3, <3>4, <3>5, <3>6, <1>5, <1>a DEF WriteReply
  <2>2. CASE cur # i
    BY <1>5, <2>2, <1>u, <1>c DEF WriteReply, TypeOK
  <2>. QED
    BY <2>1, <2>2
<1>6. CASE WriteFails
  <2>1. cur # i
    <3>. SUFFICES ASSUME cur = i PROVE FALSE
      OBVIOUS
    <3>1. conn[i].s2c = <<>>
      BY <1>6, <1>b, <1>d DEF WriteFails, Busy
    <3>2. Len(reply) <= MaxLines
      BY <1>6 DEF WriteFails, Answers
    <3>3. 0 + Len(reply) = Len(reply) /\ Len(<<>>) = 0
      BY DEF TypeOK
    <3>4. Fits
      BY <3>1, <3>2, <3>3 DEF Fits
    <3>. QED
      BY <3>4, <1>6, <1>c DEF WriteFails
  <2>2. (conn'[i] = conn[i] /\ cur' # i) \/ (cur' = cur /\ conn' = conn)
    BY <1>6, <2>1, <1>c, ControlPlaneAssumption DEF WriteFails, TypeOK, ControlPlaneAssumption
  <2>. QED
    BY <2>1, <2>2, <1>u
<1>7. CASE StopServer \/ CrashServer
  BY <1>7, <1>g, <1>c DEF StopServer, CrashServer, ServerGone
<1>. QED
  BY <1>1, <1>2, <1>3, <1>4, <1>5, <1>6, <1>7 DEF Server, ServerRun

LEMMA ClientInStep ==
  ASSUME TypeOK, Sessions, InStep, NEW d \in Clients, Client(d),
         NEW c \in Clients \ (late' \cup split'), sess'[c] # None
  PROVE  InStepOn(c, sess[c])'
<1>. USE DEF serverVars, usbipVars, targetVars, InStepOn, Quiet, Underway, Handling
<1>n. /\ None \notin Conns
      /\ sess \in [Clients -> Conns \cup {None}] /\ wait \in [Clients -> Msgs \cup {None}]
      /\ \A j \in Conns : conn[j] \in Slots
  BY ControlPlaneAssumption DEF TypeOK, ControlPlaneAssumption
<1>m. UNCHANGED <<cur, msg>>
  BY DEF Client, Connect, Disconnect, Send, Receive, Closed, Timeout, Forget, Exit
<1>1. CASE c # d
  <2>1. sess'[c] = sess[c] /\ wait'[c] = wait[c] /\ c \notin late \cup split
    BY <1>1, <1>n DEF Client, Connect, Disconnect, Send, Receive, Closed, Timeout, Forget, Exit,
                      TypeOK
  <2>. DEFINE i == sess[c]
  <2>2. /\ i \in Conns /\ i # sess[d] /\ conn[i].cliOpen /\ conn[i] # FreeSlot
    BY <2>1, <1>1, <1>n, FreshFields DEF Sessions, Held
  <2>3. conn'[i] = conn[i]
    BY <2>2, <1>n DEF Client, Connect, Disconnect, Send, Receive, Closed, Timeout, Forget, Exit,
                      TypeOK
  <2>. QED
    BY <2>1, <2>3, <1>m DEF InStep
<1>2. CASE c = d
  <2>. DEFINE i == sess[c]
  <2>1. CASE Connect(c)
    <3>1. PICK k \in Conns : /\ conn[k] = FreeSlot /\ sess' = [sess EXCEPT ![c] = k]
                             /\ conn'[k] = OpenConn(c)
      BY <2>1 DEF Connect
    <3>2. cur # k
      BY <3>1, FreshFields, <1>n DEF Sessions, Queued
    <3>3. sess'[c] = k /\ wait'[c] = None
      BY <3>1, <2>1, <1>n DEF Connect
    <3>. QED
      BY <3>1, <3>2, <3>3, <1>m, FreshFields
  <2>2. CASE Disconnect(c) \/ Exit(c)
    BY <2>2, <1>n DEF Disconnect, Exit
  <2>3. CASE ~(Connect(c) \/ Exit(c)) /\ sess' = sess /\ late' = late /\ split' = split
    <3>1. /\ i \in Conns /\ conn[i] \in Slots /\ InStepOn(c, i)
          /\ ~conn[i].srvOpen => conn[i].c2s = <<>> /\ cur # i
      BY <2>3, <1>n DEF InStep, Sessions, Ends, Queued
    <3>2. CASE \E m \in Msgs : Send(c, m)
      <4>1. PICK m \in Msgs : Send(c, m)
        BY <3>2
      <4>2. conn'[i] = [conn[i] EXCEPT !.c2s = IF conn[i].srvOpen THEN Append(conn[i].c2s, m)
                                               ELSE conn[i].c2s]
        BY <4>1, <3>1 DEF Send, TypeOK
      <4>3. /\ conn'[i].s2c = conn[i].s2c /\ conn'[i].srvOpen = conn[i].srvOpen
            /\ conn'[i].c2s = IF conn[i].srvOpen THEN Append(conn[i].c2s, m) ELSE conn[i].c2s
        BY <4>2, <3>1 DEF Slots
      <4>4. wait[c] = None /\ wait'[c] = m
        BY <4>1, <1>n DEF Send
      <4>5. Append(<<>>, m) = <<m>>
        OBVIOUS
      <4>. QED
        BY <4>3, <4>4, <4>5, <3>1, <2>3, <1>m, RequestTypes
    <3>3. CASE Receive(c)
      <4>1. conn'[i] = [conn[i] EXCEPT !.s2c = Tail(conn[i].s2c)]
        BY <3>3, <3>1 DEF Receive, TypeOK
      <4>2. /\ conn'[i].c2s = conn[i].c2s /\ conn'[i].srvOpen = conn[i].srvOpen
            /\ conn'[i].s2c = Tail(conn[i].s2c)
        BY <4>1, <3>1 DEF Slots
      <4>3. wait[c] # None /\ wait'[c] = None /\ conn[i].s2c # <<>>
        BY <3>3, <1>n DEF Receive
      <4>4. /\ conn[i].c2s = <<>> /\ ~Handling(i) /\ Len(conn[i].s2c) = 1
            /\ conn[i].s2c \in Seq(Lines)
        BY <4>3, <3>1 DEF Slots
      <4>5. Tail(conn[i].s2c) = <<>>
        BY <4>4, <4>3, SingleLine
      <4>. QED
        BY <4>2, <4>3, <4>4, <4>5, <2>3, <1>m
    <3>4. CASE Closed(c)
      <4>1. wait'[c] = None /\ wait[c] # None /\ conn' = conn
            /\ conn[i].s2c = <<>> /\ ~conn[i].srvOpen
        BY <3>4, <1>n DEF Closed
      <4>. QED
        BY <4>1, <3>1, <2>3, <1>m
    <3>5. CASE \E gone \in SUBSET Busids : Forget(c, gone)
      BY <3>5, <3>1, <2>3, <1>m DEF Forget
    <3>6. CASE Timeout(c) \/ Disconnect(c)
      BY <3>6, <2>3, <1>n DEF Timeout, Disconnect, TypeOK
    <3>. QED
      BY <1>2, <2>3, <3>2, <3>3, <3>4, <3>5, <3>6 DEF Client
  <2>4. CASE Timeout(c)
    BY <2>4 DEF Timeout
  <2>. QED
    BY <1>2, <2>1, <2>2, <2>3, <2>4 DEF Client, Send, Receive, Closed, Forget
<1>. QED
  BY <1>1, <1>2

LEMMA NextInStep ==
  ASSUME TypeOK, Sessions, Answers, InStep, [Next]_vars PROVE InStep'
<1>. SUFFICES ASSUME NEW c \in Clients \ (late' \cup split'), sess'[c] # None
              PROVE  InStepOn(c, sess[c])'
  BY DEF InStep
<1>1. CASE Server
  BY <1>1, ServerInStep
<1>2. CASE \E d \in Clients : Client(d)
  BY <1>2, ClientInStep
<1>3. CASE Kernel \/ UNCHANGED vars
  <2>1. UNCHANGED <<cur, msg, conn, sess, wait, late, split>>
    BY <1>3 DEF Kernel, LinkDown, Show, ChildAttach, ChildDetach, vars, serverVars, clientVars, usbipVars, targetVars
  <2>. QED
    BY <2>1 DEF InStep, InStepOn, Quiet, Underway, Handling
<1>. QED
  BY <1>1, <1>2, <1>3 DEF Next

\* As long as no request of a client timed out and no error reply to it had
\* several lines, its session carries nothing but the request it waits for:
\* the next line it reads is the reply to that request.
THEOREM StaysInStep == Spec => []InStep
<1>1. Init => Answers /\ InStep
  BY DEF Init, Answers, InStep
<1>2. TypeOK /\ Sessions /\ Answers /\ InStep /\ [Next]_vars => (Answers /\ InStep)'
  BY NextAnswers, NextInStep
<1>. QED
  BY <1>1, <1>2, SessionsCorrect, PTL DEF Spec

-----------------------------------------------------------------------------
(***************************************************************************)
(* A device that a client reports as attached was imported for its OFFER.  *)
(***************************************************************************)

\* An OK on its way to a client that waits for the reply to an OFFER, or just
\* to be written there, comes from the import of that device.
ConfirmedFor(c) ==
  wait[c] # None /\ wait[c].type = "OFFER" =>
    /\ cur = sess[c] /\ spc = "reply" /\ Head(reply).kind = "OK"
         => Dev(c, wait[c].bus) \in granted
    /\ conn[sess[c]].s2c # <<>> /\ Head(conn[sess[c]].s2c).kind = "OK"
         => Dev(c, wait[c].bus) \in granted

Confirmed == \A c \in Clients \ (late \cup split) : ConfirmedFor(c)

LEMMA ServerConfirmed ==
  ASSUME TypeOK, Sessions, InStep, Confirmed, Server, NEW c \in Clients \ (late' \cup split')
  PROVE  ConfirmedFor(c)'
<1>. USE DEF clientVars, usbipVars, targetVars
<1>. DEFINE i == sess[c]
<1>a. UNCHANGED <<sess, wait, late>> /\ split \subseteq split' /\ granted \subseteq granted'
  BY DEF Server, ServerRun, Accept, ReadLine, EndSession, AttachOk, AttachFails, ListFound,
         ListNotFound, DetachOk, DetachFails, WriteReply, WriteFails, CtrlC, StopServer,
         CrashServer, ServerGone, StartServer, Import, Release
<1>. SUFFICES ASSUME wait[c] # None, wait[c].type = "OFFER"
              PROVE  /\ cur' = i /\ spc' = "reply" /\ Head(reply').kind = "OK"
                           => Dev(c, wait[c].bus) \in granted'
                     /\ conn'[i].s2c # <<>> /\ Head(conn'[i].s2c).kind = "OK"
                           => Dev(c, wait[c].bus) \in granted'
  BY <1>a DEF ConfirmedFor
<1>b. InStepOn(c, i) /\ ConfirmedFor(c)
  BY <1>a DEF InStep, Confirmed, Sessions, Held
<1>c. /\ i \in Conns /\ conn[i] \in Slots /\ conn[i].cliOpen /\ conn[i].cl = c
      /\ \A j \in Conns : conn[j] \in Slots
  BY <1>a DEF TypeOK, Sessions, Held
<1>d. /\ spc \in Busy /\ cur = i => msg = wait[c] /\ conn[i].s2c = <<>>
      /\ spc \in Busy \cup {"read"} => cur \in Conns
  <2>1. spc \in Busy => msg # None
    BY DEF Sessions, InScope
  <2>2. cur \in Conns \cup {None} /\ (spc \in Busy \cup {"read"} => cur # None)
    BY DEF TypeOK, Sessions, InScope, Busy
  <2>3. cur = i => conn[i].srvOpen
    BY <1>c, ControlPlaneAssumption DEF Sessions, Queued, ControlPlaneAssumption
  <2>4. ASSUME spc \in Busy, cur = i PROVE msg = wait[c] /\ conn[i].s2c = <<>>
    BY <2>1, <2>3, <2>4, <1>b DEF InStepOn, Quiet, Underway, Handling
  <2>. QED
    BY <2>2, <2>4
<1>u. ASSUME conn'[i].s2c = conn[i].s2c,
             (cur' = i /\ spc' = "reply" /\ Head(reply').kind = "OK")
               => Dev(c, wait[c].bus) \in granted'
      PROVE  ConfirmedFor(c)'
  BY <1>u, <1>a, <1>b DEF ConfirmedFor
<1>1. CASE ReadLine
  <2>1. conn'[i].s2c = conn[i].s2c
    BY <1>1, <1>c, <1>d DEF ReadLine, TypeOK, Slots
  <2>2. cur = i => conn[i].c2s = <<wait[c]>>
    BY <1>1, <1>b DEF ReadLine, InStepOn, Quiet, Underway, Handling, Sessions, InScope, Busy
  <2>3. cur' = i => spc' # "reply"
    BY <1>1, <2>2 DEF ReadLine
  <2>. QED
    BY <2>1, <2>3, <1>u, <1>a DEF ConfirmedFor
<1>2. CASE AttachOk
  BY <1>2, <1>a, <1>b, <1>c, <1>d DEF AttachOk, Import, Dev, Busy, ConfirmedFor
<1>3. CASE AttachFails \/ DetachFails
  <2>1. PICK k \in 0..MaxStderr : reply' = ErrReply(k) /\ conn' = conn
    BY <1>3 DEF AttachFails, DetachFails, Answer
  <2>2. Head(reply').kind = "ERR"
    BY <2>1, ControlPlaneAssumption DEF ErrReply, ControlPlaneAssumption
  <2>. QED
    BY <2>1, <2>2, <1>a, <1>b DEF ConfirmedFor
<1>4. CASE ListNotFound \/ DetachOk
  <2>1. cur' = cur /\ conn' = conn /\ spc \in {"list", "detach"}
    BY <1>4 DEF ListNotFound, DetachOk
  <2>2. cur # i
    BY <2>1, <1>d DEF Sessions, InScope, Busy
  <2>. QED
    BY <2>1, <2>2, <1>a, <1>b DEF ConfirmedFor
<1>5. CASE WriteReply
  <2>1. spc' = "read"
    BY <1>5 DEF WriteReply
  <2>2. CASE cur = i
    <3>1. conn'[i] = [conn[i] EXCEPT !.s2c = conn[i].s2c \o reply]
      BY <1>5, <2>2, <1>c DEF WriteReply, TypeOK
    <3>2. conn'[i].s2c = conn[i].s2c \o reply
      BY <3>1, <1>c DEF Slots
    <3>3. conn[i].s2c = <<>> /\ reply \in Seq(Lines)
      BY <1>5, <2>2, <1>d DEF WriteReply, Busy, TypeOK
    <3>4. conn'[i].s2c = reply
      BY <3>2, <3>3
    <3>. QED
      BY <3>4, <2>1, <2>2, <1>5, <1>a, <1>b DEF ConfirmedFor, WriteReply
  <2>3. CASE cur # i
    BY <1>5, <2>1, <2>3, <1>a, <1>b, <1>c DEF WriteReply, TypeOK, ConfirmedFor
  <2>. QED
    BY <2>2, <2>3
<1>6. CASE EndSession \/ WriteFails \/ StopServer \/ CrashServer
  <2>1. conn'[i] \in {conn[i], SrvClosed(conn[i])} /\ spc' # "reply"
    BY <1>6, <1>c DEF EndSession, WriteFails, StopServer, CrashServer, ServerGone, TypeOK
  <2>2. conn'[i].s2c = conn[i].s2c
    BY <2>1, <1>c, ClosedFields
  <2>. QED
    BY <2>1, <2>2, <1>a, <1>b DEF ConfirmedFor
<1>7. CASE Accept \/ ListFound \/ CtrlC \/ StartServer
  BY <1>7, <1>a, <1>b DEF Accept, ListFound, CtrlC, StartServer, ConfirmedFor
<1>. QED
  BY <1>1, <1>2, <1>3, <1>4, <1>5, <1>6, <1>7 DEF Server, ServerRun, ConfirmedFor

\* A step of one client leaves what concerns another client as it is.
LEMMA OtherClient ==
  ASSUME TypeOK, Sessions, NEW d \in Clients, Client(d), NEW c \in Clients, c # d
  PROVE  /\ c \in late' <=> c \in late
         /\ c \in split' <=> c \in split
         /\ sess'[c] = sess[c] /\ wait'[c] = wait[c] /\ offered'[c] = offered[c]
         /\ sess[c] # None => conn'[sess[c]] = conn[sess[c]]
         /\ \A b \in Busids : Dev(c, b) \in granted => Dev(c, b) \in granted'
<1>. USE DEF serverVars, usbipVars, targetVars
<1>n. /\ None \notin Conns
      /\ sess \in [Clients -> Conns \cup {None}] /\ wait \in [Clients -> Msgs \cup {None}]
      /\ offered \in [Clients -> SUBSET Busids]
      /\ \A j \in Conns : conn[j] \in Slots
  BY ControlPlaneAssumption DEF TypeOK, ControlPlaneAssumption
<1>1. /\ (c \in late' <=> c \in late) /\ (c \in split' <=> c \in split)
      /\ sess'[c] = sess[c] /\ wait'[c] = wait[c] /\ offered'[c] = offered[c]
  BY <1>n DEF Client, Connect, Disconnect, Send, Receive, Closed, Timeout, Forget, Exit
<1>2. ASSUME sess[c] # None PROVE conn'[sess[c]] = conn[sess[c]]
  <2>1. /\ sess[c] \in Conns /\ sess[c] # sess[d]
        /\ conn[sess[c]].cliOpen /\ conn[sess[c]] # FreeSlot
    BY <1>2, <1>n, FreshFields DEF Sessions, Held
  <2>. QED
    BY <2>1, <1>n DEF Client, Connect, Disconnect, Send, Receive, Closed, Timeout, Forget, Exit,
                      TypeOK
<1>3. \A b \in Busids : Dev(c, b) \in granted => Dev(c, b) \in granted'
  BY DEF Client, Connect, Disconnect, Send, Receive, Closed, Timeout, Forget, Exit, Dev
<1>. QED
  BY <1>1, <1>2, <1>3

LEMMA ClientConfirmed ==
  ASSUME TypeOK, Sessions, InStep, Confirmed, NEW d \in Clients, Client(d),
         NEW c \in Clients \ (late' \cup split')
  PROVE  ConfirmedFor(c)'
<1>. USE DEF serverVars, usbipVars, targetVars
<1>n. /\ sess \in [Clients -> Conns \cup {None}] /\ wait \in [Clients -> Msgs \cup {None}]
      /\ \A j \in Conns : conn[j] \in Slots
  BY DEF TypeOK
<1>m. UNCHANGED <<cur, msg, spc, reply>>
  BY DEF Client, Connect, Disconnect, Send, Receive, Closed, Timeout, Forget, Exit
<1>1. CASE c # d
  <2>1. wait[c] # None => sess[c] # None /\ wait[c] \in Msgs
    BY <1>n DEF Sessions, Held
  <2>2. wait[c] # None /\ wait[c].type = "OFFER" => wait[c].bus \in Busids
    BY <2>1, RequestTypes
  <2>. QED
    BY <1>1, <1>m, <2>1, <2>2, OtherClient DEF Confirmed, ConfirmedFor
<1>2. CASE c = d /\ wait'[c] = None
  BY <1>2 DEF ConfirmedFor
<1>3. CASE c = d /\ \E m \in Msgs : Send(c, m)
  <2>. DEFINE i == sess[c]
  <2>1. PICK m \in Msgs : Send(c, m)
    BY <1>3
  <2>2. /\ i \in Conns /\ i # None /\ wait[c] = None
        /\ sess' = sess /\ c \notin late \cup split
    BY <2>1, <1>3, <1>n DEF Send
  <2>3. Quiet(i)
    BY <2>2 DEF InStep, InStepOn
  <2>4. conn'[i].s2c = conn[i].s2c
    BY <2>1, <2>2, <1>n DEF Send, Slots, TypeOK
  <2>5. cur = i => spc # "reply"
    BY <2>3 DEF Quiet, Handling, Sessions, InScope, Busy
  <2>. QED
    BY <2>2, <2>3, <2>4, <2>5, <1>m DEF ConfirmedFor, Quiet
<1>. QED
  BY <1>1, <1>2, <1>3, <1>n
  DEF Client, Connect, Disconnect, Receive, Closed, Timeout, Forget, Exit

LEMMA NextConfirmed ==
  ASSUME TypeOK, Sessions, InStep, Confirmed, [Next]_vars PROVE Confirmed'
<1>1. CASE Server
  BY <1>1, ServerConfirmed DEF Confirmed
<1>2. CASE \E d \in Clients : Client(d)
  BY <1>2, ClientConfirmed DEF Confirmed
<1>3. CASE Kernel \/ UNCHANGED vars
  <2>1. UNCHANGED <<cur, spc, reply, conn, sess, wait, late, split, granted>>
    BY <1>3 DEF Kernel, LinkDown, Release, Show, ChildAttach, ChildDetach, vars, serverVars, clientVars, usbipVars, targetVars
  <2>. QED
    BY <2>1 DEF Confirmed, ConfirmedFor
<1>. QED
  BY <1>1, <1>2, <1>3 DEF Next

LEMMA NextOffered ==
  ASSUME TypeOK, Sessions, Confirmed, OfferedWasReceived, [Next]_vars
  PROVE  OfferedWasReceived'
<1>. SUFFICES ASSUME NEW c \in Clients \ (late' \cup split'), NEW b \in offered'[c]
              PROVE  Dev(c, b) \in granted'
  BY DEF OfferedWasReceived
<1>n. /\ sess \in [Clients -> Conns \cup {None}] /\ wait \in [Clients -> Msgs \cup {None}]
      /\ offered \in [Clients -> SUBSET Busids]
  BY DEF TypeOK
<1>. USE DEF serverVars, clientVars, usbipVars, targetVars
<1>1. CASE Server \/ Kernel \/ UNCHANGED vars
  <2>1. UNCHANGED <<offered, late>> /\ split \subseteq split' /\ granted \subseteq granted'
    BY <1>1
    DEF Server, ServerRun, Accept, ReadLine, EndSession, AttachOk, AttachFails, ListFound,
        ListNotFound, DetachOk, DetachFails, WriteReply, WriteFails, CtrlC, StopServer,
        CrashServer, ServerGone, StartServer, Import, Release, Kernel, LinkDown, Show, ChildAttach, ChildDetach, vars
  <2>. QED
    BY <2>1 DEF OfferedWasReceived
<1>2. ASSUME NEW d \in Clients, Client(d), c # d PROVE Dev(c, b) \in granted'
  BY <1>2, <1>n, OtherClient DEF OfferedWasReceived
<1>3. CASE Client(c)
  <2>1. CASE Exit(c)
    BY <2>1, <1>n DEF Exit
  <2>2. CASE \E m \in Msgs : Send(c, m)
    <3>1. PICK m \in Msgs : Send(c, m)
      BY <2>2
    <3>2. b \in offered[c] /\ Dev(c, b) \in granted
      BY <3>1 DEF Send, OfferedWasReceived
    <3>3. m.type = "OFFER" => Dev(c, m.bus) # Dev(c, b)
      BY <3>1, <3>2 DEF Send, Dev
    <3>. QED
      BY <3>1, <3>2, <3>3 DEF Send
  <2>3. CASE Receive(c)
    <3>1. UNCHANGED <<granted, late, split>> /\ wait[c] # None
      BY <2>3 DEF Receive
    <3>2. CASE b \in offered[c]
      BY <3>1, <3>2 DEF OfferedWasReceived
    <3>3. CASE b \notin offered[c]
      <4>1. /\ wait[c].type = "OFFER" /\ Head(conn[sess[c]].s2c).kind = "OK"
            /\ conn[sess[c]].s2c # <<>> /\ b = wait[c].bus
        BY <2>3, <3>3, <1>n DEF Receive
      <4>. QED
        BY <4>1, <3>1 DEF Confirmed, ConfirmedFor
    <3>. QED
      BY <3>2, <3>3
  <2>4. CASE Connect(c) \/ Disconnect(c) \/ Closed(c) \/ Timeout(c)
             \/ \E gone \in SUBSET Busids : Forget(c, gone)
    <3>1. /\ granted' = granted /\ late \subseteq late' /\ split' = split
          /\ b \in offered[c]
      BY <2>4, <1>n DEF Connect, Disconnect, Closed, Timeout, Forget
    <3>. QED
      BY <3>1 DEF OfferedWasReceived
  <2>. QED
    BY <1>3, <2>1, <2>2, <2>3, <2>4 DEF Client
<1>. QED
  BY <1>1, <1>2, <1>3 DEF Next

\* As long as no request of a client timed out and no error reply to it had
\* several lines, every device it reports as attached was imported by the
\* server in answer to the OFFER of that device.
THEOREM OfferedReceived == Spec => []OfferedWasReceived
<1>1. Init => Answers /\ InStep /\ Confirmed /\ OfferedWasReceived
  BY DEF Init, Answers, InStep, Confirmed, ConfirmedFor, OfferedWasReceived
<1>2. TypeOK /\ Sessions /\ Answers /\ InStep /\ Confirmed /\ OfferedWasReceived
        /\ [Next]_vars => (Answers /\ InStep /\ Confirmed /\ OfferedWasReceived)'
  BY NextAnswers, NextInStep, NextConfirmed, NextOffered
<1>. QED
  BY <1>1, <1>2, SessionsCorrect, PTL DEF Spec
=============================================================================
