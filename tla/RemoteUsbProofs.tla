-------------------------- MODULE RemoteUsbProofs ---------------------------
(***************************************************************************)
(* The attach commands are clients as ControlPlane allows them: what is    *)
(* proved there of any client holds of the whole system.                   *)
(***************************************************************************)
EXTENDS RemoteUsb, OrderProofs

\* What a program can send is a request.
LEMMA SentIsRequest ==
  ASSUME NEW c \in Clients, NEW m \in {Offer(dev[c]), Revoke(dev[c])}, Send(c, m)
  PROVE  m \in Msgs
<1>1. m.type \in {"OFFER", "REVOKE"} /\ m.bus = dev[c]
  BY DEF Offer, Revoke
<1>2. Dev(c, m.bus) \in Devices
  BY <1>1 DEF Send
<1>3. dev[c] \in Busids
  BY <1>1, <1>2, ControlPlaneAssumption DEF ControlPlaneAssumption, Dev
<1>. QED
  BY <1>3 DEF Msgs, Offer, Revoke

LEMMA AskStep ==
  ASSUME NEW c \in Clients, NEW m \in {Offer(dev[c]), Revoke(dev[c])},
         NEW asked, NEW failed, Ask(c, m, asked, failed)
  PROVE  Client(c) \/ UNCHANGED vars
BY SentIsRequest DEF Ask, Client

LEMMA UnlinkStep ==
  ASSUME NEW d, Unlink(d) PROVE Kernel \/ UNCHANGED vars
BY DEF Unlink, Kernel

LEMMA OneStep ==
  ASSUME NEW c \in Clients, AttachOneStep(c) PROVE Client(c) \/ Kernel \/ UNCHANGED vars
<1>1. CASE OneSelect(c) \/ OneBind(c) \/ OneHold(c)
  BY <1>1 DEF OneSelect, OneBind, BindOk, OneHold, Local
<1>2. CASE OneConnect(c) \/ OneRedial(c)
  BY <1>2 DEF OneConnect, OneRedial, Dial, Client
<1>3. CASE OneOffer(c) \/ OneRevoke(c)
  BY <1>3, AskStep DEF OneOffer, OneRevoke
<1>4. CASE OneAccepted(c) \/ OneRevoked(c)
  BY <1>4 DEF OneAccepted, OneRevoked, Result, Answered, Client
<1>5. CASE OneHangUp(c, "accepted", "hold") \/ OneHangUp(c, "revoked", "unbind")
  BY <1>5 DEF OneHangUp, Client
<1>6. CASE OneUnbind(c)
  BY <1>6, UnlinkStep DEF OneUnbind, UnbindDevice
<1>. QED
  BY <1>1, <1>2, <1>3, <1>4, <1>5, <1>6 DEF AttachOneStep

LEMMA AutoStep ==
  ASSUME NEW c \in Clients, AttachAutoStep(c) PROVE Client(c) \/ Kernel \/ UNCHANGED vars
<1>1. CASE \/ AutoTop(c) \/ AutoList(c) \/ AutoListFails(c) \/ AutoPick(c)
           \/ AutoCycleEnds(c) \/ AutoBind(c) \/ AutoLeave(c)
  BY <1>1 DEF AutoTop, AutoList, AutoListFails, AutoPick, AutoCycleEnds, AutoBind, BindOk,
              AutoLeave, Local
<1>2. CASE AutoConnect(c) \/ AutoReconnect(c)
  BY <1>2 DEF AutoConnect, AutoReconnect, Dial, Client
<1>3. CASE AutoOffer(c) \/ AutoRevoke(c)
  BY <1>3, AskStep DEF AutoOffer, AutoRevoke
<1>4. CASE AutoOffered(c) \/ AutoRevoked(c)
  BY <1>4 DEF AutoOffered, AutoRevoked, Result, Answered, Client
<1>5. CASE AutoRetain(c)
  BY <1>5 DEF AutoRetain, Client
<1>6. CASE AutoUnbind(c)
  BY <1>6, UnlinkStep DEF AutoUnbind, UnbindDevice
<1>. QED
  BY <1>1, <1>2, <1>3, <1>4, <1>5, <1>6 DEF AttachAutoStep

LEMMA SystemStep == [SystemNext]_systemVars => [Next]_vars
<1>. SUFFICES ASSUME [SystemNext]_systemVars PROVE Next \/ UNCHANGED vars
  OBVIOUS
<1>1. CASE Lift(Server) \/ Lift(Kernel)
  BY <1>1 DEF Lift, Next
<1>2. CASE Host
  BY <1>2, UnlinkStep DEF Host, Plug, Unplug, Unbind, Next
<1>3. ASSUME NEW c \in Clients, Process(c) PROVE Next \/ UNCHANGED vars
  BY <1>3 DEF Process, Launch, Return, Kill, Gone, Interrupt, Client, Next
<1>4. ASSUME NEW c \in Clients, Program(c) PROVE Next \/ UNCHANGED vars
  BY <1>4, OneStep, AutoStep DEF Program, Next
<1>5. CASE UNCHANGED systemVars
  BY <1>5 DEF systemVars
<1>. QED
  BY <1>1, <1>2, <1>3, <1>4, <1>5 DEF SystemNext

\* Every run of the system, with either attach command on every client, is a
\* run of the control plane, so its theorems hold of the system.
THEOREM SystemImplementsControlPlane == SystemSpec => Spec
<1>1. SystemInit => Init
  BY DEF SystemInit
<1>. QED
  BY <1>1, SystemStep, PTL DEF SystemSpec, Spec

\* In the whole system, too, a device that a client reports as attached was
\* imported for its OFFER, as long as none of the client's requests timed out
\* and no error reply to it had several lines.
THEOREM SystemOffered == SystemSpec => []OfferedWasReceived
BY SystemImplementsControlPlane, OfferedReceived

\* In the whole system, too, `usbip detach` meets the revoked busid, a free
\* port or one that an orphan attach command filled in between, whatever the
\* attach commands and the people at the hosts do.
THEOREM SystemDetaches == SystemSpec => []DetachesRevokedBusid
BY SystemImplementsControlPlane, DetachesRevoked

\* Of the attach commands, too, the server takes up the requests in the order
\* they were sent, over the one session of attach_auto and over the one
\* connection per message of attach_one.
THEOREM SystemInOrder == SystemSpec => InOrder
BY SystemImplementsControlPlane, RequestsInOrder

-----------------------------------------------------------------------------
(***************************************************************************)
(* Types of the programs and their hosts.                                  *)
(***************************************************************************)

\* What leaves the programs and the hosts alone.
LEMMA HostType ==
  ASSUME ProgTypeOK, Host PROVE ProgTypeOK'
<1>. USE DEF progVars, ProgTypeOK
<1>1. ASSUME NEW d \in Devices, Plug(d) PROVE ProgTypeOK'
  BY <1>1 DEF Plug
<1>2. ASSUME NEW d \in Devices, Unplug(d) PROVE ProgTypeOK'
  BY <1>2 DEF Unplug
<1>3. ASSUME NEW d \in Devices, Unbind(d) PROVE ProgTypeOK'
  BY <1>3 DEF Unbind
<1>. QED
  BY <1>1, <1>2, <1>3 DEF Host

LEMMA ProcessType ==
  ASSUME ProgTypeOK, NEW c \in Clients, Process(c) PROVE ProgTypeOK'
<1>. USE DEF ProgTypeOK
<1>1. CASE Launch(c)
  BY <1>1 DEF Launch, Goto
<1>2. CASE Return(c)
  BY <1>2 DEF Return, Gone, Goto
<1>3. CASE Kill(c)
  BY <1>3 DEF Kill, Gone, Goto
<1>4. CASE Interrupt(c)
  BY <1>4 DEF Interrupt
<1>. QED
  BY <1>1, <1>2, <1>3, <1>4 DEF Process

LEMMA OneType ==
  ASSUME ProgTypeOK, NEW c \in Clients, AttachOneStep(c) PROVE ProgTypeOK'
<1>. USE DEF ProgTypeOK, Goto, hostVars
<1>1. CASE OneSelect(c)
  BY <1>1 DEF OneSelect
<1>2. CASE OneBind(c)
  BY <1>2 DEF OneBind, BindOk, Local
<1>3. CASE OneConnect(c) \/ OneRedial(c)
  BY <1>3 DEF OneConnect, OneRedial, Dial
<1>4. CASE OneOffer(c) \/ OneRevoke(c)
  BY <1>4 DEF OneOffer, OneRevoke, Ask
<1>5. CASE OneAccepted(c) \/ OneRevoked(c)
  BY <1>5 DEF OneAccepted, OneRevoked, Result
<1>6. CASE OneHangUp(c, "accepted", "hold") \/ OneHangUp(c, "revoked", "unbind") \/ OneHold(c)
  BY <1>6 DEF OneHangUp, OneHold, Local
<1>7. CASE OneUnbind(c)
  BY <1>7 DEF OneUnbind, UnbindDevice
<1>. QED
  BY <1>1, <1>2, <1>3, <1>4, <1>5, <1>6, <1>7 DEF AttachOneStep

LEMMA AutoType ==
  ASSUME TypeOK, ProgTypeOK, NEW c \in Clients, AttachAutoStep(c) PROVE ProgTypeOK'
<1>. USE DEF ProgTypeOK, Goto, hostVars
<1>1. CASE AutoTop(c)
  <2>1. UNCHANGED <<going, plugged, bound, usbipd>> /\ dev' = [dev EXCEPT ![c] = None]
    BY <1>1 DEF AutoTop
  <2>2. pc' = [pc EXCEPT ![c] = "list"] \/ pc' = [pc EXCEPT ![c] = "leave"]
    BY <1>1 DEF AutoTop
  <2>3. todo' = todo \/ todo' = [todo EXCEPT ![c] = offered[c]]
    BY <1>1 DEF AutoTop
  <2>4. offered[c] \subseteq Busids
    BY DEF TypeOK
  <2>. QED
    BY <2>1, <2>2, <2>3, <2>4
<1>2. CASE AutoList(c) \/ AutoListFails(c) \/ AutoRetain(c)
  BY <1>2 DEF AutoList, AutoListFails, AutoRetain, Local
<1>3. CASE AutoPick(c) \/ AutoCycleEnds(c) \/ AutoLeave(c)
  BY <1>3 DEF AutoPick, AutoCycleEnds, AutoLeave, Local
<1>4. CASE AutoBind(c)
  BY <1>4 DEF AutoBind, BindOk, Local
<1>5. CASE AutoConnect(c) \/ AutoReconnect(c)
  BY <1>5 DEF AutoConnect, AutoReconnect, Dial
<1>6. CASE AutoOffer(c) \/ AutoRevoke(c)
  BY <1>6 DEF AutoOffer, AutoRevoke, Ask, AfterRevoke
<1>7. CASE AutoOffered(c) \/ AutoRevoked(c)
  BY <1>7 DEF AutoOffered, AutoRevoked, Result, AfterRevoke
<1>8. CASE AutoUnbind(c)
  BY <1>8 DEF AutoUnbind, UnbindDevice
<1>. QED
  BY <1>1, <1>2, <1>3, <1>4, <1>5, <1>6, <1>7, <1>8 DEF AttachAutoStep

LEMMA NextProgType ==
  ASSUME TypeOK, ProgTypeOK, [SystemNext]_systemVars PROVE ProgTypeOK'
<1>1. CASE Lift(Server) \/ Lift(Kernel) \/ UNCHANGED systemVars
  BY <1>1 DEF Lift, systemVars, progVars, hostVars, ProgTypeOK
<1>2. ASSUME NEW c \in Clients, Program(c) PROVE ProgTypeOK'
  BY <1>2, OneType, AutoType DEF Program
<1>. QED
  BY <1>1, <1>2, HostType, ProcessType DEF SystemNext

\* The programs and the hosts keep their types; only what is plugged in is
\* bound, although it may go between the listing and the bind.
THEOREM ProgTypeCorrect == SystemSpec => []ProgTypeOK
<1>1. SystemInit => ProgTypeOK
  BY DEF SystemInit, ProgInit, ProgTypeOK
<1>2. TypeOK /\ ProgTypeOK /\ [SystemNext]_systemVars => ProgTypeOK'
  BY NextProgType
<1>. QED
  BY <1>1, <1>2, SystemImplementsControlPlane, TypeCorrect, PTL DEF SystemSpec

-----------------------------------------------------------------------------
(***************************************************************************)
(* No stale revoke hits an offered device.                                 *)
(***************************************************************************)

\* A program waits for a reply only where its code does.
Asking ==
  \A c \in Clients : wait[c] # None =>
    At(c, "revoking") \/ (At(c, "await") /\ wait[c].type = "OFFER")

\* A reply of several lines is an error.
LongIsError == Len(reply) > 1 => Head(reply).kind # "OK"

Early == {"off", "list", "bind", "connect", "offer", "await"}

\* attach_one sends one message on each connection, so that it takes the reply
\* for what it is.
Accepting(c) ==
  /\ pc[c] \in Early => offered[c] = {} /\ c \notin late
  /\ pc[c] \in Early \ {"await"} => c \notin split
  /\ pc[c] \in (Early \ {"offer", "await"}) \cup {"hold"} => sess[c] = None
  /\ At(c, "await") =>
       /\ sess[c] # None
       /\ c \in split => conn[sess[c]].s2c # <<>> /\ Head(conn[sess[c]].s2c).kind # "OK"
  /\ pc[c] \in {"accepted", "hold"} => c \notin late \cup split /\ dev[c] \in offered[c]

OneAtATime == \A c \in Clients \ AutoClients : Accepting(c)

LEMMA NextLongIsError ==
  ASSUME TypeOK, LongIsError, [Next]_vars PROVE LongIsError'
<1>. USE DEF LongIsError
<1>1. CASE UNCHANGED reply
  BY <1>1
<1>2. CASE \E l : reply' = <<l>>
  BY <1>2
<1>3. CASE reply' = <<>>
  BY <1>3
<1>4. CASE \E k \in 0..MaxStderr : reply' = ErrReply(k)
  <2>1. PICK k \in Nat : reply' = ErrReply(k)
    BY <1>4, ControlPlaneAssumption DEF ControlPlaneAssumption
  <2>2. Head(ErrReply(k)).kind = "ERR"
    BY DEF ErrReply
  <2>. QED
    BY <2>1, <2>2
<1>. QED
  BY <1>1, <1>2, <1>3, <1>4
  DEF Next, vars, Server, ServerRun, Accept, ReadLine, EndSession, AttachOk, AttachFails,
      ListFound, ListNotFound, DetachOk, DetachFails, WriteReply, WriteFails, CtrlC,
      StopServer, CrashServer, ServerGone, StartServer, Answer, OkReply, serverVars,
      Client, Connect, Disconnect, Send, Receive, Closed, Timeout, Forget, Exit,
      Kernel, LinkDown, Show, ChildAttach, ChildDetach

\* What a program does to its own place, and to that of another.
LEMMA PlaceStep ==
  ASSUME ProgTypeOK, NEW c \in Clients, Process(c) \/ Program(c), NEW d \in Clients, d # c
  PROVE  pc'[d] = pc[d] /\ dev'[d] = dev[d]
<1>. USE DEF ProgTypeOK, Goto, hostVars
<1>1. CASE Process(c)
  BY <1>1 DEF Process, Launch, Return, Kill, Gone, Interrupt
<1>2. CASE AttachOneStep(c)
  BY <1>2 DEF AttachOneStep, OneSelect, OneBind, OneConnect, OneOffer, OneAccepted, OneHangUp,
         OneHold, OneRedial, OneRevoke, OneRevoked, OneUnbind, BindOk, UnbindDevice, Local,
         Dial, Ask, Result
<1>3. CASE AttachAutoStep(c)
  BY <1>3 DEF AttachAutoStep, AutoConnect, AutoTop, AutoList, AutoListFails, AutoRetain,
         AutoPick, AutoCycleEnds, AutoBind, AutoOffer, AutoOffered, AutoReconnect, AutoLeave,
         AutoRevoke, AutoRevoked, AutoUnbind, BindOk, UnbindDevice, Local, Dial, Ask, Result
<1>. QED
  BY <1>1, <1>2, <1>3 DEF Program

\* Nothing but a step of the program touches what concerns its client.
LEMMA OtherProgram ==
  ASSUME TypeOK, Sessions, ProgTypeOK, NEW c \in Clients, Process(c) \/ Program(c),
         NEW d \in Clients, d # c
  PROVE  /\ pc'[d] = pc[d] /\ dev'[d] = dev[d]
         /\ d \in late' <=> d \in late
         /\ d \in split' <=> d \in split
         /\ sess'[d] = sess[d] /\ wait'[d] = wait[d] /\ offered'[d] = offered[d]
         /\ sess[d] # None => conn'[sess[d]] = conn[sess[d]]
<1>1. Client(c) \/ Kernel \/ UNCHANGED vars
  BY OneStep, AutoStep DEF Program, Process, Launch, Return, Kill, Gone, Interrupt, Client
<1>2. CASE Client(c)
  BY <1>2, OtherClient, PlaceStep
<1>3. CASE Kernel \/ UNCHANGED vars
  BY <1>3, PlaceStep DEF Kernel, LinkDown, Show, ChildAttach, ChildDetach, vars, clientVars
<1>. QED
  BY <1>1, <1>2, <1>3

\* What a client waits for after a step of its program.
LEMMA OwnAsking ==
  ASSUME TypeOK, ProgTypeOK, Asking, NEW c \in Clients, Process(c) \/ Program(c),
         wait'[c] # None
  PROVE  pc'[c] = "revoking" \/ (pc'[c] = "await" /\ wait'[c].type = "OFFER")
<1>n. /\ DOMAIN pc = Clients /\ wait \in [Clients -> Msgs \cup {None}]
      /\ wait[c] # None => At(c, "revoking") \/ (At(c, "await") /\ wait[c].type = "OFFER")
  BY DEF TypeOK, ProgTypeOK, Asking
<1>. USE DEF At, Goto
<1>k. ASSUME wait'[c] = wait[c], pc'[c] = pc[c] \/ pc[c] \notin {"await", "revoking"}
      PROVE  pc'[c] = "revoking" \/ (pc'[c] = "await" /\ wait'[c].type = "OFFER")
  BY <1>k, <1>n
<1>d. ASSUME NEW to, NEW failed, Dial(c, to, failed), pc[c] \notin {"await", "revoking"}
      PROVE  wait'[c] = wait[c]
  BY <1>d DEF Dial, Connect, vars, clientVars
<1>r. ASSUME NEW ok, NEW err, Result(c, ok, err) PROVE FALSE
  BY <1>r, <1>n DEF Result, Answered, Receive, Closed, Timeout
<1>u. ASSUME NEW d, Unlink(d) PROVE wait' = wait
  BY <1>u DEF Unlink, LinkDown, vars, clientVars
<1>o. ASSUME NEW failed, Ask(c, Offer(dev[c]), "await", failed), At(c, "offer")
      PROVE  pc'[c] = "revoking" \/ (pc'[c] = "await" /\ wait'[c].type = "OFFER")
  BY <1>o, <1>n DEF Ask, Send, Offer, vars, clientVars
<1>v. ASSUME NEW failed, Ask(c, Revoke(dev[c]), "revoking", failed),
             pc[c] \notin {"await", "revoking"}
      PROVE  pc'[c] = "revoking" \/ (pc'[c] = "await" /\ wait'[c].type = "OFFER")
  BY <1>v, <1>n DEF Ask, vars, clientVars
<1>1. CASE Process(c)
  <2>1. CASE Launch(c) \/ Interrupt(c)
    BY <2>1, <1>k, <1>n DEF Launch, Interrupt, vars, clientVars
  <2>2. CASE Return(c) \/ Kill(c)
    BY <2>2, <1>n DEF Return, Kill, Gone, Exit
  <2>. QED
    BY <1>1, <2>1, <2>2 DEF Process
<1>2. CASE AttachOneStep(c)
  <2>1. CASE OneSelect(c) \/ OneBind(c) \/ OneHold(c)
    BY <2>1, <1>k, <1>n DEF OneSelect, OneBind, BindOk, OneHold, Local, vars, clientVars
  <2>2. CASE OneConnect(c) \/ OneRedial(c)
    BY <2>2, <1>d, <1>k DEF OneConnect, OneRedial
  <2>3. CASE OneOffer(c) \/ OneRevoke(c)
    BY <2>3, <1>o, <1>v DEF OneOffer, OneRevoke
  <2>4. CASE OneAccepted(c) \/ OneRevoked(c)
    BY <2>4, <1>r DEF OneAccepted, OneRevoked
  <2>5. CASE OneHangUp(c, "accepted", "hold") \/ OneHangUp(c, "revoked", "unbind")
    BY <2>5, <1>k DEF OneHangUp, Disconnect
  <2>6. CASE OneUnbind(c)
    BY <2>6, <1>k, <1>u DEF OneUnbind, UnbindDevice, vars, clientVars
  <2>. QED
    BY <1>2, <2>1, <2>2, <2>3, <2>4, <2>5, <2>6 DEF AttachOneStep
<1>3. CASE AttachAutoStep(c)
  <2>1. CASE \/ AutoTop(c) \/ AutoList(c) \/ AutoListFails(c) \/ AutoPick(c)
             \/ AutoCycleEnds(c) \/ AutoBind(c) \/ AutoLeave(c) \/ AutoRetain(c)
    BY <2>1, <1>k DEF AutoTop, AutoList, AutoListFails, AutoPick, AutoCycleEnds, AutoBind,
         BindOk, AutoLeave, AutoRetain, Forget, Local, vars, clientVars
  <2>2. CASE AutoConnect(c) \/ AutoReconnect(c)
    BY <2>2, <1>d, <1>k DEF AutoConnect, AutoReconnect
  <2>3. CASE AutoOffer(c) \/ AutoRevoke(c)
    BY <2>3, <1>o, <1>v DEF AutoOffer, AutoRevoke
  <2>4. CASE AutoOffered(c) \/ AutoRevoked(c)
    BY <2>4, <1>r DEF AutoOffered, AutoRevoked
  <2>5. CASE AutoUnbind(c)
    BY <2>5, <1>k, <1>u DEF AutoUnbind, UnbindDevice, vars, clientVars
  <2>. QED
    BY <1>3, <2>1, <2>2, <2>3, <2>4, <2>5 DEF AttachAutoStep
<1>. QED
  BY <1>1, <1>2, <1>3 DEF Program

\* The server, its kernel and the people at the hosts leave the programs alone.
LEMMA QuietStep ==
  ASSUME Lift(Server) \/ Lift(Kernel) \/ Host \/ UNCHANGED systemVars
  PROVE  /\ UNCHANGED <<progVars, sess, wait, offered, late>>
         /\ Server \/ UNCHANGED <<conn, split>>
<1>1. CASE Lift(Server)
  BY <1>1 DEF Lift, Server, ServerRun, Accept, ReadLine, EndSession, AttachOk, AttachFails,
       ListFound, ListNotFound, DetachOk, DetachFails, WriteReply, WriteFails, CtrlC,
       StopServer, CrashServer, ServerGone, StartServer, clientVars
<1>2. CASE Lift(Kernel)
  BY <1>2 DEF Lift, Kernel, LinkDown, Show, ChildAttach, ChildDetach, clientVars
<1>3. CASE Host
  BY <1>3 DEF Host, Plug, Unplug, Unbind, Unlink, LinkDown, vars, clientVars
<1>4. CASE UNCHANGED systemVars
  BY <1>4 DEF systemVars, vars, clientVars
<1>. QED
  BY <1>1, <1>2, <1>3, <1>4

LEMMA NextAsking ==
  ASSUME TypeOK, Sessions, ProgTypeOK, Asking, [SystemNext]_systemVars PROVE Asking'
<1>1. CASE Lift(Server) \/ Lift(Kernel) \/ Host \/ UNCHANGED systemVars
  BY <1>1, QuietStep DEF Asking, At, progVars
<1>2. ASSUME NEW c \in Clients, Process(c) \/ Program(c) PROVE Asking'
  <2>. SUFFICES ASSUME NEW d \in Clients, wait'[d] # None
                PROVE  pc'[d] = "revoking" \/ (pc'[d] = "await" /\ wait'[d].type = "OFFER")
    BY DEF Asking, At
  <2>1. CASE d = c
    BY <1>2, <2>1, OwnAsking
  <2>2. CASE d # c
    BY <1>2, <2>2, OtherProgram DEF Asking, At
  <2>. QED
    BY <2>1, <2>2
<1>. QED
  BY <1>1, <1>2 DEF SystemNext

\* What the client has not read yet stays, and new lines follow it.
LEMMA LinesFollow ==
  ASSUME TypeOK, Sessions, Server, NEW i \in Conns, conn[i].cliOpen
  PROVE  \/ conn'[i].s2c = conn[i].s2c
         \/ WriteReply /\ i = cur /\ conn'[i].s2c = conn[i].s2c \o reply
<1>s. conn[i] \in Slots
  BY DEF TypeOK
<1>1. CASE StopServer \/ CrashServer
  BY <1>1, <1>s, ClosedFields DEF StopServer, CrashServer, ServerGone
<1>2. CASE EndSession \/ WriteFails
  <2>1. conn'[i] \in {conn[i], SrvClosed(conn[i])}
    BY <1>2 DEF EndSession, WriteFails, TypeOK
  <2>. QED
    BY <2>1, <1>s, ClosedFields
<1>3. CASE ReadLine
  BY <1>3, <1>s DEF ReadLine, Slots, TypeOK
<1>4. CASE WriteReply
  <2>1. CASE i = cur
    BY <1>4, <2>1, <1>s DEF WriteReply, Slots, TypeOK
  <2>2. CASE i # cur
    BY <1>4, <2>2 DEF WriteReply, TypeOK
  <2>. QED
    BY <2>1, <2>2
<1>5. CASE UNCHANGED conn
  BY <1>5
<1>. QED
  BY <1>1, <1>2, <1>3, <1>4, <1>5
  DEF Server, ServerRun, Accept, AttachOk, AttachFails, ListFound, ListNotFound, DetachOk,
      DetachFails, CtrlC, StartServer

LEMMA FirstStays ==
  ASSUME NEW S, NEW q \in Seq(S), q # <<>>, NEW r \in Seq(S)
  PROVE  q \o r # <<>> /\ Head(q \o r) = Head(q)
<1>1. Len(q) \in Nat \ {0} /\ Len(r) \in Nat
  BY EmptySeq
<1>2. Len(q \o r) = Len(q) + Len(r) /\ (q \o r)[1] = q[1]
  BY <1>1
<1>. QED
  BY <1>1, <1>2

LEMMA ServerAccepting ==
  ASSUME TypeOK, Sessions, InStep, LongIsError, Asking, Server,
         UNCHANGED <<pc, dev, sess, offered, late>>,
         NEW c \in Clients, Accepting(c)
  PROVE  Accepting(c)'
<1>. USE DEF At, Early
<1>n. /\ None \notin Conns /\ sess[c] \in Conns \cup {None}
      /\ sess[c] # None => conn[sess[c]].cliOpen /\ conn[sess[c]] \in Slots
      /\ reply \in Seq(Lines)
  BY ControlPlaneAssumption DEF ControlPlaneAssumption, TypeOK, Sessions, Held
<1>l. ASSUME sess[c] # None
      PROVE  /\ conn[sess[c]].s2c \in Seq(Lines)
             /\ \/ conn'[sess[c]].s2c = conn[sess[c]].s2c
                \/ WriteReply /\ sess[c] = cur /\ conn'[sess[c]].s2c = conn[sess[c]].s2c \o reply
  BY <1>l, <1>n, LinesFollow DEF Slots
<1>1. CASE c \notin split /\ c \in split'
  <2>1. WriteReply /\ conn[cur].cliOpen /\ conn[cur].cl = c /\ Len(reply) > 1
    BY <1>1
    DEF Server, ServerRun, Accept, ReadLine, EndSession, AttachOk, AttachFails,
       ListFound, ListNotFound, DetachOk, DetachFails, WriteReply, WriteFails, CtrlC,
       StopServer, CrashServer, ServerGone, StartServer
  <2>2. cur \in Conns /\ sess[c] = cur /\ conn[cur].srvOpen /\ msg # None
    BY <2>1 DEF WriteReply, TypeOK, Sessions, InScope, Held, Queued, Busy
  <2>3. Handling(sess[c]) /\ sess[c] # None
    BY <2>2, <1>n DEF Handling
  <2>4. ASSUME c \notin late PROVE wait[c] # None /\ conn[sess[c]].s2c = <<>>
    <3>1. InStepOn(c, sess[c])
      BY <1>1, <2>3, <2>4 DEF InStep
    <3>. QED
      BY <3>1, <2>2, <2>3 DEF InStepOn, Quiet, Underway
  <2>5. CASE pc[c] = "await"
    <3>1. conn[sess[c]].s2c = <<>> /\ conn'[sess[c]].s2c = conn[sess[c]].s2c \o reply
      <4>1. conn[sess[c]].s2c = <<>>
        BY <2>4, <2>5 DEF Accepting
      <4>2. conn'[cur].s2c = conn[cur].s2c \o reply
        BY <2>1, <2>2, <1>n DEF WriteReply, Slots, TypeOK
      <4>. QED
        BY <4>1, <4>2, <2>2
    <3>2. conn'[sess[c]].s2c = reply /\ reply # <<>>
      BY <3>1, <2>1, <1>n
    <3>. QED
      BY <3>2, <2>1, <2>5 DEF Accepting, LongIsError
  <2>6. CASE pc[c] # "await"
    BY <2>3, <2>4, <2>6 DEF Accepting, Asking
  <2>. QED
    BY <2>5, <2>6
<1>2. CASE c \in split
  <2>1. ASSUME pc[c] = "await"
        PROVE  conn'[sess[c]].s2c # <<>> /\ Head(conn'[sess[c]].s2c).kind # "OK"
    <3>1. /\ sess[c] # None
          /\ conn[sess[c]].s2c # <<>> /\ Head(conn[sess[c]].s2c).kind # "OK"
      BY <1>2, <2>1 DEF Accepting
    <3>. QED
      BY <3>1, <1>l, <1>n, FirstStays
  <2>. QED
    BY <1>2, <2>1 DEF Accepting
<1>3. CASE c \notin split'
  <2>1. c \notin split
    BY <1>3
    DEF Server, ServerRun, Accept, ReadLine, EndSession, AttachOk, AttachFails,
       ListFound, ListNotFound, DetachOk, DetachFails, WriteReply, WriteFails, CtrlC,
       StopServer, CrashServer, ServerGone, StartServer, clientVars, usbipVars, targetVars
  <2>. QED
    BY <1>3, <2>1 DEF Accepting
<1>. QED
  BY <1>1, <1>2, <1>3

\* One step of attach_one, or of its process.
LEMMA OneAccepting ==
  ASSUME TypeOK, Sessions, ProgTypeOK, NEW c \in Clients, Accepting(c),
         Process(c) \/ AttachOneStep(c), c \notin AutoClients
  PROVE  Accepting(c)'
<1>. USE DEF At, Goto, Early, Accepting, serverVars, clientVars
<1>n. /\ DOMAIN pc = Clients /\ DOMAIN dev = Clients
      /\ sess \in [Clients -> Conns \cup {None}] /\ wait \in [Clients -> Msgs \cup {None}]
      /\ offered \in [Clients -> SUBSET Busids]
  BY DEF TypeOK, ProgTypeOK
<1>p. ASSUME pc'[c] \notin Early \cup {"accepted", "hold"} PROVE Accepting(c)'
  BY <1>p
<1>u. ASSUME NEW d, Unlink(d) PROVE UNCHANGED <<sess, offered, late, split>>
  BY <1>u DEF Unlink, LinkDown, vars
<1>1. CASE Launch(c)
  BY <1>1, <1>n DEF Launch, vars
<1>2. CASE Return(c) \/ Kill(c)
  BY <1>2, <1>n DEF Return, Kill, Gone, Exit
<1>3. CASE Interrupt(c)
  BY <1>3 DEF Interrupt, vars
<1>4. CASE OneSelect(c) \/ OneBind(c)
  BY <1>4, <1>n DEF OneSelect, OneBind, BindOk, Local, vars
<1>5. CASE OneConnect(c)
  BY <1>5, <1>n DEF OneConnect, Dial, Connect, vars
<1>6. CASE OneOffer(c)
  BY <1>6, <1>n DEF OneOffer, Ask, Send, vars
<1>7. CASE OneAccepted(c)
  <2>1. CASE Receive(c) /\ dev[c] \in offered'[c]
    BY <1>7, <2>1, <1>n DEF OneAccepted, Result, Receive
  <2>2. CASE dev[c] \notin offered'[c]
    BY <1>7, <2>2, <1>n, <1>p DEF OneAccepted, Result
  <2>3. CASE Closed(c) \/ Timeout(c)
    BY <1>7, <2>3, <1>n, <1>p DEF OneAccepted, Result, Closed, Timeout
  <2>. QED
    BY <1>7, <2>1, <2>2, <2>3 DEF OneAccepted, Result, Answered
<1>8. CASE OneHangUp(c, "accepted", "hold")
  BY <1>8, <1>n DEF OneHangUp, Disconnect
<1>9. CASE \/ OneHold(c) \/ OneRedial(c) \/ OneRevoke(c) \/ OneRevoked(c)
           \/ OneHangUp(c, "revoked", "unbind") \/ OneUnbind(c)
  BY <1>9, <1>n, <1>p DEF OneHold, OneRedial, OneRevoke, OneRevoked, OneHangUp, OneUnbind,
     UnbindDevice, Local, Dial, Ask, Result
<1>. QED
  BY <1>1, <1>2, <1>3, <1>4, <1>5, <1>6, <1>7, <1>8, <1>9 DEF Process, AttachOneStep

LEMMA NextOneAtATime ==
  ASSUME TypeOK, Sessions, InStep, LongIsError, ProgTypeOK, Asking, OneAtATime,
         [SystemNext]_systemVars
  PROVE  OneAtATime'
<1>. SUFFICES ASSUME NEW c \in Clients \ AutoClients PROVE Accepting(c)'
  BY DEF OneAtATime
<1>a. Accepting(c)
  BY DEF OneAtATime
<1>1. CASE Lift(Server) \/ Lift(Kernel) \/ Host \/ UNCHANGED systemVars
  <2>1. UNCHANGED <<pc, dev, sess, offered, late>> /\ (Server \/ UNCHANGED <<conn, split>>)
    BY <1>1, QuietStep DEF progVars
  <2>2. CASE UNCHANGED <<conn, split>>
    BY <2>1, <2>2, <1>a DEF Accepting, At
  <2>. QED
    BY <2>1, <2>2, <1>a, ServerAccepting
<1>2. ASSUME NEW d \in Clients, Process(d) \/ Program(d) PROVE Accepting(c)'
  <2>1. CASE d = c
    BY <1>2, <2>1, <1>a, OneAccepting DEF Program
  <2>2. CASE d # c
    <3>1. /\ pc'[c] = pc[c] /\ dev'[c] = dev[c]
          /\ c \in late' <=> c \in late
          /\ c \in split' <=> c \in split
          /\ sess'[c] = sess[c] /\ offered'[c] = offered[c]
          /\ sess[c] # None => conn'[sess[c]] = conn[sess[c]]
      BY <1>2, <2>2, OtherProgram
    <3>. QED
      BY <3>1, <1>a DEF Accepting, At
  <2>. QED
    BY <2>1, <2>2
<1>. QED
  BY <1>1, <1>2 DEF SystemNext

\* A program waits only where its code does, and attach_one has at most one
\* request under way in a run.
THEOREM ProgramsCorrect == SystemSpec => [](Asking /\ OneAtATime)
<1>1. SystemInit => LongIsError /\ Asking /\ OneAtATime
  BY DEF SystemInit, Init, ProgInit, LongIsError, Asking, OneAtATime, Accepting, Early, At
<1>2. TypeOK /\ Sessions /\ InStep /\ LongIsError /\ ProgTypeOK /\ Asking /\ OneAtATime
        /\ [SystemNext]_systemVars
      => (LongIsError /\ Asking /\ OneAtATime)'
  BY SystemStep, NextLongIsError, NextAsking, NextOneAtATime
<1>. QED
  BY <1>1, <1>2, SystemImplementsControlPlane, SessionsCorrect, StaysInStep, ProgTypeCorrect,
     PTL DEF SystemSpec

\* The device at the port about to be detached is not on offer: its client
\* would be settled, so that the REVOKE came on its present session, and in
\* step, so that it would be waiting for the reply.
LEMMA RevokeIsWanted ==
  ASSUME TypeOK, Sessions, InStep, Settled, ProgTypeOK, Asking, OneAtATime
  PROVE  NoStaleRevoke
<1>. SUFFICES ASSUME spc = "detach", NEW d \in Devices, d = vhci[target], OnOffer(d),
                     NEW c \in Clients, c = d.cl, c = conn[cur].cl
              PROVE  FALSE
  BY ControlPlaneAssumption
  DEF NoStaleRevoke, TypeOK, Sessions, InScope, ControlPlaneAssumption
<1>1. /\ target \in Ports /\ cur \in Conns /\ conn[cur].srvOpen
      /\ msg # None /\ msg.type = "REVOKE"
  BY ControlPlaneAssumption
  DEF TypeOK, Sessions, InScope, Queued, Busy, ControlPlaneAssumption
<1>4. Handling(cur)
  BY <1>1 DEF Handling
<1>5. offered[c] # {} /\ c \notin late \cup split /\ pc[c] # "revoking"
  <2>1. CASE c \in AutoClients
    BY <2>1 DEF OnOffer, Leaving
  <2>2. CASE c \notin AutoClients
    <3>1. Accepting(c) /\ pc[c] \in {"accepted", "hold"}
      BY <2>2 DEF OnOffer, OneAtATime
    <3>. QED
      BY <3>1 DEF Accepting
  <2>. QED
    BY <2>1, <2>2
<1>6. cur = sess[c]
  BY <1>1, <1>4, <1>5 DEF Settled
<1>7. InStepOn(c, cur)
  BY <1>1, <1>5, <1>6, ControlPlaneAssumption DEF InStep, ControlPlaneAssumption
<1>8. wait[c] # None /\ wait[c] = msg
  BY <1>1, <1>4, <1>6, <1>7 DEF InStepOn, Quiet, Underway
<1>. QED
  BY <1>1, <1>5, <1>8 DEF Asking, At

\* A REVOKE that outlived the run or the connection in which it was sent does
\* not detach a device that its own client has had accepted since; that it may
\* detach another client's with the same busid is what PrefersOwnDevice shows.
THEOREM NoStaleRevokes == SystemSpec => []NoStaleRevoke
<1>1. TypeOK /\ Sessions /\ InStep /\ Settled /\ ProgTypeOK /\ Asking /\ OneAtATime
      => NoStaleRevoke
  BY RevokeIsWanted
<1>. QED
  BY <1>1, SystemImplementsControlPlane, SessionsCorrect, StaysInStep, StaysSettled, ProgTypeCorrect, ProgramsCorrect, PTL

-----------------------------------------------------------------------------
(***************************************************************************)
(* What attach_one reports.                                                *)
(***************************************************************************)

\* attach_one reports a device as attached only when the server imported it
\* for that OFFER: time-outs and errors of several lines, which may mislead
\* attach_auto, cannot mislead a program that sends one request on each
\* connection.
THEOREM OneImported == SystemSpec => []OneWasImported
<1>1. OneAtATime /\ OfferedWasReceived => OneWasImported
  BY DEF OneAtATime, Accepting, OfferedWasReceived, OneWasImported
<1>. QED
  BY <1>1, SystemOffered, ProgramsCorrect, PTL
=============================================================================
