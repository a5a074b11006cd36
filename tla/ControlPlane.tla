---------------------------- MODULE ControlPlane ----------------------------
(***************************************************************************)
(* The control plane of remote-usb (control.rs): one server process that   *)
(* serves one TCP session at a time, and clients that OFFER and REVOKE     *)
(* USB devices over line-based request/reply sessions.  The server acts on *)
(* the requests by running the usbip tool against the vhci ports of its    *)
(* kernel.                                                                 *)
(*                                                                         *)
(* The server is modelled step by step.  A client is any program that uses *)
(* the client half of control.rs (connect, send one request, wait for one  *)
(* reply line, give up after the read timeout); which requests it chooses  *)
(* to send is left open here and is fixed by the modules of the two attach *)
(* commands.  The kernels, TCP and usbip are external: they are modelled   *)
(* by the outcomes the code has to cope with.                              *)
(***************************************************************************)
EXTENDS Integers, Sequences, FiniteSets

CONSTANTS
  Clients,    \* client hosts, each running at most one attach process
  Busids,     \* bus ids, e.g. "1-6"
  Devices,    \* the physical devices: a set of [cl, bus] records
  Ports,      \* the vhci port numbers of the server
  Conns,      \* names for the TCP connections that exist at one time
  Probes,     \* what other peers may send: a subset of {"PING", "BAD"}
  Orphans,    \* bound: which usbip commands may outlive a crash of the server
  MaxStderr,  \* bound: lines that follow the first one of an error reply
  MaxUnread,  \* bound: requests the server has not read when a client sends more
  MaxLines,   \* bound: reply lines a connection holds for its client to read
  None        \* "no connection", "no message", "free port", ...

Msgs == [type : {"OFFER", "REVOKE"}, bus : Busids]
          \cup [type : Probes, bus : {None}]

\* A line from the server.  "TEXT" is a line of an error text that follows
\* the "ERR ..." line; re is the request whose handling produced the line.
Lines == [kind : {"OK", "ERR", "TEXT"}, re : Msgs]

ASSUME ControlPlaneAssumption ==
  /\ Devices \subseteq [cl : Clients, bus : Busids]
  /\ Ports \subseteq Nat /\ IsFiniteSet(Ports)
  /\ Probes \subseteq {"PING", "BAD"}
  /\ Orphans \subseteq {"attach", "detach"}
  /\ MaxStderr \in Nat \ {0} /\ MaxUnread \in Nat \ {0}
  /\ MaxLines \in Nat /\ MaxLines > MaxStderr
  /\ None \notin Clients /\ None \notin Busids /\ None \notin Devices
  /\ None \notin Ports /\ None \notin Conns /\ None \notin Msgs

VARIABLES
  spc,       \* where the server is in run_server / handle_client_session
  running,   \* the server's Ctrl+C flag
  backlog,   \* connections the listener has not accepted yet, oldest first
  cur,       \* the connection of the session being served
  msg,       \* the request being handled
  reply,     \* the reply lines to be written
  target,    \* the port that revoke_from_client is about to detach
  conn,      \* the connections: both directions and which ends are open
  sess,      \* the connection a client uses
  wait,      \* the request a client waits for the reply of
  offered,   \* the busids whose OFFER was answered OK, as the client sees it
  vhci,      \* the device imported at each port of the server
  shown,     \* the ports `usbip port` reports in use with their remote busid
  child,     \* the usbip command that outlived a crash of the server, or None
  granted,   \* history: devices imported in answer to the last OFFER of their
             \* client's run while the connection it came over was open
  refilled,  \* history: since target was listed, such a command filled it again
  late,      \* history: clients one of whose requests timed out
  split      \* history: clients that were sent an error of several lines

targetVars == <<target, refilled>>
serverVars == <<spc, running, cur, msg, reply, targetVars>>
clientVars == <<sess, wait, offered, late>>
usbipVars  == <<vhci, shown, child, granted>>
vars == <<serverVars, backlog, conn, clientVars, usbipVars, split>>

Offer(b)  == [type |-> "OFFER", bus |-> b]
Revoke(b) == [type |-> "REVOKE", bus |-> b]
Dev(c, b) == [cl |-> c, bus |-> b]

\* The two usbip commands that change the ports.
AttachOf(d) == [op |-> "attach", dev |-> d, port |-> None]
DetachOf(p) == [op |-> "detach", dev |-> None, port |-> p]
Commands == {AttachOf(d) : d \in Devices} \cup {DetachOf(p) : p \in Ports}

\* A connection: whose it is, what is unread at either end, which ends are open.
Slots == [cl : Clients \cup {None}, c2s : Seq(Msgs), s2c : Seq(Lines),
          cliOpen : BOOLEAN, srvOpen : BOOLEAN]

FreeSlot == [cl |-> None, c2s |-> <<>>, s2c |-> <<>>,
             cliOpen |-> FALSE, srvOpen |-> FALSE]
OpenConn(c) == [cl |-> c, c2s |-> <<>>, s2c |-> <<>>,
                cliOpen |-> TRUE, srvOpen |-> TRUE]

\* What is left of connection r when its client / the server closes its end.
\* Lines the other end has received but not read stay readable there.
CliClosed(r) == IF r.srvOpen THEN [r EXCEPT !.cliOpen = FALSE, !.s2c = <<>>]
                             ELSE FreeSlot
SrvClosed(r) == IF r.cliOpen THEN [r EXCEPT !.srvOpen = FALSE, !.c2s = <<>>]
                             ELSE FreeSlot

TypeOK ==
  /\ spc \in {"accept", "read", "attach", "list", "detach", "reply", "stopped"}
  /\ running \in BOOLEAN
  /\ backlog \in Seq(Conns)
  /\ cur \in Conns \cup {None}
  /\ msg \in Msgs \cup {None}
  /\ reply \in Seq(Lines)
  /\ target \in Ports \cup {None}
  /\ conn \in [Conns -> Slots]
  /\ sess \in [Clients -> Conns \cup {None}]
  /\ wait \in [Clients -> Msgs \cup {None}]
  /\ offered \in [Clients -> SUBSET Busids]
  /\ vhci \in [Ports -> Devices \cup {None}]
  /\ shown \subseteq Ports
  /\ child \in Commands \cup {None}
  /\ granted \subseteq Devices
  /\ refilled \in BOOLEAN
  /\ late \subseteq Clients
  /\ split \subseteq Clients

Init ==
  /\ spc = "accept" /\ running = TRUE
  /\ backlog = <<>> /\ cur = None
  /\ msg = None /\ reply = <<>> /\ target = None
  /\ conn = [i \in Conns |-> FreeSlot]
  /\ sess = [c \in Clients |-> None]
  /\ wait = [c \in Clients |-> None]
  /\ offered = [c \in Clients |-> {}]
  /\ shown = {} /\ child = None /\ granted = {} /\ refilled = FALSE
  /\ vhci = [p \in Ports |-> None]
  /\ late = {} /\ split = {}
-----------------------------------------------------------------------------
(***************************************************************************)
(* usbip on the server's kernel: what `usbip attach`, `usbip port` and     *)
(* `usbip detach` do when they succeed.                                    *)
(***************************************************************************)
Import(d, p) ==
  /\ \A q \in Ports : vhci[q] # d
  /\ vhci[p] = None
  /\ vhci' = [vhci EXCEPT ![p] = d]
  /\ UNCHANGED shown

Release(p) ==
  /\ vhci[p] # None
  /\ vhci' = [vhci EXCEPT ![p] = None]
  /\ shown' = shown \ {p}
  /\ UNCHANGED granted

\* Mutant of InUse: the busid of the remote line is not compared.
InUseAnyBusid(b) == {p \in shown : vhci[p] # None}

\* The ports that attached_remote_busids finds for busid b.
InUse(b) == {p \in shown : vhci[p] # None /\ vhci[p].bus = b}
-----------------------------------------------------------------------------
(***************************************************************************)
(* The server.                                                             *)
(***************************************************************************)
OkReply == <<[kind |-> "OK", re |-> msg]>>

\* Error::UsbipFailed puts the command and its stderr on separate lines and
\* format_server_msg does not fold them: "ERR ..." and k further lines, at
\* least one.  k = 0 only when usbip could not be run at all.
ErrReply(k) == [j \in 1..(k + 1) |->
                  [kind |-> IF j = 1 THEN "ERR" ELSE "TEXT", re |-> msg]]

Answer(lines) ==
  /\ reply' = lines
  /\ spc' = "reply"

\* Mutant of Accept: the loop does not look at the Ctrl+C flag.
AcceptAlways ==
  /\ spc = "accept" /\ backlog # <<>>
  /\ cur' = Head(backlog)
  /\ backlog' = Tail(backlog)
  /\ spc' = "read"
  /\ UNCHANGED <<running, msg, reply, targetVars, conn, clientVars, usbipVars, split>>

\* Mutant of Accept: the newest connection is served first.
AcceptNewest ==
  /\ spc = "accept" /\ running /\ backlog # <<>>
  /\ cur' = backlog[Len(backlog)]
  /\ backlog' = SubSeq(backlog, 1, Len(backlog) - 1)
  /\ spc' = "read"
  /\ UNCHANGED <<running, msg, reply, targetVars, conn, clientVars, usbipVars, split>>

Accept ==
  /\ spc = "accept" /\ running /\ backlog # <<>>
  /\ cur' = Head(backlog)
  /\ backlog' = Tail(backlog)
  /\ spc' = "read"
  /\ UNCHANGED <<running, msg, reply, targetVars, conn, clientVars, usbipVars, split>>

ReadLine ==
  /\ spc = "read" /\ conn[cur].c2s # <<>>
  /\ LET m == Head(conn[cur].c2s)
     IN  /\ msg' = m
         /\ \/ m.type = "OFFER"  /\ spc' = "attach" /\ reply' = <<>>
            \/ m.type = "REVOKE" /\ spc' = "list"   /\ reply' = <<>>
            \/ m.type = "PING"   /\ Answer(<<[kind |-> "OK", re |-> m]>>)
            \/ m.type = "BAD"    /\ Answer(<<[kind |-> "ERR", re |-> m]>>)
  /\ conn' = [conn EXCEPT ![cur].c2s = Tail(@)]
  /\ UNCHANGED <<running, backlog, cur, targetVars, clientVars, usbipVars, split>>

\* read_line fails: end of file, no line for 300 seconds, or a reset of a
\* connection whose client end is gone.
EndSession ==
  /\ spc = "read"
  /\ conn[cur].c2s = <<>> \/ ~conn[cur].cliOpen
  /\ conn' = [conn EXCEPT ![cur] = SrvClosed(@)]
  /\ cur' = None
  /\ spc' = "accept"
  /\ UNCHANGED <<running, backlog, msg, reply, targetVars, clientVars, usbipVars, split>>

AttachOk ==
  /\ spc = "attach"
  /\ LET d == Dev(conn[cur].cl, msg.bus)
     IN  /\ \E p \in Ports : Import(d, p)
         /\ granted' = IF conn[cur].cliOpen THEN granted \cup {d} ELSE granted
  /\ Answer(OkReply)
  /\ UNCHANGED <<running, backlog, cur, msg, targetVars, conn, clientVars, child, split>>

\* Mutant of AttachFails: a failed attach is taken for "already attached".
AttachFailsSilently ==
  /\ spc = "attach"
  /\ Answer(OkReply)
  /\ UNCHANGED <<running, backlog, cur, msg, targetVars, conn, clientVars, usbipVars, split>>

AttachFails ==
  /\ spc = "attach"
  /\ \E k \in 0..MaxStderr : Answer(ErrReply(k))
  /\ UNCHANGED <<running, backlog, cur, msg, targetVars, conn, clientVars, usbipVars, split>>

\* revoke_from_client looks the busid up in the listing; of several ports
\* with that busid the map keeps the one listed last.
ListFound ==
  /\ spc = "list"
  /\ \E p \in InUse(msg.bus) :
       /\ \A q \in InUse(msg.bus) : q <= p
       /\ target' = p
  /\ refilled' = FALSE
  /\ spc' = "detach"
  /\ UNCHANGED <<running, backlog, cur, msg, reply, conn, clientVars, usbipVars, split>>

\* The busid is not listed, or `usbip port` failed and unwrap_or_default
\* made that an empty list: either way the client is told OK.
ListNotFound ==
  /\ spc = "list"
  /\ Answer(OkReply)
  /\ UNCHANGED <<running, backlog, cur, msg, targetVars, conn, clientVars, usbipVars, split>>

DetachOk ==
  /\ spc = "detach"
  /\ Release(target)
  /\ target' = None /\ refilled' = FALSE
  /\ Answer(OkReply)
  /\ UNCHANGED <<running, backlog, cur, msg, conn, clientVars, child, split>>

DetachFails ==
  /\ spc = "detach"
  /\ target' = None /\ refilled' = FALSE
  /\ \E k \in 0..MaxStderr : Answer(ErrReply(k))
  /\ UNCHANGED <<running, backlog, cur, msg, conn, clientVars, usbipVars, split>>

\* There is room for the reply, or the client's end is gone and its kernel
\* drops what arrives.
Fits == ~conn[cur].cliOpen \/ Len(conn[cur].s2c) + Len(reply) <= MaxLines

WriteReply ==
  /\ spc = "reply" /\ Fits
  /\ LET r == conn[cur]
     IN  /\ conn' = [conn EXCEPT ![cur].s2c = IF r.cliOpen THEN @ \o reply ELSE @]
         /\ split' = IF r.cliOpen /\ Len(reply) > 1 THEN split \cup {r.cl} ELSE split
  /\ spc' = "read" /\ msg' = None /\ reply' = <<>>
  /\ UNCHANGED <<running, backlog, cur, targetVars, clientVars, usbipVars>>

\* write_msg fails on a connection the client has closed, and after 30 seconds
\* on one whose client does not read: `?` ends the session, except after a
\* malformed line, whose write error is ignored.
WriteFails ==
  /\ spc = "reply" /\ (~conn[cur].cliOpen \/ ~Fits)
  /\ msg' = None /\ reply' = <<>>
  /\ IF msg.type = "BAD"
     THEN spc' = "read" /\ UNCHANGED <<cur, conn>>
     ELSE /\ spc' = "accept" /\ cur' = None
          /\ conn' = [conn EXCEPT ![cur] = SrvClosed(@)]
  /\ UNCHANGED <<running, backlog, targetVars, clientVars, usbipVars, split>>

CtrlC ==
  /\ spc # "stopped" /\ running
  /\ running' = FALSE
  /\ UNCHANGED <<spc, cur, msg, reply, targetVars, backlog, conn, clientVars, usbipVars, split>>

\* The process is gone: every connection loses its server end.
ServerGone ==
  /\ spc' = "stopped" /\ running' = FALSE
  /\ cur' = None /\ msg' = None /\ reply' = <<>> /\ target' = None /\ refilled' = FALSE
  /\ backlog' = <<>>
  /\ conn' = [i \in Conns |-> SrvClosed(conn[i])]
  /\ UNCHANGED <<clientVars, split>>

StopServer ==
  /\ spc = "accept" /\ ~running
  /\ ServerGone
  /\ UNCHANGED usbipVars

\* A crash.  The usbip command that the server has running may live on (bounds:
\* those of Orphans, and the last one that does).
CrashServer ==
  /\ spc # "stopped"
  /\ ServerGone
  /\ \/ UNCHANGED child
     \/ /\ spc \in Orphans
        /\ child' = IF spc = "attach" THEN AttachOf(Dev(conn[cur].cl, msg.bus))
                    ELSE DetachOf(target)
  /\ UNCHANGED <<vhci, shown, granted>>

StartServer ==
  /\ spc = "stopped"
  /\ spc' = "accept" /\ running' = TRUE
  /\ UNCHANGED <<cur, msg, reply, targetVars, backlog, conn, clientVars, usbipVars, split>>

\* What the server does of its own accord, and what is done to it.
ServerRun ==
  \/ Accept \/ ReadLine \/ EndSession
  \/ AttachOk \/ AttachFails
  \/ ListFound \/ ListNotFound \/ DetachOk \/ DetachFails
  \/ WriteReply \/ WriteFails \/ StopServer

Server == ServerRun \/ CtrlC \/ CrashServer \/ StartServer
-----------------------------------------------------------------------------
(***************************************************************************)
(* The client half of control.rs.                                          *)
(***************************************************************************)

\* Mutant of Connect: the session that the client held stays open.
ConnectKeeps(c) ==
  /\ wait[c] = None
  /\ spc # "stopped"
  /\ \E i \in Conns :
       /\ conn[i] = FreeSlot
       /\ conn' = [conn EXCEPT ![i] = OpenConn(c)]
       /\ sess' = [sess EXCEPT ![c] = i]
       /\ backlog' = Append(backlog, i)
  /\ UNCHANGED <<serverVars, wait, offered, late, usbipVars, split>>

\* TcpStream::connect, completed by the listener's backlog.  A session the
\* client already holds is dropped when the new one replaces it.
Connect(c) ==
  /\ wait[c] = None
  /\ spc # "stopped"
  /\ \E i \in Conns :
       /\ conn[i] = FreeSlot
       /\ conn' = [j \in Conns |-> IF j = i THEN OpenConn(c)
                                   ELSE IF j = sess[c] THEN CliClosed(conn[j])
                                   ELSE conn[j]]
       /\ sess' = [sess EXCEPT ![c] = i]
       /\ backlog' = Append(backlog, i)
  /\ UNCHANGED <<serverVars, wait, offered, late, usbipVars, split>>

Disconnect(c) ==
  /\ wait[c] = None /\ sess[c] # None
  /\ conn' = [conn EXCEPT ![sess[c]] = CliClosed(@)]
  /\ sess' = [sess EXCEPT ![c] = None]
  /\ UNCHANGED <<serverVars, backlog, wait, offered, late, usbipVars, split>>

\* Mutant of Send: the reply to the previous request is not awaited.
SendAhead(c, m) ==
  /\ sess[c] # None
  /\ Len(conn[sess[c]].c2s) < MaxUnread
  /\ m.type \in {"OFFER", "REVOKE"} => Dev(c, m.bus) \in Devices
  /\ m.type = "OFFER" => m.bus \notin offered[c]
  /\ conn' = [conn EXCEPT ![sess[c]].c2s =
                IF conn[sess[c]].srvOpen THEN Append(@, m) ELSE @]
  /\ wait' = [wait EXCEPT ![c] = m]
  /\ granted' = IF m.type = "OFFER" THEN granted \ {Dev(c, m.bus)} ELSE granted
  /\ UNCHANGED <<serverVars, backlog, sess, offered, late, vhci, shown, child, split>>

\* The write of a request.  It reaches the server only while the server
\* holds its end open.
Send(c, m) ==
  /\ wait[c] = None /\ sess[c] # None
  /\ Len(conn[sess[c]].c2s) < MaxUnread
  /\ m.type \in {"OFFER", "REVOKE"} => Dev(c, m.bus) \in Devices
  /\ m.type = "OFFER" => m.bus \notin offered[c]
  /\ conn' = [conn EXCEPT ![sess[c]].c2s =
                IF conn[sess[c]].srvOpen THEN Append(@, m) ELSE @]
  /\ wait' = [wait EXCEPT ![c] = m]
  /\ granted' = IF m.type = "OFFER" THEN granted \ {Dev(c, m.bus)} ELSE granted
  /\ UNCHANGED <<serverVars, backlog, sess, offered, late, vhci, shown, child, split>>

\* Mutant of Receive: every request answered OK is recorded as an offer.
ReceiveAnyOk(c) ==
  /\ wait[c] # None /\ conn[sess[c]].s2c # <<>>
  /\ conn' = [conn EXCEPT ![sess[c]].s2c = Tail(@)]
  /\ offered' = IF Head(conn[sess[c]].s2c).kind = "OK"
                THEN [offered EXCEPT ![c] = @ \cup {wait[c].bus}]
                ELSE offered
  /\ wait' = [wait EXCEPT ![c] = None]
  /\ UNCHANGED <<serverVars, backlog, sess, late, usbipVars, split>>

\* The next line is taken as the reply, whatever request it answers.
Receive(c) ==
  /\ wait[c] # None /\ conn[sess[c]].s2c # <<>>
  /\ conn' = [conn EXCEPT ![sess[c]].s2c = Tail(@)]
  /\ offered' = IF wait[c].type = "OFFER" /\ Head(conn[sess[c]].s2c).kind = "OK"
                THEN [offered EXCEPT ![c] = @ \cup {wait[c].bus}]
                ELSE offered
  /\ wait' = [wait EXCEPT ![c] = None]
  /\ UNCHANGED <<serverVars, backlog, sess, late, usbipVars, split>>

\* The write fails or the read returns end of file: the server's end is gone.
Closed(c) ==
  /\ wait[c] # None
  /\ conn[sess[c]].s2c = <<>> /\ ~conn[sess[c]].srvOpen
  /\ wait' = [wait EXCEPT ![c] = None]
  /\ UNCHANGED <<serverVars, backlog, conn, sess, offered, late, usbipVars, split>>

\* The read times out after 60 seconds; the session stays in use.
Timeout(c) ==
  /\ wait[c] # None
  /\ conn[sess[c]].s2c = <<>> /\ conn[sess[c]].srvOpen
  /\ wait' = [wait EXCEPT ![c] = None]
  /\ late' = late \cup {c}
  /\ UNCHANGED <<serverVars, backlog, conn, sess, offered, usbipVars, split>>

\* The client forgets the devices it finds unplugged (offered.retain).
Forget(c, gone) ==
  /\ wait[c] = None
  /\ offered' = [offered EXCEPT ![c] = @ \ gone]
  /\ UNCHANGED <<serverVars, backlog, conn, sess, wait, late, usbipVars, split>>

\* The client process ends, by itself or killed, at any point.
Exit(c) ==
  /\ conn' = [i \in Conns |-> IF i = sess[c] THEN CliClosed(conn[i]) ELSE conn[i]]
  /\ sess' = [sess EXCEPT ![c] = None]
  /\ wait' = [wait EXCEPT ![c] = None]
  /\ offered' = [offered EXCEPT ![c] = {}]
  /\ late' = late \ {c}
  /\ split' = split \ {c}
  /\ granted' = {d \in granted : d.cl # c}
  /\ UNCHANGED <<serverVars, backlog, vhci, shown, child>>

Client(c) ==
  \/ Connect(c) \/ Disconnect(c)
  \/ \E m \in Msgs : Send(c, m)
  \/ Receive(c) \/ Closed(c) \/ Timeout(c)
  \/ \E gone \in SUBSET Busids : Forget(c, gone)
  \/ Exit(c)
-----------------------------------------------------------------------------
(***************************************************************************)
(* The server's kernel: an import ends (the device is unplugged or         *)
(* released by its client, the link is lost, `usbip detach`, a reboot); a  *)
(* fresh import shows up in `usbip port`; a command that outlived a crash  *)
(* does its work, if it ever does.                                         *)
(***************************************************************************)
LinkDown(p) ==
  /\ Release(p)
  /\ UNCHANGED <<serverVars, backlog, conn, clientVars, child, split>>

Show(p) ==
  /\ vhci[p] # None
  /\ shown' = shown \cup {p}
  /\ UNCHANGED <<serverVars, backlog, conn, clientVars, vhci, child, granted, split>>

\* The import is in answer to no OFFER that a client still waits for.
ChildAttach(p) ==
  /\ child # None /\ child.op = "attach"
  /\ Import(child.dev, p)
  /\ refilled' = (refilled \/ p = target)
  /\ child' = None
  /\ UNCHANGED <<spc, running, cur, msg, reply, target, backlog, conn, clientVars,
                 granted, split>>

ChildDetach(p) ==
  /\ child = DetachOf(p)
  /\ Release(p)
  /\ child' = None
  /\ UNCHANGED <<serverVars, backlog, conn, clientVars, split>>

Kernel ==
  \E p \in Ports : LinkDown(p) \/ Show(p) \/ ChildAttach(p) \/ ChildDetach(p)

Next == Server \/ (\E c \in Clients : Client(c)) \/ Kernel

Spec == Init /\ [][Next]_vars
-----------------------------------------------------------------------------
(***************************************************************************)
(* Properties.                                                             *)
(***************************************************************************)
(***************************************************************************)
(* How the server's place in its loops, its connections and the clients'   *)
(* sessions belong together.                                               *)
(***************************************************************************)
Busy == {"attach", "list", "detach", "reply"}

\* The server has a session, a request, a port and a reply exactly where its
\* code has them in scope.
InScope ==
  /\ cur = None <=> spc \in {"accept", "stopped"}
  /\ msg = None <=> spc \notin Busy
  /\ spc = "attach" => msg.type = "OFFER"
  /\ spc \in {"list", "detach"} => msg.type = "REVOKE"
  /\ target = None <=> spc # "detach"
  /\ reply = <<>> <=> spc # "reply"
  /\ spc = "stopped" => backlog = <<>>

\* The server holds its end of the connections it serves or has queued, each
\* of them once.
Queued ==
  /\ cur # None => conn[cur].srvOpen
  /\ \A k \in DOMAIN backlog : backlog[k] # cur /\ conn[backlog[k]].srvOpen
  /\ \A j, k \in DOMAIN backlog : backlog[j] = backlog[k] => j = k

\* A closed end has nothing to read; a slot both ends closed is free.
Ends ==
  \A i \in Conns :
    /\ conn[i].cliOpen \/ conn[i].srvOpen => conn[i].cl \in Clients
    /\ ~conn[i].cliOpen => conn[i].s2c = <<>>
    /\ ~conn[i].srvOpen => conn[i].c2s = <<>>
    /\ ~conn[i].cliOpen /\ ~conn[i].srvOpen => conn[i] = FreeSlot

\* A client holds its end of its session and of no other connection.
Held ==
  /\ \A i \in Conns : conn[i].cliOpen => sess[conn[i].cl] = i
  /\ \A c \in Clients : sess[c] # None => conn[sess[c]].cliOpen /\ conn[sess[c]].cl = c
  /\ \A c \in Clients : wait[c] # None => sess[c] # None

\* Requests name devices of the client that the connection belongs to.
Owns(c, m) == m.type \in {"OFFER", "REVOKE"} => Dev(c, m.bus) \in Devices
Owned ==
  /\ \A i \in Conns : \A k \in DOMAIN conn[i].c2s : Owns(conn[i].cl, conn[i].c2s[k])
  /\ msg # None => Owns(conn[cur].cl, msg)

\* A connection is served or queued once, belongs to one client's present
\* session or to none, and its slot is not reused while an end is open, so
\* no request is ever served in the name of another client.
Sessions == InScope /\ Queued /\ Ends /\ Held /\ Owned

Handling(i) == cur = i /\ msg # None

\* Nothing is under way on connection i.
Quiet(i) == conn[i].c2s = <<>> /\ conn[i].s2c = <<>> /\ ~Handling(i)

\* Request m, and nothing else, is under way on connection i: it is unread,
\* or in the server's hands, or its one reply line is unread.
Underway(i, m) ==
  \/ conn[i].c2s = <<m>> /\ conn[i].s2c = <<>> /\ ~Handling(i)
  \/ conn[i].c2s = <<>> /\ conn[i].s2c = <<>> /\ Handling(i) /\ msg = m
  \/ /\ conn[i].c2s = <<>> /\ ~Handling(i)
     /\ Len(conn[i].s2c) = 1 /\ Head(conn[i].s2c).re = m

InStepOn(c, i) ==
  IF wait[c] = None THEN Quiet(i)
  ELSE Underway(i, wait[c]) \/ (~conn[i].srvOpen /\ Quiet(i))

\* A session stays in step: as long as no request of the client timed out and
\* no error reply had several lines, the session carries nothing but the
\* request the client waits for, so the line `request` reads next is the
\* reply to that request and never to an earlier one.
InStep ==
  \A c \in Clients \ (late \cup split) :
    sess[c] # None => InStepOn(c, sess[c])

\* attach_auto records a device as attached (offered.insert) only when the
\* server imported it in answer to that very OFFER; it relies on the session
\* having stayed in step.
OfferedWasReceived ==
  \A c \in Clients \ (late \cup split) : \A b \in offered[c] :
    Dev(c, b) \in granted

\* The port number that revoke_from_client took from the listing still holds
\* a device with the revoked busid, or none, when `usbip detach` runs on it:
\* the server imports nothing in between.  An attach command that outlived an
\* earlier server can, and the port is then one it filled.
DetachesRevokedBusid ==
  spc = "detach" =>
    vhci[target] = None \/ vhci[target].bus = msg.bus \/ refilled
-----------------------------------------------------------------------------
(***************************************************************************)
(* Statements of the repository's comments and messages that the code does *)
(* not keep; TLC shows how.                                                *)
(***************************************************************************)

\* "Server -> Client: OK | ERR <message>", one line per reply
\* (control.rs:30-32): with no time-out, a device the client reports as
\* "attached to server" was imported for that OFFER.
OfferedIfOnTime ==
  \A c \in Clients \ late : \A b \in offered[c] : Dev(c, b) \in granted

\* "Prefer matching client in remote line when possible." (control.rs:287):
\* where the listing shows a device of the client with the revoked busid, that
\* is the one to detach, and not another client's with the same busid.
PrefersOwnDevice ==
  [][spc = "list" /\ spc' = "detach"
       /\ (\E p \in InUse(msg.bus) : vhci[p].cl = conn[cur].cl)
     => vhci[target'].cl = conn[cur].cl]_vars

\* "Long-lived control session for multiple OFFER/REVOKE" (control.rs:329):
\* a request that timed out does not make a later one look successful.
OfferedIfOneLine ==
  \A c \in Clients \ split : \A b \in offered[c] : Dev(c, b) \in granted
=============================================================================
