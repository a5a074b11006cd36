--------------------------- MODULE AttachCommand ----------------------------
(***************************************************************************)
(* What `remote-usb attach <server> <selector>` and `remote-usb attach     *)
(* <server> --auto` have in common (client.rs): the process, its usbipd    *)
(* child, the devices of its host, and how it makes a request.  Each step  *)
(* of a process is a step of the client half of ControlPlane, or none,     *)
(* together with a step of the program.                                    *)
(***************************************************************************)
EXTENDS ControlPlane

CONSTANTS
  AutoClients,  \* the clients that run `attach --auto`; the others attach_one
  Allowed,      \* the devices that pass the client's DeviceFilter
  KeepBound     \* the clients started with --no-unbind-on-exit

ASSUME AttachAssumption ==
  AutoClients \subseteq Clients /\ Allowed \subseteq Devices /\ KeepBound \subseteq Clients

VARIABLES
  pc,       \* where the attach process of a client is; "off" when none runs
  todo,     \* the busids its current loop has still to visit
  dev,      \* the busid it is busy with
  going,    \* its Ctrl+C flag
  plugged,  \* the devices plugged in
  bound,    \* the devices bound to usbip-host
  usbipd    \* the clients on which usbipd answers

progVars == <<pc, todo, dev, going>>
hostVars == <<plugged, bound, usbipd>>
systemVars == <<vars, progVars, hostVars>>

ProgTypeOK ==
  /\ pc \in [Clients -> {"off", "connect", "top", "list", "retain", "pick", "bind",
                         "offer", "await", "accepted", "hold", "reconnect",
                         "leave", "revoke", "revoking", "revoked", "unbind", "end"}]
  /\ todo \in [Clients -> SUBSET Busids]
  /\ dev \in [Clients -> Busids \cup {None}]
  /\ going \in [Clients -> BOOLEAN]
  /\ plugged \subseteq Devices
  /\ bound \subseteq plugged
  /\ usbipd \subseteq Clients

ProgInit ==
  /\ pc = [c \in Clients |-> "off"]
  /\ todo = [c \in Clients |-> {}]
  /\ dev = [c \in Clients |-> None]
  /\ going = [c \in Clients |-> TRUE]
  /\ plugged = {} /\ bound = {} /\ usbipd = {}

At(c, label) == pc[c] = label
Goto(c, label) == pc' = [pc EXCEPT ![c] = label]

\* A step of the program that touches neither connections nor devices.
Local(c, label) ==
  /\ Goto(c, label)
  /\ UNCHANGED <<vars, hostVars>>
-----------------------------------------------------------------------------
(***************************************************************************)
(* The process.  It spawns usbipd, which may turn out not to answer (its   *)
(* port is taken), and kills it at the end.  A killed process leaves       *)
(* usbipd behind unless the signal reached that too.  Ctrl+C kills the     *)
(* process until it has installed its handler.                             *)
(***************************************************************************)
Launch(c) ==
  /\ At(c, "off")
  /\ Goto(c, IF c \in AutoClients THEN "connect" ELSE "list")
  /\ usbipd' \in {usbipd, usbipd \cup {c}}
  /\ UNCHANGED <<vars, todo, dev, going, plugged, bound>>

Gone(c) ==
  /\ Exit(c)
  /\ Goto(c, "off")
  /\ todo' = [todo EXCEPT ![c] = {}]
  /\ dev' = [dev EXCEPT ![c] = None]
  /\ going' = [going EXCEPT ![c] = TRUE]
  /\ UNCHANGED <<plugged, bound>>

Return(c) ==
  /\ At(c, "end")
  /\ Gone(c)
  /\ usbipd' = usbipd \ {c}

Kill(c) ==
  /\ ~At(c, "off")
  /\ Gone(c)
  /\ usbipd' \in {usbipd, usbipd \ {c}}

\* The handler is installed by attach_auto after it connected and by
\* attach_one when it starts to wait for Ctrl+C.  A Ctrl+C typed at the
\* terminal also ends usbipd, which is in the same process group.
Interrupt(c) ==
  /\ going[c]
  /\ IF c \in AutoClients THEN pc[c] \notin {"off", "connect", "end"} ELSE At(c, "hold")
  /\ going' = [going EXCEPT ![c] = FALSE]
  /\ usbipd' \in {usbipd, usbipd \ {c}}
  /\ UNCHANGED <<vars, pc, todo, dev, plugged, bound>>

Process(c) == Launch(c) \/ Return(c) \/ Kill(c) \/ Interrupt(c)
-----------------------------------------------------------------------------
(***************************************************************************)
(* The devices of a client's host.                                         *)
(***************************************************************************)

\* The device leaves usbip-host: its import, if any, ends.
Unlink(d) ==
  \/ \E p \in Ports : vhci[p] = d /\ LinkDown(p)
  \/ (\A p \in Ports : vhci[p] # d) /\ UNCHANGED vars

Plug(d) ==
  /\ d \notin plugged
  /\ plugged' = plugged \cup {d}
  /\ UNCHANGED <<vars, progVars, bound, usbipd>>

Unplug(d) ==
  /\ d \in plugged
  /\ plugged' = plugged \ {d} /\ bound' = bound \ {d}
  /\ Unlink(d)
  /\ UNCHANGED <<progVars, usbipd>>

\* `remote-usb unbind`
Unbind(d) ==
  /\ d \in bound
  /\ bound' = bound \ {d}
  /\ Unlink(d)
  /\ UNCHANGED <<progVars, plugged, usbipd>>

Host == \E d \in Devices : Plug(d) \/ Unplug(d) \/ Unbind(d)
-----------------------------------------------------------------------------
(***************************************************************************)
(* Steps of the programs.                                                  *)
(***************************************************************************)

\* `usbip bind` succeeds on a plugged device that is not bound yet.
BindOk(c, label) ==
  /\ At(c, "bind")
  /\ Dev(c, dev[c]) \in plugged \ bound
  /\ bound' = bound \cup {Dev(c, dev[c])}
  /\ Goto(c, label)
  /\ UNCHANGED <<vars, todo, dev, going, plugged, usbipd>>

\* `usbip unbind` on the way out; a failure is ignored.
UnbindDevice(c, label) ==
  /\ At(c, "unbind")
  /\ \/ /\ Dev(c, dev[c]) \in bound
        /\ bound' = bound \ {Dev(c, dev[c])}
        /\ Unlink(Dev(c, dev[c]))
     \/ UNCHANGED <<vars, bound>>
  /\ Goto(c, label)
  /\ UNCHANGED <<todo, dev, going, plugged, usbipd>>

\* A connection is opened; when that fails the program goes on at `failed`.
Dial(c, connected, failed) ==
  /\ \/ Connect(c) /\ Goto(c, connected)
     \/ UNCHANGED vars /\ Goto(c, failed)
  /\ UNCHANGED <<todo, dev, going, hostVars>>

Full(c) == Len(conn[sess[c]].c2s) >= MaxUnread

\* A request is written; with the buffer full the write times out.
Ask(c, m, asked, failed) ==
  /\ \/ Send(c, m) /\ Goto(c, asked)
     \/ Full(c) /\ UNCHANGED vars /\ Goto(c, failed)
  /\ UNCHANGED <<todo, dev, going, hostVars>>

\* Mutant of Answered: the stream has no read timeout.
AnsweredOrClosed(c) == Receive(c) \/ Closed(c)

Answered(c) == Receive(c) \/ Closed(c) \/ Timeout(c)

\* A request returns: Ok if the reply was OK, Err in every other case.
Result(c, ok, err) ==
  /\ Answered(c)
  /\ Goto(c, IF wait[c].type = "OFFER" /\ dev[c] \in offered'[c] THEN ok ELSE err)
  /\ UNCHANGED <<todo, dev, going, hostVars>>
=============================================================================
