----------------------------- MODULE RemoteUsb ------------------------------
(***************************************************************************)
(* The whole system: the server of ControlPlane and, on each client host,  *)
(* one of the two attach commands, with the devices people plug in and     *)
(* out, processes that are interrupted, killed and started again.          *)
(***************************************************************************)
EXTENDS AttachOne, AttachAuto

\* `usbip attach` pulls a device from the usbipd of its host, which exports
\* the devices bound there.
Exported(d) == d \in bound /\ d.cl \in usbipd
Pulled == \A p \in Ports : vhci'[p] \in {vhci[p], None} \/ Exported(vhci'[p])

Lift(A) == A /\ Pulled /\ UNCHANGED <<progVars, hostVars>>

Program(c) ==
  \/ c \in AutoClients /\ AttachAutoStep(c)
  \/ c \notin AutoClients /\ AttachOneStep(c)

SystemInit == Init /\ ProgInit

SystemNext ==
  \/ Lift(Server) \/ Lift(Kernel) \/ Host
  \/ \E c \in Clients : Process(c) \/ Program(c)

SystemSpec == SystemInit /\ [][SystemNext]_systemVars

(***************************************************************************)
(* Fairness.  A program goes on with its next step as long as there is     *)
(* one: every wait of the code has a timeout or is a sleep.  The server is *)
(* fair in the same way when the usbip commands it runs return.            *)
(***************************************************************************)
FairClients == \A c \in Clients : WF_systemVars(Program(c)) /\ WF_systemVars(Return(c))
FairServer == WF_systemVars(Lift(ServerRun))

\* The commands that fail now and then do not fail for ever.
FairUsbip ==
  /\ SF_systemVars(Lift(AttachOk))
  /\ \A c \in AutoClients : SF_systemVars(AutoList(c)) /\ SF_systemVars(BindOk(c, "offer"))

ClientsFair == SystemSpec /\ FairClients
ServerFair == SystemSpec /\ FairServer
AllFair == SystemSpec /\ FairClients /\ FairServer /\ FairUsbip
-----------------------------------------------------------------------------
(***************************************************************************)
(* Properties.                                                             *)
(***************************************************************************)
Leaving == {"leave", "revoke", "revoking", "revoked", "unbind", "end", "off"}

\* The client's present run has had d accepted and does not want to drop it.
\* An attach --auto one of whose requests timed out or was answered by several
\* lines is left out: it may be wrong about what was accepted.
OnOffer(d) ==
  IF d.cl \in AutoClients
  THEN d.bus \in offered[d.cl] /\ pc[d.cl] \notin Leaving /\ d.cl \notin late \cup split
  ELSE dev[d.cl] = d.bus /\ pc[d.cl] \in {"accepted", "hold"}

\* A REVOKE that outlived the run or the connection it was sent in never
\* detaches a device of the same client after a later run had it accepted.
NoStaleRevoke ==
  spc = "detach" /\ vhci[target] # None /\ vhci[target].cl = conn[cur].cl =>
    ~OnOffer(vhci[target])

\* attach_one reports a device as attached only when the server imported it
\* for that OFFER.  Time-outs and errors of several lines, which may mislead
\* attach_auto, do not matter to a program that sends one request on each
\* connection.
OneWasImported ==
  \A c \in Clients \ AutoClients :
    pc[c] \in {"accepted", "hold"} => Dev(c, dev[c]) \in granted

\* Ctrl+C ends an attach command that has its handler installed, whatever the
\* server does: also when usbip hangs there, it never replies, or it is gone.
InterruptEnds ==
  \A c \in Clients : ~going[c] ~> At(c, "off")

\* "Run the server control listener until Ctrl+C" (control.rs:142).
CtrlCStops == ~running ~> spc = "stopped"

Running(c) == going[c] /\ pc[c] \notin {"off", "connect"} \cup Leaving

\* The device stays plugged in, is not unbound by hand, and its host has what
\* it takes to export it, while the attach --auto there keeps running.
Waiting(d) ==
  /\ d \in plugged /\ d \in Allowed /\ d.cl \in AutoClients \cap usbipd
  /\ Running(d.cl)

\* The client's session is open, and the client does not go on to replace it
\* with one that is answered late again.
LiveSession(c) ==
  /\ sess[c] # None /\ conn[sess[c]].srvOpen
  /\ c \in late => ~At(c, "reconnect")

Imported(d) == \E p \in Ports : vhci[p] = d
KeptBound(d) == <>[][bound \cap {d} \subseteq bound']_bound

\* attach --auto offers a device again and again until the server imports it
\* or the client takes it for imported, whatever fails in between, error
\* replies of several lines and late replies included, and whoever bound the
\* device, as long as its session stays open and commands of usbip do not
\* fail for ever.
AttachedWhileLive ==
  FairServer /\ FairUsbip =>
    \A d \in Devices :
      <>[](Waiting(d) /\ LiveSession(d.cl)) /\ KeptBound(d)
        => []<>(Imported(d) \/ d.bus \in offered[d.cl])

\* "Attach matching devices as they appear" (main.rs:185), while a server is
\* up and `usbip list` works.  The server ends a session that is idle for 300
\* seconds, and the client never opens another one.
AttachedAsTheyAppear ==
  \A d \in Devices :
    <>[](Waiting(d) /\ running /\ ~At(d.cl, "reconnect")) /\ KeptBound(d)
      => []<>(Imported(d) \/ d.bus \in offered[d.cl])

\* "Ctrl+C revokes the device from the server." (main.rs:170): when attach
\* ends after a Ctrl+C, nothing of its host stays imported.  A device whose
\* OFFER timed out at the client is imported all the same and not revoked.
CtrlCRevokes ==
  \A c \in Clients : At(c, "end") /\ ~going[c] =>
    \A p \in Ports : vhci[p] = None \/ vhci[p].cl # c
=============================================================================
