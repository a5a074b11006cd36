----------------------------- MODULE AttachOne ------------------------------
(***************************************************************************)
(* `remote-usb attach <server> <selector>` (attach_one in client.rs): bind *)
(* one device, offer it, keep it offered until Ctrl+C, revoke and unbind   *)
(* it.  Each message goes over a connection of its own (send_to_server).   *)
(* Every error before the device is accepted ends the command at once.     *)
(***************************************************************************)
EXTENDS AttachCommand

\* list_local and resolve_selector; any of the host's devices may be the one
\* the selector names.
OneSelect(c) ==
  /\ At(c, "list")
  /\ \/ /\ \E b \in Busids : Dev(c, b) \in plugged /\ dev' = [dev EXCEPT ![c] = b]
        /\ Goto(c, "bind")
     \/ Goto(c, "end") /\ UNCHANGED dev
  /\ UNCHANGED <<vars, todo, going, hostVars>>

\* Here a device that is already bound is an error like any other.
OneBind(c) ==
  \/ BindOk(c, "connect")
  \/ At(c, "bind") /\ Local(c, "end") /\ UNCHANGED <<todo, dev, going>>

OneConnect(c) == At(c, "connect") /\ Dial(c, "offer", "end")
OneOffer(c) == At(c, "offer") /\ Ask(c, Offer(dev[c]), "await", "end")
OneAccepted(c) == At(c, "await") /\ Result(c, "accepted", "end")

\* send_to_server returns and its stream is dropped.
OneHangUp(c, from, to) ==
  /\ At(c, from)
  /\ Disconnect(c)
  /\ Goto(c, to)
  /\ UNCHANGED <<todo, dev, going, hostVars>>

OneHold(c) ==
  /\ At(c, "hold") /\ ~going[c]
  /\ Local(c, "revoke") /\ UNCHANGED <<todo, dev, going>>

OneRedial(c) == At(c, "revoke") /\ Dial(c, "leave", "unbind")
OneRevoke(c) == At(c, "leave") /\ Ask(c, Revoke(dev[c]), "revoking", "revoked")
OneRevoked(c) == At(c, "revoking") /\ Result(c, "revoked", "revoked")

\* attach_one unbinds whatever --no-unbind-on-exit says.
OneUnbind(c) == UnbindDevice(c, "end")

AttachOneStep(c) ==
  \/ OneSelect(c) \/ OneBind(c) \/ OneConnect(c) \/ OneOffer(c) \/ OneAccepted(c)
  \/ OneHangUp(c, "accepted", "hold") \/ OneHold(c)
  \/ OneRedial(c) \/ OneRevoke(c) \/ OneRevoked(c) \/ OneHangUp(c, "revoked", "unbind")
  \/ OneUnbind(c)
=============================================================================
