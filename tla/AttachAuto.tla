----------------------------- MODULE AttachAuto -----------------------------
(***************************************************************************)
(* `remote-usb attach <server> --auto` (attach_auto and offer_new_devices  *)
(* in client.rs): poll the local devices, bind and offer the new ones over *)
(* one long-lived session, and on Ctrl+C revoke what was offered.          *)
(***************************************************************************)
EXTENDS AttachCommand

\* The first connection; the Ctrl+C handler is installed after it.
AutoConnect(c) == At(c, "connect") /\ Dial(c, "top", "end")

\* The head of the loop, after the sleep of the poll interval.
AutoTop(c) ==
  /\ At(c, "top")
  /\ IF going[c] THEN Goto(c, "list") /\ UNCHANGED todo
     ELSE Goto(c, "leave") /\ todo' = [todo EXCEPT ![c] = offered[c]]
  /\ dev' = [dev EXCEPT ![c] = None]
  /\ UNCHANGED <<vars, going, hostVars>>

\* Mutant of AutoList: a line of the listing that names no device is taken for
\* the header of one.
AutoListAnyLine(c) ==
  /\ At(c, "list")
  /\ todo' = [todo EXCEPT ![c] = {b \in Busids : Dev(c, b) \in plugged} \cup {None}]
  /\ Goto(c, "retain")
  /\ UNCHANGED <<vars, dev, going, hostVars>>

AutoList(c) ==
  /\ At(c, "list")
  /\ todo' = [todo EXCEPT ![c] = {b \in Busids : Dev(c, b) \in plugged}]
  /\ Goto(c, "retain")
  /\ UNCHANGED <<vars, dev, going, hostVars>>

\* The failure of list_local is the only error that makes the loop reconnect.
AutoListFails(c) ==
  /\ At(c, "list")
  /\ Local(c, "reconnect") /\ UNCHANGED <<todo, dev, going>>

AutoRetain(c) ==
  /\ At(c, "retain")
  /\ Forget(c, {b \in Busids : Dev(c, b) \notin plugged})
  /\ Goto(c, "pick")
  /\ UNCHANGED <<todo, dev, going, hostVars>>

\* Mutant of AutoPick: a device that is bound is taken for one on offer.
AutoPickUnbound(c) ==
  /\ At(c, "pick")
  /\ \E b \in todo[c] :
       /\ todo' = [todo EXCEPT ![c] = @ \ {b}]
       /\ dev' = [dev EXCEPT ![c] = b]
       /\ IF Dev(c, b) \notin Allowed \/ b \in offered[c] \/ Dev(c, b) \in bound
          THEN UNCHANGED pc ELSE Goto(c, "bind")
  /\ UNCHANGED <<vars, going, hostVars>>

\* The next listed device: skipped when the filter rejects it or it was
\* offered before, offered as it is when it is bound, else bound first.
AutoPick(c) ==
  /\ At(c, "pick")
  /\ \E b \in todo[c] :
       /\ todo' = [todo EXCEPT ![c] = @ \ {b}]
       /\ dev' = [dev EXCEPT ![c] = b]
       /\ IF Dev(c, b) \notin Allowed \/ b \in offered[c] THEN UNCHANGED pc
          ELSE Goto(c, IF Dev(c, b) \in bound THEN "offer" ELSE "bind")
  /\ UNCHANGED <<vars, going, hostVars>>

AutoCycleEnds(c) ==
  /\ At(c, "pick") /\ todo[c] = {}
  /\ Local(c, "top") /\ UNCHANGED <<todo, dev, going>>

\* "already bound" counts as bound; any other failure skips the device.
AutoBind(c) ==
  \/ BindOk(c, "offer")
  \/ /\ At(c, "bind")
     /\ \/ Dev(c, dev[c]) \in bound /\ Local(c, "offer")
        \/ Local(c, "pick")
     /\ UNCHANGED <<todo, dev, going>>

AutoOffer(c) == At(c, "offer") /\ Ask(c, Offer(dev[c]), "await", "pick")

\* Whatever became of the request, the loop goes on with the next device.
AutoOffered(c) == At(c, "await") /\ Result(c, "pick", "pick")

AutoReconnect(c) == At(c, "reconnect") /\ Dial(c, "top", "top")

AutoLeave(c) ==
  /\ At(c, "leave")
  /\ IF todo[c] = {} THEN Goto(c, "end") /\ UNCHANGED <<todo, dev>>
     ELSE /\ \E b \in todo[c] : /\ todo' = [todo EXCEPT ![c] = @ \ {b}]
                                /\ dev' = [dev EXCEPT ![c] = b]
          /\ Goto(c, "revoke")
  /\ UNCHANGED <<vars, going, hostVars>>

AfterRevoke(c) == IF c \in KeepBound THEN "leave" ELSE "unbind"
AutoRevoke(c) == At(c, "revoke") /\ Ask(c, Revoke(dev[c]), "revoking", AfterRevoke(c))
AutoRevoked(c) == At(c, "revoking") /\ Result(c, AfterRevoke(c), AfterRevoke(c))
AutoUnbind(c) == UnbindDevice(c, "leave")

AttachAutoStep(c) ==
  \/ AutoConnect(c) \/ AutoTop(c) \/ AutoList(c) \/ AutoListFails(c) \/ AutoRetain(c)
  \/ AutoPick(c) \/ AutoCycleEnds(c) \/ AutoBind(c)
  \/ AutoOffer(c) \/ AutoOffered(c) \/ AutoReconnect(c)
  \/ AutoLeave(c) \/ AutoRevoke(c) \/ AutoRevoked(c) \/ AutoUnbind(c)
=============================================================================
