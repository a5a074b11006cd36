-------------------------- MODULE DeviceSelection ---------------------------
(***************************************************************************)
(* Which device a command of the client takes (client.rs): `attach --auto` *)
(* with a filter, `attach <selector>` and `unbind <selector>`, on a host   *)
(* where devices are plugged, unplugged and exchanged between any two      *)
(* steps.  All that is seen of the server here is whether it takes a       *)
(* device that is on OFFER and what the client reads of its answer;        *)
(* ControlPlane and RemoteUsb are about the rest.                          *)
(***************************************************************************)
EXTENDS DeviceLists

CONSTANTS
  Busids,    \* bus ids: where devices can be plugged in, and what users type
  Things,    \* what can be plugged in: [vid, pid, hub]
  Commands,  \* the command lines: [kind, match, exclude, hubs, selector]
  None

ASSUME SelectionAssumption ==
  /\ IsFiniteSet(Busids) /\ None \notin Things
  /\ \A t \in Things : t.vid \in Nat /\ t.pid \in Nat
  /\ \A c \in Commands :
       /\ c.kind \in {"auto", "one", "unbind"}
       /\ \A x \in c.match \cup c.exclude \cup {c.selector} : x.kind = "id" => x \in Ids
       /\ c.selector.kind = "busid" => c.selector.busid \in Busids

VARIABLES
  plugged,  \* the thing at each busid, or None
  bound,    \* the busids bound to usbip-host
  pc,       \* where the command is; "off" when none runs
  cmd,      \* the command line
  seen,     \* the list of devices still to be visited; None: the listing failed
  dev,      \* the device it is busy with
  offered,  \* the HashSet of attach_auto
  okSent,   \* the server took the device on OFFER; its OK is not read yet
  changed,  \* history: busids where devices came or went since the listing
  taken,    \* history: busids whose present thing the server took in answer to
            \* an OFFER of this run, whether or not it still has it
  missed,   \* history: busids in offered, or whose OK was under way, that no
            \* poll saw empty since the last thing there was unplugged
  clear     \* history: no OFFER of this run ended without its one-line answer

hostVars == <<plugged, bound, changed, taken, missed>>
linkVars == <<okSent, clear>>
cmdVars == <<pc, cmd, seen, dev, offered, linkVars>>
vars == <<hostVars, cmdVars>>

TypeOK ==
  /\ plugged \in [Busids -> Things \cup {None}]
  /\ bound \subseteq {b \in Busids : plugged[b] # None}
  /\ pc \in {"off", "top", "list", "relist", "resolve", "retain", "pick",
             "bind", "offer", "hold", "release", "leave", "end"}
  /\ {offered, taken, changed, missed} \subseteq SUBSET Busids
  /\ okSent \in BOOLEAN /\ clear \in BOOLEAN
  /\ pc \in {"bind", "offer", "hold", "release"} => dev.busid \in Busids

Plugged == {b \in Busids : plugged[b] # None}

Init ==
  /\ plugged \in [Busids -> Things \cup {None}]
  /\ bound = {} /\ changed = {} /\ taken = {} /\ missed = {} /\ offered = {}
  /\ pc = "off" /\ cmd = None /\ seen = <<>> /\ dev = None
  /\ okSent = FALSE /\ clear = TRUE

Goto(label) == pc' = label
Stay == UNCHANGED <<cmd, seen, dev, offered, linkVars, hostVars>>

\* The busid whose OK the client has still to read.
Awaited == IF okSent THEN {dev.busid} ELSE {}
-----------------------------------------------------------------------------
(***************************************************************************)
(* The host.                                                               *)
(***************************************************************************)
Plug(b) ==
  /\ plugged[b] = None
  /\ \E t \in Things : plugged' = [plugged EXCEPT ![b] = t]
  /\ changed' = changed \cup {b}
  /\ UNCHANGED <<bound, taken, missed, cmdVars>>

Unplug(b) ==
  /\ plugged[b] # None
  /\ plugged' = [plugged EXCEPT ![b] = None]
  /\ bound' = bound \ {b} /\ taken' = taken \ {b}
  /\ changed' = changed \cup {b}
  /\ missed' = missed \cup ({b} \cap (offered \cup Awaited))
  /\ UNCHANGED cmdVars

\* `usbip bind` by hand.
BindByHand(b) ==
  /\ b \in Plugged \ bound
  /\ bound' = bound \cup {b}
  /\ UNCHANGED <<plugged, changed, taken, missed, cmdVars>>

Host == \E b \in Busids : Plug(b) \/ Unplug(b) \/ BindByHand(b)
-----------------------------------------------------------------------------
(***************************************************************************)
(* Start and end.  main refuses filters that are no ids (from_cli).        *)
(***************************************************************************)
Launch ==
  /\ pc = "off"
  /\ \E c \in Commands :
       /\ FromCli(c)
       /\ cmd' = c
       /\ Goto(IF c.kind = "auto" THEN "top" ELSE "list")
  /\ UNCHANGED <<seen, dev, offered, linkVars, hostVars>>

Gone ==
  /\ Goto("off") /\ cmd' = None /\ seen' = <<>> /\ dev' = None
  /\ offered' = {} /\ taken' = {} /\ missed' = {}
  /\ okSent' = FALSE /\ clear' = TRUE
  /\ UNCHANGED <<plugged, bound, changed>>

End == pc = "end" /\ Gone
Kill == pc # "off" /\ Gone
-----------------------------------------------------------------------------
(***************************************************************************)
(* list_local: the human listing, and the parsable one when that fails or  *)
(* is empty.  A listing shows the devices in some order.                   *)
(***************************************************************************)
Orders == {o \in [1..Cardinality(Plugged) -> Plugged] :
             \A i, j \in DOMAIN o : o[i] = o[j] => i = j}

AfterList == IF cmd.kind = "auto" THEN "retain" ELSE "resolve"

ListHuman ==
  /\ pc = "list"
  /\ \E o \in Orders : seen' = ParseHuman(HumanList(o, plugged))
  /\ changed' = {}
  /\ Goto(IF seen' = <<>> THEN "relist" ELSE AfterList)
  /\ UNCHANGED <<cmd, dev, offered, linkVars, plugged, bound, taken, missed>>

ListHumanFails ==
  /\ pc = "list"
  /\ seen' = None
  /\ Goto("relist")
  /\ UNCHANGED <<cmd, dev, offered, linkVars, hostVars>>

ListParsable ==
  /\ pc = "relist"
  /\ \E o \in Orders : seen' = ParseParsable(ParsableList(o, plugged))
  /\ changed' = {}
  /\ Goto(AfterList)
  /\ UNCHANGED <<cmd, dev, offered, linkVars, plugged, bound, taken, missed>>

\* An empty human listing stands, a failed one is the error of list_local:
\* attach --auto goes on with its next cycle, attach <selector> ends, and
\* unbind goes on without a list.
ListParsableFails ==
  /\ pc = "relist"
  /\ Goto(IF seen = None /\ cmd.kind = "auto" THEN "top"
          ELSE IF seen = None /\ cmd.kind = "one" THEN "end" ELSE AfterList)
  /\ Stay

List == ListHuman \/ ListHumanFails \/ ListParsable \/ ListParsableFails
-----------------------------------------------------------------------------
(***************************************************************************)
(* attach <selector> and unbind <selector>.                                *)
(***************************************************************************)
Listed == IF seen = None THEN <<>> ELSE seen

\* Mutant of ByName: any selector is taken for a busid.
ByNameAny ==
  IF cmd.kind = "unbind"
  THEN {[busid |-> IF cmd.selector.kind = "busid" THEN cmd.selector.busid ELSE cmd.selector]}
  ELSE {}

\* unbind takes a selector without a colon for the busid it may be.
ByName == IF cmd.kind = "unbind" /\ cmd.selector.kind = "busid"
          THEN {[busid |-> cmd.selector.busid]} ELSE {}

ResolveSelector ==
  /\ pc = "resolve"
  /\ LET found == Resolve(Listed, cmd.selector)
         which == IF found # {} THEN found ELSE ByName
     IN  IF which = {} THEN Goto("end") /\ UNCHANGED dev
         ELSE /\ dev' \in which
              /\ Goto(IF cmd.kind = "one" THEN "bind" ELSE "release")
  /\ UNCHANGED <<cmd, seen, offered, linkVars, hostVars>>

\* Ctrl+C, which ends attach <selector>.
Hold == pc = "hold" /\ Goto("release") /\ Stay

\* `usbip unbind`, whose failure attach <selector> ignores.
Release ==
  /\ pc = "release"
  /\ bound' \in {bound, bound \ {dev.busid}}
  /\ Goto("end")
  /\ UNCHANGED <<cmd, seen, dev, offered, linkVars, plugged, changed, taken, missed>>
-----------------------------------------------------------------------------
(***************************************************************************)
(* attach --auto.                                                          *)
(***************************************************************************)

\* The head of the loop; Ctrl+C makes it leave.
Top == pc = "top" /\ (Goto("list") \/ Goto("leave")) /\ Stay

\* Mutant of Retain: what the listing does not show is gone.
RetainListed ==
  /\ pc = "retain"
  /\ offered' = {b \in offered : \E k \in DOMAIN seen : seen[k].busid = b}
  /\ missed' = missed \cap Plugged
  /\ Goto("pick")
  /\ UNCHANGED <<cmd, seen, dev, linkVars, plugged, bound, changed, taken>>

\* offered.retain looks at sysfs, later than the listing did.
Retain ==
  /\ pc = "retain"
  /\ offered' = offered \cap Plugged
  /\ missed' = missed \cap Plugged
  /\ Goto("pick")
  /\ UNCHANGED <<cmd, seen, dev, linkVars, plugged, bound, changed, taken>>

IsHub(b) == plugged[b] # None /\ plugged[b].hub


\* The next device: skipped when the filter rejects it or it is in offered,
\* else bound, unless it is bound already, and offered.
Pick ==
  /\ pc = "pick" /\ seen # <<>>
  /\ seen' = Tail(seen) /\ dev' = Head(seen)
  /\ LET b == dev'.busid
     IN  IF ~Allows(cmd, dev', IsHub(b)) \/ b \in offered THEN UNCHANGED pc
         ELSE Goto(IF b \in bound THEN "offer" ELSE "bind")
  /\ UNCHANGED <<cmd, offered, linkVars, hostVars>>

PickNone == pc = "pick" /\ seen = <<>> /\ Goto("top") /\ Stay

BindOk(b) ==
  /\ pc = "bind" /\ dev.busid = b /\ b \in Plugged \ bound
  /\ bound' = bound \cup {b}
  /\ Goto("offer")
  /\ UNCHANGED <<cmd, seen, dev, offered, linkVars, plugged, changed, taken, missed>>

\* For attach --auto a device that is bound already is as good as bound; any
\* other failure skips the device, and ends attach <selector>.
BindFails ==
  /\ pc = "bind"
  /\ IF cmd.kind = "one" THEN Goto("end")
     ELSE Goto("pick") \/ (dev.busid \in bound /\ Goto("offer"))
  /\ Stay

\* External: the server imports what is at the busid now and says OK.  The
\* client reads that later, for which it has 60 seconds.  What the server takes
\* after the client gave up is left out: clear is FALSE from then on.
ServerTakes(b) ==
  /\ pc = "offer" /\ ~okSent /\ dev.busid = b /\ b \in bound
  /\ taken' = taken \cup {b}
  /\ okSent' = TRUE
  /\ UNCHANGED <<pc, cmd, seen, dev, offered, clear, plugged, bound, changed, missed>>

\* The reply is OK.  Once an answer was late or had several lines it may be the
\* one to an earlier OFFER.
OfferOk ==
  /\ pc = "offer" /\ (okSent \/ ~clear)
  /\ okSent' = FALSE
  /\ IF cmd.kind = "one" THEN Goto("hold") /\ UNCHANGED offered
     ELSE Goto("pick") /\ offered' = offered \cup {dev.busid}
  /\ UNCHANGED <<cmd, seen, dev, clear, hostVars>>

\* The reply is an error of one line, or there is none: the read timed out, the
\* session is closed, or more lines follow.  An OK under way is then lost.
\* Neither command unbinds a device that the server rejected.
OfferFails ==
  /\ pc = "offer"
  /\ clear' \in {FALSE, clear /\ ~okSent}
  /\ missed' = missed \ Awaited
  /\ okSent' = FALSE
  /\ Goto(IF cmd.kind = "one" THEN "end" ELSE "pick")
  /\ UNCHANGED <<cmd, seen, dev, offered, plugged, bound, changed, taken>>

\* Every device in offered is revoked and unbound; failures are ignored.
Leave ==
  /\ pc = "leave" /\ offered # {}
  /\ \E b \in offered :
       /\ offered' = offered \ {b}
       /\ bound' \in {bound, bound \ {b}}
  /\ UNCHANGED <<pc, cmd, seen, dev, linkVars, plugged, changed, taken, missed>>

LeaveNone == pc = "leave" /\ offered = {} /\ Goto("end") /\ Stay
-----------------------------------------------------------------------------
Program ==
  \/ List \/ ResolveSelector \/ Hold \/ Release
  \/ Top \/ Retain \/ Pick \/ PickNone
  \/ BindFails \/ OfferOk \/ OfferFails \/ \E b \in Busids : BindOk(b)
  \/ Leave \/ LeaveNone \/ End

Next == Launch \/ Kill \/ Host \/ Program \/ \E b \in Busids : ServerTakes(b)

\* The program goes on, for every wait of it has a timeout; the local usbip
\* commands that fail now and then do not fail for ever.  Nothing is assumed of
\* the server.
Fairness ==
  /\ WF_vars(Program)
  /\ SF_vars(ListHuman)
  /\ \A b \in Busids : SF_vars(BindOk(b))

Spec == Init /\ [][Next]_vars /\ Fairness
-----------------------------------------------------------------------------
(***************************************************************************)
(* Properties.                                                             *)
(***************************************************************************)

\* What the command line stands for, by the numbers of the devices' ids.
Wanted(c, t) ==
  /\ \A x \in c.exclude : ~Means(x, t)
  /\ c.match # {} => \E m \in c.match : Means(m, t)
  /\ c.hubs \/ ~t.hub

\* The selector is the device's busid, or its id and that of no other device
\* that has been there since the listing.
Selected(c, b) ==
  \/ c.selector.kind = "busid" /\ c.selector.busid = b
  \/ \A x \in Plugged \ changed : Means(c.selector, plugged[x]) <=> x = b

\* A listing shows what is plugged in, each device once and with its own id,
\* except where devices came or went after it; also when usbip failed once.
ListsPlugged ==
  pc = "retain" \/ (pc = "resolve" /\ seen # None) =>
    \A b \in Busids \ changed :
      LET at == {k \in DOMAIN seen : seen[k].busid = b}
      IN  IF plugged[b] = None THEN at = {}
          ELSE \E k \in at : at = {k} /\ seen[k].vid_pid = Printed(plugged[b])

\* What is bound, offered or released is what the user means, however the ids
\* are written, unless the device was exchanged after the listing.
TakesWhatIsMeant ==
  pc \in {"bind", "offer", "hold", "release"} /\ dev.busid \in Plugged \ changed =>
    IF cmd.kind = "auto" THEN Wanted(cmd, plugged[dev.busid]) ELSE Selected(cmd, dev.busid)

\* As long as every OFFER got its one-line answer, the devices in offered are
\* the plugged ones that the server took, even if devices come and go while it
\* imports one and while its OK is under way: none is forgotten, and a new one
\* is mistaken for an old one only if no poll fell between the two.
KnowsWhatIsTaken ==
  cmd # None /\ pc \notin {"leave", "end"} /\ cmd.kind = "auto" /\ clear =>
    \A b \in Plugged \ (missed \cup Awaited) : b \in offered <=> b \in taken

=============================================================================
