---------------------------- MODULE HostCommands ----------------------------
(***************************************************************************)
(* How the commands start and end on one host: the checks of main.rs, the  *)
(* privilege check (privilege.rs), the kernel modules (kmod.rs), and what  *)
(* two commands at a time share: the modules, the server's control port    *)
(* and the port of usbipd.  What a command does while it works is in the   *)
(* other modules.                                                          *)
(***************************************************************************)
EXTENDS Naturals, Sequences, FiniteSets

CONSTANTS
  Procs,     \* processes of this host
  Requests,  \* command lines, with the user who types them
  Loadable,  \* the kernel modules that modprobe can load here
  Orphan,    \* a usbipd whose remote-usb is gone
  None

Kinds == {"attach", "serve", "prepare", "serve prepare", "unbind", "detach", "list", "ports"}

ASSUME HostAssumption ==
  /\ Orphan \notin Procs /\ None \notin Procs \cup {Orphan} \cup Requests
  /\ \A r \in Requests : r.kind \in Kinds

VARIABLES
  loaded,    \* /sys/module
  pc,        \* where a process is; "off" when there is none
  cmd,       \* its command line
  todo,      \* the kernel modules it has still to ensure
  listener,  \* the server that has the control port, or None
  usbipd,    \* who spawned the usbipd that has the USB/IP port, or None
  crashed,   \* history: some process was killed
  refused    \* history: attach processes that found the USB/IP port taken

procVars == <<pc, cmd, todo>>
portVars == <<listener, usbipd>>
history == <<crashed, refused>>
vars == <<loaded, procVars, portVars, history>>

Modules == {"usbip_core", "usbip_host", "vhci_hcd"}

\* Mutant of ModulesOf: the module that needs the other comes first.
ModulesReversed(kind) ==
  IF kind \in {"attach", "prepare"} THEN <<"usbip_host", "usbip_core">>
  ELSE <<"vhci_hcd", "usbip_core">>

\* ensure_export_modules and ensure_import_modules
ModulesOf(kind) ==
  IF kind \in {"attach", "prepare"} THEN <<"usbip_core", "usbip_host">>
  ELSE <<"usbip_core", "vhci_hcd">>

Labels == {"off", "start", "root", "modules", "modprobe", "verify", "ready",
           "usbip", "listen", "spawn", "work", "leave"}

TypeOK ==
  /\ loaded \subseteq Modules
  /\ loaded # {} => "usbip_core" \in loaded
  /\ pc \in [Procs -> Labels]
  /\ cmd \in [Procs -> Requests \cup {None}]
  /\ todo \in [Procs -> Seq(Modules)]
  /\ \A p \in Procs : pc[p] = "off" <=> cmd[p] = None
  /\ \A p \in Procs : pc[p] \in {"modprobe", "verify"} => todo[p] # <<>>
  /\ listener \in Procs \cup {None} /\ usbipd \in Procs \cup {None, Orphan}
  /\ crashed \in BOOLEAN /\ refused \subseteq Procs

Init ==
  /\ loaded \in {{}, {"usbip_core"}, {"usbip_core", "vhci_hcd"}}
  /\ pc = [p \in Procs |-> "off"]
  /\ cmd = [p \in Procs |-> None]
  /\ todo = [p \in Procs |-> <<>>]
  /\ listener = None /\ usbipd = None
  /\ crashed = FALSE /\ refused = {}

At(p, label) == pc[p] = label
Goto(p, label) == pc' = [pc EXCEPT ![p] = label]

\* The process ends; what it holds is closed with it, but not its child.
Exit(p) ==
  /\ Goto(p, "off")
  /\ cmd' = [cmd EXCEPT ![p] = None]
  /\ todo' = [todo EXCEPT ![p] = <<>>]
  /\ listener' = IF listener = p THEN None ELSE listener
  /\ refused' = refused \ {p}

\* It ends with nothing of its own running.
Refuse(p) == Exit(p) /\ UNCHANGED <<loaded, usbipd, crashed>>

Continue(p, label) ==
  /\ Goto(p, label)
  /\ UNCHANGED <<cmd, todo, loaded, portVars, history>>
-----------------------------------------------------------------------------
Launch(p) ==
  /\ At(p, "off")
  /\ \E r \in Requests :
       /\ cmd' = [cmd EXCEPT ![p] = r]
       /\ todo' = [todo EXCEPT ![p] = ModulesOf(r.kind)]
  /\ Goto(p, "start")
  /\ UNCHANGED <<loaded, portVars, history>>

\* Mutant of OptionsOk: a missing selector is not noticed.
OptionsUnchecked(r) ==
  /\ ~(r.ipv4 /\ r.ipv6) /\ ~(r.auto /\ r.selector)
  /\ r.interval # "not positive" /\ r.filter

\* The checks of an attach command line.
OptionsOk(r) ==
  /\ ~(r.ipv4 /\ r.ipv6)
  /\ ~(r.auto /\ r.selector) /\ (r.auto \/ r.selector)
  /\ r.interval # "not positive" /\ r.filter

\* run.  Duration::from_secs_f32 panics on NaN, on infinity and on more than
\* 2^64 seconds, none of which is <= 0.
Dispatch(p) ==
  /\ At(p, "start")
  /\ LET r == cmd[p]
     IN  CASE r.kind = "attach" ->
                IF OptionsOk(r) /\ r.interval # "no duration"
                THEN Continue(p, "root") ELSE Refuse(p)
           [] r.kind \in {"serve", "unbind", "detach"} -> Continue(p, "root")
           [] r.kind \in {"prepare", "serve prepare"} -> Continue(p, "modules")
           [] r.kind \in {"list", "ports"} -> Continue(p, "usbip")

\* require_root
RequireRoot(p) ==
  /\ At(p, "root")
  /\ IF ~cmd[p].root THEN Refuse(p)
     ELSE Continue(p, IF cmd[p].kind \in {"unbind", "detach"} THEN "usbip" ELSE "modules")

\* `usbip list`, `port`, `unbind` or `detach`, and the end.
RunUsbip(p) == At(p, "usbip") /\ Refuse(p)
-----------------------------------------------------------------------------
(***************************************************************************)
(* ensure_loaded, for the modules in todo.                                 *)
(***************************************************************************)
Ensured(p) ==
  /\ todo' = [todo EXCEPT ![p] = Tail(@)]
  /\ Goto(p, IF Len(todo[p]) = 1 THEN "ready" ELSE "modules")
  /\ UNCHANGED <<cmd, loaded, portVars, history>>

CheckLoaded(p) ==
  /\ At(p, "modules")
  /\ IF Head(todo[p]) \in loaded THEN Ensured(p)
     ELSE IF cmd[p].root THEN Continue(p, "modprobe") ELSE Refuse(p)

\* Mutant of ModprobeOk: insmod.
InsmodOk(p) ==
  /\ At(p, "modprobe") /\ Head(todo[p]) \in Loadable
  /\ loaded' = loaded \cup {Head(todo[p])}
  /\ Goto(p, "verify")
  /\ UNCHANGED <<cmd, todo, portVars, history>>

\* modprobe loads what the module needs first.
ModprobeOk(p) ==
  /\ At(p, "modprobe") /\ Head(todo[p]) \in Loadable
  /\ loaded' = loaded \cup {"usbip_core", Head(todo[p])}
  /\ Goto(p, "verify")
  /\ UNCHANGED <<cmd, todo, portVars, history>>

ModprobeFails(p) == At(p, "modprobe") /\ Refuse(p)

VerifyLoaded(p) ==
  /\ At(p, "verify")
  /\ IF Head(todo[p]) \in loaded THEN Ensured(p) ELSE Refuse(p)

\* Someone unloads a module that no other one needs.
Rmmod ==
  /\ \E m \in loaded :
       /\ m = "usbip_core" => loaded = {m}
       /\ loaded' = loaded \ {m}
  /\ UNCHANGED <<procVars, portVars, history>>
-----------------------------------------------------------------------------
(***************************************************************************)
(* The two commands that stay.                                             *)
(***************************************************************************)
Ready(p) ==
  /\ At(p, "ready")
  /\ CASE cmd[p].kind = "serve" -> Continue(p, "listen")
       [] cmd[p].kind = "attach" -> Continue(p, "spawn")
       [] OTHER -> Refuse(p)

\* TcpListener::bind
Listen(p) ==
  /\ At(p, "listen") /\ listener = None
  /\ listener' = p
  /\ Goto(p, "work")
  /\ UNCHANGED <<cmd, todo, loaded, usbipd, history>>

\* The address is none, or the port is taken.
ListenFails(p) == At(p, "listen") /\ Refuse(p)

\* spawn_usbipd does not look whether usbipd comes up: if the port is taken
\* it ends at once, and attach goes on with the one that is there.
SpawnUsbipd(p) ==
  /\ At(p, "spawn")
  /\ usbipd' = IF usbipd = None THEN p ELSE usbipd
  /\ refused' = IF usbipd = None THEN refused ELSE refused \cup {p}
  /\ Goto(p, "work")
  /\ UNCHANGED <<cmd, todo, loaded, listener, crashed>>

\* There is no usbipd to spawn.
SpawnFails(p) == At(p, "spawn") /\ Refuse(p)

\* The work is done, has failed or was interrupted, by a Ctrl+C that may have
\* reached usbipd too.  Without a selector attach panics (client.rs:79) and
\* leaves its child behind.
Return(p) ==
  /\ At(p, "work")
  /\ IF cmd[p].kind = "attach" /\ ~cmd[p].auto /\ ~cmd[p].selector
     THEN /\ Exit(p)
          /\ usbipd' = IF usbipd = p THEN Orphan ELSE usbipd
     ELSE /\ Goto(p, "leave")
          /\ usbipd' \in {usbipd, IF usbipd = p THEN None ELSE usbipd}
          /\ UNCHANGED <<cmd, todo, listener, refused>>
  /\ UNCHANGED <<loaded, crashed>>

\* Mutant of Leave: `pkill usbipd`.
LeaveKillAll(p) ==
  /\ At(p, "leave")
  /\ Exit(p)
  /\ usbipd' = IF cmd[p].kind = "attach" THEN None ELSE usbipd
  /\ UNCHANGED <<loaded, crashed>>

\* attach kills its own usbipd, if that still runs.
Leave(p) ==
  /\ At(p, "leave")
  /\ Exit(p)
  /\ usbipd' = IF usbipd = p THEN None ELSE usbipd
  /\ UNCHANGED <<loaded, crashed>>

\* A signal, or a panic: a process whose standard output is closed panics in
\* its next println!.
Kill(p) ==
  /\ ~At(p, "off")
  /\ Exit(p)
  /\ usbipd' = IF usbipd = p THEN Orphan ELSE usbipd
  /\ crashed' = TRUE
  /\ UNCHANGED loaded

\* A usbipd that was left behind is killed by hand.
KillOrphan ==
  /\ usbipd = Orphan /\ usbipd' = None
  /\ UNCHANGED <<loaded, procVars, listener, history>>
-----------------------------------------------------------------------------
Command(p) ==
  \/ Launch(p) \/ Dispatch(p) \/ RequireRoot(p) \/ RunUsbip(p)
  \/ CheckLoaded(p) \/ ModprobeOk(p) \/ ModprobeFails(p) \/ VerifyLoaded(p) \/ Ready(p)
  \/ Listen(p) \/ ListenFails(p) \/ SpawnUsbipd(p) \/ SpawnFails(p)
  \/ Return(p) \/ Leave(p) \/ Kill(p)

Next == Rmmod \/ KillOrphan \/ \E p \in Procs : Command(p)

Spec == Init /\ [][Next]_vars
-----------------------------------------------------------------------------
(***************************************************************************)
(* Properties.                                                             *)
(***************************************************************************)

\* When the second of its modules is ensured a command has both, even if
\* modules were unloaded between the two checks: the order of the checks is
\* that of the kernel's dependencies.
ModulesTogether ==
  [][\A p \in Procs : ~At(p, "ready") /\ pc'[p] = "ready" =>
       {ModulesOf(cmd[p].kind)[k] : k \in 1..2} \subseteq loaded']_vars

\* Only a process that is killed, or that panics because it cannot print,
\* leaves a usbipd behind: main.rs lets no attach through that would panic for
\* its options while its child runs.
NoOrphans == usbipd = Orphan => crashed

\* An attach that found the USB/IP port free exports its devices as long as
\* it works, whatever other commands start and end in the meantime.
KeepsOwnUsbipd ==
  \A p \in Procs :
    At(p, "work") /\ cmd[p].kind = "attach" /\ p \notin refused => usbipd = p
=============================================================================
