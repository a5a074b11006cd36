------------------------- MODULE HostCommandsProofs -------------------------
(***************************************************************************)
(* The properties of HostCommands hold for any number of processes, any    *)
(* command lines and whatever modules modprobe can load.                   *)
(***************************************************************************)
EXTENDS HostCommands, TLAPS

\* The module a command needs besides usbip_core.
Second(kind) == IF kind \in {"attach", "prepare"} THEN "usbip_host" ELSE "vhci_hcd"

\* The modules are ensured in their order, usbip_core first.
Ensuring ==
  \A p \in Procs :
    /\ pc[p] \in {"start", "root"} => todo[p] = <<"usbip_core", Second(cmd[p].kind)>>
    /\ pc[p] \in {"modules", "modprobe", "verify"} =>
         todo[p] \in {<<"usbip_core", Second(cmd[p].kind)>>, <<Second(cmd[p].kind)>>}

\* Behind the checks of main.rs an attach has a selector or --auto.
Checks(r) == r.kind = "attach" => r.auto \/ r.selector

Checked ==
  \A p \in Procs :
    /\ pc[p] \notin {"off", "start"} => Checks(cmd[p])
    /\ pc[p] = "listen" => cmd[p].kind = "serve"

HInv == TypeOK /\ Ensuring /\ Checked /\ NoOrphans /\ KeepsOwnUsbipd

LEMMA TodoModules ==
  ASSUME NEW kind PROVE
    /\ ModulesOf(kind) = <<"usbip_core", Second(kind)>>
    /\ ModulesOf(kind) \in Seq(Modules) /\ ModulesOf(kind) # <<>>
<1>1. CASE kind \in {"attach", "prepare"}
  <2>1. ModulesOf(kind) = <<"usbip_core", "usbip_host">> /\ Second(kind) = "usbip_host"
    BY <1>1 DEF ModulesOf, Second
  <2>. QED
    BY <2>1 DEF Modules
<1>2. CASE kind \notin {"attach", "prepare"}
  <2>1. ModulesOf(kind) = <<"usbip_core", "vhci_hcd">> /\ Second(kind) = "vhci_hcd"
    BY <1>2 DEF ModulesOf, Second
  <2>. QED
    BY <2>1 DEF Modules
<1>. QED
  BY <1>1, <1>2

LEMMA TailOfPair ==
  ASSUME NEW a, NEW b PROVE
    /\ Tail(<<a, b>>) = <<b>> /\ Head(<<a, b>>) = a /\ Len(<<a, b>>) = 2
    /\ Tail(<<b>>) = <<>> /\ Head(<<b>>) = b /\ Len(<<b>>) = 1
OBVIOUS

LEMMA InitHInv == Init => HInv
<1>. SUFFICES ASSUME Init PROVE HInv
  OBVIOUS
<1>. USE HostAssumption DEF HostAssumption, Init
<1>1. loaded \subseteq Modules /\ (loaded # {} => "usbip_core" \in loaded)
  BY DEF Modules
<1>2. TypeOK
  <2>1. pc \in [Procs -> Labels] /\ cmd \in [Procs -> Requests \cup {None}]
    BY DEF Labels
  <2>2. <<>> \in Seq(Modules)
    OBVIOUS
  <2>3. todo \in [Procs -> Seq(Modules)]
    BY <2>2
  <2>. QED
    BY <1>1, <2>1, <2>3 DEF TypeOK
<1>3. Ensuring /\ Checked /\ NoOrphans /\ KeepsOwnUsbipd
  BY DEF Ensuring, Checked, NoOrphans, KeepsOwnUsbipd, At
<1>. QED
  BY <1>2, <1>3 DEF HInv

LEMMA ExitStep ==
  ASSUME HInv, NEW p \in Procs, Exit(p), loaded' = loaded,
         usbipd' \in {usbipd, IF usbipd = p THEN None ELSE usbipd,
                      IF usbipd = p /\ crashed' THEN Orphan ELSE usbipd},
         crashed' \in BOOLEAN, crashed => crashed'
  PROVE  HInv'
<1>. USE HostAssumption DEF HostAssumption, HInv, Exit, Goto
<1>1. TypeOK'
  BY DEF TypeOK, Labels
<1>2. Ensuring' /\ Checked'
  BY DEF TypeOK, Ensuring, Checked, Checks
<1>3. NoOrphans'
  BY DEF TypeOK, NoOrphans
<1>4. KeepsOwnUsbipd'
  BY DEF TypeOK, KeepsOwnUsbipd, At
<1>. QED
  BY <1>1, <1>2, <1>3, <1>4

LEMMA RefuseStep ==
  ASSUME HInv, NEW p \in Procs, Refuse(p) PROVE HInv'
BY ExitStep DEF Refuse, HInv, TypeOK

\* One lemma for the steps that only move on.
LEMMA ContinueStep ==
  ASSUME HInv, NEW p \in Procs, NEW label \in Labels \ {"off", "start"}, Continue(p, label),
         pc[p] # "off", pc[p] = "start" => Checks(cmd[p]),
         label = "root" => pc[p] = "start",
         label \in {"modules", "modprobe", "verify"} =>
           pc[p] \in {"start", "root", "modules", "modprobe"},
         label = "listen" => cmd[p].kind = "serve", label # "work"
  PROVE  HInv'
<1>. USE DEF HInv, Continue, Goto, portVars, history
<1>0. <<"usbip_core", Second(cmd[p].kind)>> # <<>> /\ <<Second(cmd[p].kind)>> # <<>>
  OBVIOUS
<1>1. TypeOK'
  BY <1>0 DEF TypeOK, Ensuring
<1>2. Ensuring'
  BY DEF TypeOK, Ensuring
<1>3. Checked'
  BY DEF TypeOK, Checked, Checks
<1>4. NoOrphans'
  BY DEF NoOrphans
<1>5. KeepsOwnUsbipd'
  BY DEF TypeOK, KeepsOwnUsbipd, At
<1>. QED
  BY <1>1, <1>2, <1>3, <1>4, <1>5

LEMMA EnsuredStep ==
  ASSUME HInv, NEW p \in Procs, Ensured(p), pc[p] \in {"modules", "verify"}
  PROVE  HInv'
<1>. USE DEF HInv, Ensured, Goto, portVars, history
<1>. DEFINE second == Second(cmd[p].kind)
<1>1. todo[p] \in {<<"usbip_core", second>>, <<second>>}
  BY DEF Ensuring
<1>2. IF Len(todo[p]) = 1 THEN todo[p] = <<second>> /\ Tail(todo[p]) = <<>>
      ELSE Tail(todo[p]) = <<second>>
  <2>1. CASE todo[p] = <<"usbip_core", second>>
    <3>1. Len(todo[p]) = 2 /\ Tail(todo[p]) = <<second>>
      BY <2>1, TailOfPair
    <3>. QED
      BY <3>1
  <2>2. CASE todo[p] = <<second>>
    BY <2>2, TailOfPair
  <2>. QED
    BY <1>1, <2>1, <2>2
<1>3. second \in Modules
  BY DEF Second, Modules
<1>4. Tail(todo[p]) \in Seq(Modules)
  <2>1. <<>> \in Seq(Modules) /\ <<second>> \in Seq(Modules)
    BY <1>3
  <2>. QED
    BY <1>2, <2>1
<1>5. TypeOK'
  BY <1>4 DEF TypeOK, Labels
<1>6. Ensuring'
  BY <1>2 DEF TypeOK, Ensuring
<1>7. Checked' /\ NoOrphans'
  BY DEF TypeOK, Checked, NoOrphans
<1>8. KeepsOwnUsbipd'
  BY DEF TypeOK, KeepsOwnUsbipd, At
<1>. QED
  BY <1>5, <1>6, <1>7, <1>8

LEMMA ListenStep ==
  ASSUME HInv, NEW p \in Procs, Listen(p) PROVE HInv'
<1>. USE DEF HInv, Listen, Goto, At, history
<1>1. TypeOK'
  BY DEF TypeOK, Labels
<1>2. cmd[p].kind = "serve"
  BY DEF Checked
<1>3. Ensuring' /\ Checked' /\ NoOrphans'
  BY <1>2 DEF TypeOK, Ensuring, Checked, Checks, NoOrphans
<1>4. KeepsOwnUsbipd'
  BY <1>2 DEF TypeOK, KeepsOwnUsbipd
<1>. QED
  BY <1>1, <1>3, <1>4

LEMMA SpawnStep ==
  ASSUME HInv, NEW p \in Procs, SpawnUsbipd(p) PROVE HInv'
<1>. USE DEF HInv, SpawnUsbipd, Goto, At
<1>1. TypeOK'
  BY DEF TypeOK, Labels
<1>2. Ensuring' /\ Checked'
  BY DEF TypeOK, Ensuring, Checked, Checks
<1>3. NoOrphans'
  BY HostAssumption DEF HostAssumption, TypeOK, NoOrphans
<1>4. KeepsOwnUsbipd'
  BY HostAssumption DEF HostAssumption, TypeOK, KeepsOwnUsbipd
<1>. QED
  BY <1>1, <1>2, <1>3, <1>4

\* Return does not panic: the selector or --auto was checked.
LEMMA ReturnStep ==
  ASSUME HInv, NEW p \in Procs, Return(p) PROVE HInv'
<1>. USE DEF HInv, Return, Goto, At
<1>1. /\ Goto(p, "leave") /\ UNCHANGED <<cmd, todo, listener, refused, loaded, crashed>>
      /\ usbipd' \in {usbipd, IF usbipd = p THEN None ELSE usbipd}
  BY DEF Checked, Checks
<1>2. TypeOK'
  BY <1>1 DEF TypeOK, Labels
<1>3. Ensuring' /\ Checked'
  BY <1>1 DEF TypeOK, Ensuring, Checked, Checks
<1>4. NoOrphans'
  BY <1>1, HostAssumption DEF HostAssumption, TypeOK, NoOrphans
<1>5. KeepsOwnUsbipd'
  BY <1>1, HostAssumption DEF HostAssumption, TypeOK, KeepsOwnUsbipd
<1>. QED
  BY <1>2, <1>3, <1>4, <1>5

LEMMA NextHInv == HInv /\ [Next]_vars => HInv'
<1>. SUFFICES ASSUME HInv, [Next]_vars PROVE HInv'
  OBVIOUS
<1>1. CASE UNCHANGED vars
  BY <1>1 DEF vars, procVars, portVars, history, HInv, TypeOK, Ensuring, Checked, NoOrphans,
              KeepsOwnUsbipd, At
<1>2. CASE Rmmod
  BY <1>2 DEF Rmmod, procVars, portVars, history, HInv, TypeOK, Ensuring, Checked, NoOrphans,
              KeepsOwnUsbipd, At
<1>3. CASE KillOrphan
  BY <1>3, HostAssumption
  DEF HostAssumption, KillOrphan, procVars, history, HInv, TypeOK, Ensuring, Checked, NoOrphans,
      KeepsOwnUsbipd, At
<1>4. ASSUME NEW p \in Procs, Launch(p) PROVE HInv'
  <2>. USE <1>4 DEF HInv, Launch, Goto, At, portVars, history
  <2>1. PICK r \in Requests : /\ cmd' = [cmd EXCEPT ![p] = r]
                              /\ todo' = [todo EXCEPT ![p] = ModulesOf(r.kind)]
    OBVIOUS
  <2>2. TypeOK'
    BY <2>1, TodoModules, HostAssumption DEF HostAssumption, TypeOK, Labels
  <2>3. Ensuring'
    BY <2>1, TodoModules DEF TypeOK, Ensuring
  <2>4. Checked'
    BY <2>1 DEF TypeOK, Checked
  <2>5. NoOrphans' /\ KeepsOwnUsbipd'
    BY <2>1 DEF TypeOK, NoOrphans, KeepsOwnUsbipd
  <2>. QED
    BY <2>2, <2>3, <2>4, <2>5
<1>5. ASSUME NEW p \in Procs, Dispatch(p) PROVE HInv'
  <2>1. pc[p] = "start" /\ cmd[p] \in Requests /\ cmd[p].kind \in Kinds
    BY <1>5, HostAssumption DEF HostAssumption, Dispatch, At, HInv, TypeOK
  <2>2. CASE Refuse(p)
    BY <2>2, RefuseStep
  <2>3. ASSUME NEW label \in {"root", "modules", "usbip"}, Continue(p, label), Checks(cmd[p])
        PROVE  HInv'
    BY <2>1, <2>3, ContinueStep DEF Labels
  <2>. QED
    BY <1>5, <2>1, <2>2, <2>3 DEF Dispatch, Kinds, OptionsOk, Checks
<1>6. ASSUME NEW p \in Procs, RequireRoot(p) PROVE HInv'
  BY <1>6, RefuseStep, ContinueStep DEF RequireRoot, At, Labels
<1>7. ASSUME NEW p \in Procs, RunUsbip(p) PROVE HInv'
  BY <1>7, RefuseStep DEF RunUsbip
<1>8. ASSUME NEW p \in Procs, Ensured(p), pc[p] \in {"modules", "verify"} PROVE HInv'
  BY <1>8, EnsuredStep
<1>9. ASSUME NEW p \in Procs, CheckLoaded(p) PROVE HInv'
  BY <1>8, <1>9, RefuseStep, ContinueStep DEF CheckLoaded, At, Labels
<1>10. ASSUME NEW p \in Procs, ModprobeOk(p) PROVE HInv'
  <2>. USE <1>10 DEF HInv, ModprobeOk, Goto, At, portVars, history
  <2>1. Head(todo[p]) \in Modules
    BY DEF TypeOK
  <2>2. TypeOK'
    BY <2>1 DEF TypeOK, Labels, Modules
  <2>3. Ensuring' /\ Checked'
    BY DEF TypeOK, Ensuring, Checked
  <2>4. NoOrphans' /\ KeepsOwnUsbipd'
    BY DEF TypeOK, NoOrphans, KeepsOwnUsbipd
  <2>. QED
    BY <2>2, <2>3, <2>4
<1>11. ASSUME NEW p \in Procs, ModprobeFails(p) PROVE HInv'
  BY <1>11, RefuseStep DEF ModprobeFails
<1>12. ASSUME NEW p \in Procs, VerifyLoaded(p) PROVE HInv'
  BY <1>8, <1>12, RefuseStep DEF VerifyLoaded, At
<1>13. ASSUME NEW p \in Procs, Ready(p) PROVE HInv'
  <2>1. pc[p] = "ready"
    BY <1>13 DEF Ready, At
  <2>2. CASE Refuse(p)
    BY <2>2, RefuseStep
  <2>3. CASE (cmd[p].kind = "serve" /\ Continue(p, "listen")) \/ Continue(p, "spawn")
    BY <2>1, <2>3, ContinueStep DEF Labels
  <2>. QED
    BY <1>13, <2>2, <2>3 DEF Ready
<1>14. ASSUME NEW p \in Procs, Listen(p) PROVE HInv'
  BY <1>14, ListenStep
<1>15. ASSUME NEW p \in Procs, SpawnUsbipd(p) PROVE HInv'
  BY <1>15, SpawnStep
<1>16. ASSUME NEW p \in Procs, SpawnFails(p) PROVE HInv'
  BY <1>16, RefuseStep DEF SpawnFails
<1>17. ASSUME NEW p \in Procs, Return(p) PROVE HInv'
  BY <1>17, ReturnStep
<1>18. ASSUME NEW p \in Procs, Leave(p) PROVE HInv'
  BY <1>18, ExitStep DEF Leave, HInv, TypeOK
<1>19. ASSUME NEW p \in Procs, Kill(p) PROVE HInv'
  BY <1>19, ExitStep DEF Kill
<1>20. ASSUME NEW p \in Procs, ListenFails(p) PROVE HInv'
  BY <1>20, RefuseStep DEF ListenFails
<1>. QED
  BY <1>1, <1>2, <1>3, <1>4, <1>5, <1>6, <1>7, <1>9, <1>10, <1>11, <1>12, <1>13, <1>14, <1>15,
     <1>16, <1>17, <1>18, <1>19, <1>20 DEF Next, Command

\* Every variable keeps its type, and usbip_core is loaded with what needs it.
THEOREM HostTypeCorrect == Spec => []TypeOK
<1>. QED
  BY InitHInv, NextHInv, PTL DEF Spec, HInv

\* Only a killed process leaves a usbipd behind.
THEOREM NoOrphansLeft == Spec => []NoOrphans
<1>. QED
  BY InitHInv, NextHInv, PTL DEF Spec, HInv

\* An attach that found the USB/IP port free has its own usbipd as long as it
\* works, however many commands run beside it.
THEOREM OwnUsbipdKept == Spec => []KeepsOwnUsbipd
<1>. QED
  BY InitHInv, NextHInv, PTL DEF Spec, HInv

\* A command that has ensured its modules has both at that moment, whatever is
\* unloaded in the meantime.
THEOREM ModulesAreTogether == Spec => ModulesTogether
<1>1. HInv /\ [Next]_vars =>
        [\A p \in Procs : ~At(p, "ready") /\ pc'[p] = "ready" =>
           {ModulesOf(cmd[p].kind)[k] : k \in 1..2} \subseteq loaded']_vars
  <2>. SUFFICES ASSUME HInv, Next, NEW p \in Procs, ~At(p, "ready"), pc'[p] = "ready"
                PROVE  {ModulesOf(cmd[p].kind)[k] : k \in 1..2} \subseteq loaded'
    OBVIOUS
  <2>1. /\ Ensured(p) /\ Len(todo[p]) = 1 /\ Head(todo[p]) \in loaded
        /\ pc[p] \in {"modules", "verify"}
    <3>1. pc[p] # "ready" /\ pc \in [Procs -> Labels]
      BY DEF At, HInv, TypeOK
    <3>2. ASSUME NEW q \in Procs, Command(q) PROVE q = p /\ (CheckLoaded(p) \/ VerifyLoaded(p))
      <4>. USE DEF At, Goto
      <4>1. CASE CheckLoaded(q) \/ VerifyLoaded(q)
        BY <3>1, <4>1 DEF CheckLoaded, VerifyLoaded, Ensured, Refuse, Exit, Continue
      <4>2. CASE Launch(q) \/ RequireRoot(q) \/ RunUsbip(q)
        BY <3>1, <4>2 DEF Launch, RequireRoot, RunUsbip, Refuse, Exit, Continue
      <4>3. CASE Dispatch(q)
        <5>1. Refuse(q) \/ Continue(q, "root") \/ Continue(q, "modules") \/ Continue(q, "usbip")
          <6>1. cmd[q].kind \in Kinds
            BY <4>3, HostAssumption DEF HInv, TypeOK, HostAssumption, Dispatch
          <6>. QED
            BY <4>3, <6>1 DEF Dispatch, Kinds
        <5>. QED
          BY <3>1, <5>1 DEF Refuse, Exit, Continue
      <4>4. CASE ModprobeOk(q) \/ ModprobeFails(q) \/ SpawnFails(q)
        BY <3>1, <4>4 DEF ModprobeOk, ModprobeFails, SpawnFails, Refuse, Exit
      <4>5. CASE Ready(q)
        <5>1. Refuse(q) \/ Continue(q, "listen") \/ Continue(q, "spawn")
          BY <4>5 DEF Ready
        <5>. QED
          BY <3>1, <5>1 DEF Refuse, Exit, Continue
      <4>6. CASE Listen(q) \/ ListenFails(q) \/ SpawnUsbipd(q)
        BY <3>1, <4>6 DEF Listen, ListenFails, SpawnUsbipd, Refuse, Exit
      <4>7. CASE Return(q) \/ Leave(q) \/ Kill(q)
        BY <3>1, <4>7 DEF Return, Leave, Kill, Exit
      <4>. QED
        BY <3>2, <4>1, <4>2, <4>3, <4>4, <4>5, <4>6, <4>7 DEF Command
    <3>3. CheckLoaded(p) \/ VerifyLoaded(p)
      BY <3>1, <3>2 DEF Next, Rmmod, KillOrphan, procVars
    <3>. QED
      BY <3>1, <3>3
      DEF CheckLoaded, VerifyLoaded, Ensured, Refuse, Exit, Continue, Goto, At
  <2>2. todo[p] = <<Second(cmd[p].kind)>>
    BY <2>1, TailOfPair DEF HInv, Ensuring
  <2>3. {"usbip_core", Second(cmd[p].kind)} \subseteq loaded'
    BY <2>1, <2>2, TailOfPair DEF HInv, TypeOK, Ensured
  <2>. QED
    BY <2>3, TodoModules
<1>. QED
  BY <1>1, InitHInv, NextHInv, PTL DEF Spec, ModulesTogether
=============================================================================
