------------------------ MODULE DaemonStartupProofs -------------------------
(***************************************************************************)
(* Theorems about DaemonStartup, for every set of users, number of builds, *)
(* faults and helpers, and whichever edits and faults occur.               *)
(*                                                                         *)
(* Whatever interrupts a refresh, the copy is only ever replaced by a      *)
(* rename of a file that was written to its end; and the uid that the last *)
(* step restarts was read after the agents had been stopped, so an agent   *)
(* of an older build that step leaves alone is no longer there.            *)
(***************************************************************************)
EXTENDS DaemonStartup, TLAPS

(* between the end of the write and the rename, the new file is whole *)
WholeToRename ==
  pc \in {"console", "bootout", "kill", "wait", "swap"} => tmp \in Builds

HelpersBounded == sleeping + reloading <= MaxHelpers

(* no agent of a user runs at the login window *)
AquaOfUser == user = Nobody => aqua = Unloaded

(* the last step of a refresh: the user it is about to restart is still    *)
(* the console user, or nothing of an older build runs                     *)
RestartInv ==
  pc = "restart" => \/ aqua \in {None, Unloaded, copy}
                    \/ user = cuid /\ user # Nobody

StartupInv ==
  /\ TypeOK /\ CopyWhole
  /\ WholeToRename /\ HelpersBounded /\ AquaOfUser /\ RestartInv

-----------------------------------------------------------------------------
(* TypeOK with the users one by one *)
LEMMA TypeParts ==
  TypeOK <=>
    /\ pc \in PC /\ why \in {"crash", "codesign"} /\ faults \in 0..MaxFaults
    /\ disk \in Builds /\ copy \in Builds \cup {Partial}
    /\ tmp \in Builds \cup {None, Partial}
    /\ user \in Users \cup {Nobody} /\ cuid \in Users \cup {Nobody}
    /\ aqua \in Builds \cup {None, Unloaded}
    /\ lw \in Builds \cup {None, Unloaded} /\ fix \in Repair \cup {"serving"}
    /\ plist \in Policies \cup {"torn"} /\ bak \in Policies \cup {"torn"}
    /\ job \in Policies \cup {Unloaded}
    /\ sleeping \in 0..MaxHelpers /\ reloading \in 0..MaxHelpers
BY DEF TypeOK

-----------------------------------------------------------------------------
(* kvm_sync_agent_copy *)

(* The files: only the rename of a whole file touches the copy. *)
LEMMA CopyStep ==
  ASSUME StartupInv, Compare \/ OpenCopy \/ WriteCopy \/ WaitForAgents \/ Rename
  PROVE  StartupInv'
<1>1. /\ UNCHANGED <<why, faults, disk, agentVars, jobVars>>
      /\ cuid' \in {cuid, Nobody}
      /\ pc' \in PC /\ pc' # "restart"
  BY DEF Compare, OpenCopy, WriteCopy, WaitForAgents, Rename, Step, PC, Repair,
         fileVars
<1>2. copy' \in Builds /\ tmp' \in Builds \cup {None, Partial}
  BY DEF Compare, OpenCopy, WriteCopy, WaitForAgents, Rename, Step, fileVars,
         StartupInv, CopyWhole, WholeToRename, TypeOK
<1>3. WholeToRename'
  BY DEF Compare, OpenCopy, WriteCopy, WaitForAgents, Rename, Step, fileVars,
         StartupInv, WholeToRename, TypeOK
<1>4. TypeOK'
  BY <1>1, <1>2, TypeParts DEF StartupInv, TypeOK, agentVars, jobVars
<1>5. QED
  BY <1>1, <1>2, <1>3, <1>4
     DEF StartupInv, CopyWhole, HelpersBounded, AquaOfUser, RestartInv,
         agentVars, jobVars

(* The agents: they are stopped with the copy still the old build. *)
LEMMA AgentStep ==
  ASSUME StartupInv,
         ConsoleUid \/ BootOutAgent \/ KillAgents \/ ConsoleUidAgain
           \/ RestartAgent
  PROVE  StartupInv'
<1>1. /\ UNCHANGED <<why, faults, fileVars, user, jobVars>>
      /\ cuid' \in {cuid, user, Nobody}
      /\ pc' \in PC
  BY DEF ConsoleUid, BootOutAgent, KillAgents, ConsoleUidAgain, RestartAgent,
         Step, PC, Repair, agentVars
<1>2. /\ aqua' \in Builds \cup {None, Unloaded}
      /\ lw' \in Builds \cup {None, Unloaded}
      /\ fix' \in Repair \cup {"serving"}
  BY TypeParts
     DEF ConsoleUid, BootOutAgent, KillAgents, ConsoleUidAgain, RestartAgent,
         Killed, agentVars, StartupInv, CopyWhole
<1>3. TypeOK'
  BY <1>1, <1>2, TypeParts DEF StartupInv, TypeOK, fileVars, jobVars
<1>4. AquaOfUser'
  BY <1>1
     DEF ConsoleUid, BootOutAgent, KillAgents, ConsoleUidAgain, RestartAgent,
         Killed, agentVars, StartupInv, AquaOfUser
<1>5. WholeToRename'
  BY <1>1
     DEF ConsoleUid, BootOutAgent, KillAgents, ConsoleUidAgain, RestartAgent,
         Step, fileVars, StartupInv, WholeToRename
<1>6. RestartInv'
  BY <1>1
     DEF ConsoleUid, BootOutAgent, KillAgents, ConsoleUidAgain, RestartAgent,
         Step, agentVars, StartupInv, AquaOfUser, RestartInv
<1>7. QED
  BY <1>1, <1>3, <1>4, <1>5, <1>6
     DEF StartupInv, CopyWhole, HelpersBounded, fileVars, jobVars

-----------------------------------------------------------------------------
(* kvm_fix_daemon_keepalive *)

LEMMA RepairStep ==
  ASSUME StartupInv, NEW p, RepairBy(p)
  PROVE  StartupInv'
<1>1. /\ UNCHANGED <<why, cuid, faults, fileVars, user, aqua, lw>>
      /\ pc' = pc \/ pc' \in Repair \cup {"serving"}
      /\ fix' \in Repair \cup {"serving"}
  BY DEF RepairBy, KeepAlive, Backup, DeleteKey, AddKey, Lint, ForkHelper, By,
         Step, Repair, StartupInv, TypeOK
<1>2. /\ plist' \in Policies \cup {"torn"} /\ bak' \in Policies \cup {"torn"}
      /\ job' = job
  BY DEF RepairBy, KeepAlive, Backup, DeleteKey, AddKey, Lint, ForkHelper,
         Policies, jobVars, StartupInv, TypeOK
<1>3. sleeping' \in 0..MaxHelpers /\ reloading' = reloading /\ HelpersBounded'
  BY StartupAssumption
     DEF RepairBy, KeepAlive, Backup, DeleteKey, AddKey, Lint, ForkHelper,
         jobVars, StartupInv, TypeOK, HelpersBounded
<1>4. pc' \in PC /\ (pc' # pc => pc' \notin {"console", "bootout", "kill",
                                             "wait", "swap", "restart"})
  BY <1>1 DEF PC, Repair, StartupInv, TypeOK
<1>5. TypeOK'
  BY <1>1, <1>2, <1>3, <1>4, TypeParts DEF StartupInv, TypeOK, fileVars
<1>6. QED
  BY <1>1, <1>3, <1>4, <1>5
     DEF StartupInv, CopyWhole, WholeToRename, AquaOfUser, RestartInv, fileVars

LEMMA HelperStep ==
  ASSUME StartupInv, HelperBootsOut \/ HelperBootstraps
  PROVE  StartupInv'
<1>1. /\ UNCHANGED <<why, faults, fileVars, agentVars, plist, bak>>
      /\ \/ pc' = pc /\ cuid' = cuid
         \/ pc' \in {"down", "start"} /\ cuid' \in {cuid, Nobody}
      /\ job' \in Policies \cup {Unloaded}
  BY DEF HelperBootsOut, HelperBootstraps, StartupInv, TypeOK
<1>2. sleeping' \in 0..MaxHelpers /\ reloading' \in 0..MaxHelpers /\ HelpersBounded'
  BY StartupAssumption
     DEF HelperBootsOut, HelperBootstraps, StartupInv, TypeOK, HelpersBounded
<1>3. TypeOK'
  BY <1>1, <1>2, TypeParts DEF StartupInv, TypeOK, fileVars, agentVars, PC
<1>4. QED
  BY <1>1, <1>2, <1>3
     DEF StartupInv, CopyWhole, WholeToRename, AquaOfUser, RestartInv, fileVars,
         agentVars

-----------------------------------------------------------------------------
(* The world *)

LEMMA ProcessStep ==
  ASSUME StartupInv, Update \/ Launch \/ Crash
  PROVE  StartupInv'
<1>1. /\ UNCHANGED <<copy, tmp, agentVars, jobVars>>
      /\ cuid' \in {cuid, Nobody}
      /\ pc' \in {"down", "start"} /\ why' \in {"crash", "codesign"}
      /\ disk' \in Builds /\ faults' \in 0..MaxFaults
  BY StartupAssumption
     DEF Update, Launch, Crash, StartupInv, TypeOK, fileVars, Builds
<1>2. TypeOK'
  BY <1>1, TypeParts DEF StartupInv, TypeOK, agentVars, jobVars, PC
<1>3. QED
  BY <1>1, <1>2
     DEF StartupInv, CopyWhole, WholeToRename, HelpersBounded, AquaOfUser,
         RestartInv, agentVars, jobVars

LEMMA SessionStep ==
  ASSUME StartupInv, Relaunch \/ (\E u \in Users : Login(u)) \/ Logout
  PROVE  StartupInv'
<1>1. /\ UNCHANGED <<pc, why, cuid, faults, fileVars, jobVars>>
      /\ user' \in Users \cup {Nobody}
      /\ aqua' \in Builds \cup {None, Unloaded}
      /\ lw' \in Builds \cup {None, Unloaded}
      /\ fix' \in Repair \cup {"serving"}
  BY TypeParts
     DEF Relaunch, Login, Logout, StartupInv, CopyWhole, Repair
<1>2. TypeOK'
  BY <1>1, TypeParts DEF StartupInv, TypeOK, fileVars, jobVars
<1>3. AquaOfUser'
  BY StartupAssumption
     DEF Relaunch, Login, Logout, StartupInv, AquaOfUser
<1>4. RestartInv'
  BY <1>1
     DEF Relaunch, Login, Logout, StartupInv, RestartInv, fileVars
<1>5. QED
  BY <1>1, <1>2, <1>3, <1>4
     DEF StartupInv, CopyWhole, WholeToRename, HelpersBounded, fileVars, jobVars

LEMMA RebootStep ==
  ASSUME StartupInv, Reboot
  PROVE  StartupInv'
<1>1. /\ UNCHANGED <<why, fileVars, plist, bak>> /\ cuid' = Nobody
      /\ pc' \in {"down", "start"} /\ faults' \in 0..MaxFaults
      /\ job' \in Policies \cup {Unloaded}
      /\ user' = Nobody /\ aqua' = Unloaded /\ fix' = "serving"
      /\ lw' \in {None, Unloaded}
      /\ sleeping' = 0 /\ reloading' = 0
  BY StartupAssumption DEF Reboot, Killed, StartupInv, TypeOK
<1>2. 0 \in 0..MaxHelpers /\ 0 + 0 <= MaxHelpers
  BY StartupAssumption
<1>3. TypeOK'
  BY <1>1, <1>2, TypeParts DEF StartupInv, TypeOK, fileVars, PC
<1>4. QED
  BY <1>1, <1>2, <1>3
     DEF StartupInv, CopyWhole, WholeToRename, HelpersBounded, AquaOfUser,
         RestartInv, fileVars

LEMMA StartupInvHolds == Spec => []StartupInv
<1>1. Init => StartupInv
  <2>1. SUFFICES ASSUME Init
                 PROVE  StartupInv
    OBVIOUS
  <2>2. /\ 0 \in 0..MaxHelpers /\ 0 \in 0..MaxFaults /\ 0 + 0 <= MaxHelpers
        /\ disk \in Builds /\ copy \in Builds
    BY <2>1, StartupAssumption DEF Init, Builds
  <2>3. TypeOK
    BY <2>1, <2>2, TypeParts DEF Init, PC, Policies
  <2>4. QED
    BY <2>1, <2>2, <2>3
       DEF Init, StartupInv, CopyWhole, WholeToRename, HelpersBounded,
           AquaOfUser, RestartInv
<1>2. StartupInv /\ [Next]_vars => StartupInv'
  <2>1. CASE UNCHANGED vars
    BY <2>1
       DEF vars, fileVars, agentVars, jobVars, StartupInv, TypeOK, CopyWhole,
           WholeToRename, HelpersBounded, AquaOfUser, RestartInv
  <2>2. QED
    BY <2>1, CopyStep, AgentStep, RepairStep, HelperStep, ProcessStep,
       SessionStep, RebootStep
       DEF Next, Daemon
<1>3. QED
  BY <1>1, <1>2, PTL DEF Spec

-----------------------------------------------------------------------------

(* The startup's state keeps its type, and the detached helpers their
   bound. *)
THEOREM StartupTypeOK == Spec => []TypeOK
BY StartupInvHolds, PTL DEF StartupInv

(* The copy that launchd may execute at any moment is a whole build,
   wherever a crash, a kill or a reboot cuts a refresh short
   (kvm_sync_agent_copy). *)
THEOREM StartupCopyWhole == Spec => []CopyWhole
BY StartupInvHolds, PTL DEF StartupInv

(* A refresh that runs to its end leaves no agent of the console user on an
   older build, whoever logs in or out while it runs (kvm_sync_agent_copy,
   which asks for the console user again after the swap). *)
THEOREM StartupAgentInStep == Spec => ConsoleAgentInStep
<1>1. StartupInv /\ [Next]_vars =>
        [Step("restart", "keepalive") => aqua' \in {None, Unloaded, copy}]_vars
  <2>1. SUFFICES ASSUME StartupInv, Next, Step("restart", "keepalive")
                 PROVE  aqua' \in {None, Unloaded, copy}
    OBVIOUS
  <2>2. CASE RestartAgent
    BY <2>1, <2>2 DEF RestartAgent, Step, StartupInv, RestartInv
  <2>3. CASE ~RestartAgent
    BY <2>1, <2>3
       DEF Next, Daemon, Step, Compare, OpenCopy, WriteCopy, ConsoleUid,
           BootOutAgent, KillAgents, WaitForAgents, Rename, ConsoleUidAgain,
           RepairBy, KeepAlive, Backup, DeleteKey, AddKey, Lint, ForkHelper, By,
           HelperBootsOut, HelperBootstraps, Update, Launch, Relaunch, Login,
           Logout, Crash, Reboot
  <2>4. QED
    BY <2>2, <2>3
<1>2. QED
  BY <1>1, StartupInvHolds, PTL DEF Spec, ConsoleAgentInStep
=============================================================================
