---------------------------- MODULE DaemonStartup ----------------------------
(***************************************************************************)
(* What the root daemon does to its own installation when it starts: it    *)
(* brings kvm/<exe>, the copy that the KVM LaunchAgents execute, in step   *)
(* with its own binary (kvm_sync_agent_copy), then repairs a LaunchDaemon  *)
(* plist that does not restart it unconditionally                          *)
(* (kvm_fix_daemon_keepalive).  Around it: self-updates, launchd, the      *)
(* LoginWindow and console user's agents, the detached helper that         *)
(* reloads the daemon's job, crashes and reboots.                          *)
(*                                                                         *)
(* main() calls both functions in every process.  The first stops in a     *)
(* process that executes the copy, the second only tests for root, so the  *)
(* LoginWindow agent repairs the plist as well, at the same time.          *)
(*                                                                         *)
(* One user is logged in at a time; fast user switching is left out.       *)
(***************************************************************************)
EXTENDS Naturals

CONSTANTS
  Users,       \* console users
  Nobody,      \* uid 0: the login window
  None,        \* no file, no process
  Unloaded,    \* no job in that launchd domain
  Partial,     \* a file that is being written
  LastBuild,   \* bound: the agent is updated to builds 1..LastBuild
  Edits,       \* what an edit of the plist may do
  Faults,      \* which faults occur, a subset of {"crash", "reboot"}
  MaxFaults,   \* bound: how many
  MaxHelpers   \* bound: helpers that live at once

ASSUME StartupAssumption ==
  /\ Nobody \notin Users
  /\ {None, Unloaded, Partial} \cap 0..LastBuild = {} /\ None # Unloaded
  /\ LastBuild \in Nat \ {0} /\ MaxFaults \in Nat /\ MaxHelpers \in Nat \ {0}
  /\ Edits \subseteq {"done", "failed", "torn"}
  /\ Faults \subseteq {"crash", "reboot"}

VARIABLES
  pc,        \* where main() of the daemon is; "down": no process
  why,       \* what ended the last process
  disk,      \* build of the daemon's binary
  copy,      \* build of kvm/<exe>
  tmp,       \* build of kvm/<exe>.new
  cuid,      \* what kvm_console_uid answered last; Nobody once its
             \* caller has returned
  user,      \* the console user
  aqua,      \* the console user's agent: the build it executes
  lw,        \* the LoginWindow agent
  fix,       \* where that agent is in kvm_fix_daemon_keepalive
  plist,     \* KeepAlive in the plist, "torn" if it does not parse
  bak,       \* the same in the backup
  job,       \* KeepAlive as launchd cached it
  sleeping,  \* helpers that have not booted the job out yet
  reloading, \* helpers that have, and have not bootstrapped it yet
  faults     \* faults so far

fileVars == <<disk, copy, tmp>>
agentVars == <<user, aqua, lw, fix>>
jobVars == <<plist, bak, job, sleeping, reloading>>
vars == <<pc, why, cuid, faults, fileVars, agentVars, jobVars>>

Builds == 0..LastBuild
Policies == {"crashed", "missing", "true"}
Repair == {"keepalive", "backup", "delete", "add", "lint", "fork"}
PC == {"down", "start", "open", "write", "console", "bootout", "kill", "wait",
       "swap", "console2", "restart", "serving"} \cup Repair

(* An older installation, whose plist may be the current one, on a machine  *)
(* that shows the login window, with its agent, or none                    *)
Init ==
  /\ pc = "start" /\ why = "crash" /\ cuid = Nobody /\ faults = 0
  /\ disk = 1 /\ copy \in {0, 1} /\ tmp \in {None, Partial}
  /\ user \in Users \cup {Nobody}
  /\ aqua = (IF user = Nobody THEN Unloaded ELSE copy)
  /\ lw \in {copy, Unloaded} /\ fix = "serving"
  /\ plist \in {"crashed", "true"} /\ job = plist /\ bak = "true"
  /\ sleeping = 0 /\ reloading = 0

Step(from, to) == pc = from /\ pc' = to

-----------------------------------------------------------------------------
(* kvm_sync_agent_copy                                                     *)

Compare ==
  /\ \/ Step("start", "keepalive") /\ copy = disk /\ UNCHANGED tmp
     \/ Step("start", "open") /\ copy # disk /\ tmp' = None
  /\ UNCHANGED <<why, cuid, faults, disk, copy, agentVars, jobVars>>

(* mutant: the copy is written in place                                    *)
OpenCopyInPlace ==
  /\ Step("open", "write")
  /\ copy' = Partial
  /\ UNCHANGED <<why, cuid, faults, disk, tmp, agentVars, jobVars>>

OpenCopy ==
  /\ Step("open", "write")
  /\ tmp' = Partial
  /\ UNCHANGED <<why, cuid, faults, disk, copy, agentVars, jobVars>>

WriteCopy ==
  /\ \/ Step("write", "console") /\ tmp' = disk
     \/ Step("write", "keepalive") /\ tmp' = None
  /\ UNCHANGED <<why, cuid, faults, disk, copy, agentVars, jobVars>>

(* Stop the agents: the console user's job is booted out, then whatever    *)
(* runs is signalled and waited for, for at most four seconds.             *)
ConsoleUid ==
  /\ Step("console", "bootout")
  /\ cuid' = user
  /\ UNCHANGED <<why, faults, fileVars, agentVars, jobVars>>

BootOutAgent ==
  /\ Step("bootout", "kill")
  /\ aqua' = IF user # Nobody /\ user = cuid THEN Unloaded ELSE aqua
  /\ UNCHANGED <<why, cuid, faults, fileVars, user, lw, fix, jobVars>>

Killed(a) == IF a = Unloaded THEN Unloaded ELSE None

KillAgents ==
  /\ Step("kill", "wait")
  /\ aqua' = Killed(aqua) /\ lw' = Killed(lw) /\ fix' = "serving"
  /\ UNCHANGED <<why, cuid, faults, fileVars, user, jobVars>>

(* pgrep finds none, or has found one forty times                          *)
WaitForAgents ==
  /\ Step("wait", "swap")
  /\ UNCHANGED <<why, cuid, faults, fileVars, agentVars, jobVars>>

Rename ==
  /\ \/ Step("swap", "console2") /\ copy' = tmp /\ UNCHANGED cuid
     \/ Step("swap", "keepalive") /\ cuid' = Nobody /\ UNCHANGED copy
  /\ tmp' = None
  /\ UNCHANGED <<why, faults, disk, agentVars, jobVars>>

(* mutant: the uid read before the agents were stopped is used again       *)
ConsoleUidKept ==
  /\ Step("console2", "restart")
  /\ UNCHANGED <<why, cuid, faults, fileVars, agentVars, jobVars>>

ConsoleUidAgain ==
  /\ Step("console2", "restart")
  /\ cuid' = user
  /\ UNCHANGED <<why, faults, fileVars, agentVars, jobVars>>

(* bootstrap, then kickstart -k, of that user's job                        *)
RestartAgent ==
  /\ Step("restart", "keepalive")
  /\ aqua' = IF user # Nobody /\ user = cuid THEN copy ELSE aqua
  /\ cuid' = Nobody
  /\ UNCHANGED <<why, faults, fileVars, user, lw, fix, jobVars>>

-----------------------------------------------------------------------------
(* kvm_fix_daemon_keepalive, by the daemon or by the LoginWindow agent.    *)
(* The results of cp and PlistBuddy are not looked at; PlistBuddy leaves a *)
(* file that does not parse as it is.                                      *)

Roots == {"daemon", "agent"}

By(p, from, to) ==
  /\ \/ p = "daemon" /\ Step(from, to) /\ UNCHANGED fix
     \/ p = "agent" /\ fix = from /\ fix' = to /\ UNCHANGED pc
  /\ UNCHANGED <<why, cuid, faults, fileVars, user, aqua, lw>>

KeepAlive(p) ==
  /\ \/ By(p, "keepalive", "serving") /\ plist = "true"
     \/ By(p, "keepalive", "backup") /\ plist # "true"
  /\ UNCHANGED jobVars

Backup(p) ==
  /\ By(p, "backup", "delete")
  /\ bak' = plist
  /\ UNCHANGED <<plist, job, sleeping, reloading>>

DeleteKey(p) ==
  /\ By(p, "delete", "add")
  /\ \/ plist # "torn" /\ plist' = "missing"
     \/ (plist = "torn" \/ "failed" \in Edits) /\ UNCHANGED plist
  /\ UNCHANGED <<bak, job, sleeping, reloading>>

(* Add fails on a key that is still there                                  *)
AddKey(p) ==
  /\ By(p, "add", "lint")
  /\ \/ plist = "missing" /\ "done" \in Edits /\ plist' = "true"
     \/ plist = "missing" /\ "torn" \in Edits /\ plist' = "torn"
     \/ (plist # "missing" \/ "failed" \in Edits) /\ UNCHANGED plist
  /\ UNCHANGED <<bak, job, sleeping, reloading>>

Lint(p) ==
  /\ \/ By(p, "lint", "fork") /\ plist # "torn" /\ UNCHANGED plist
     \/ By(p, "lint", "serving") /\ plist = "torn" /\ plist' = bak
  /\ UNCHANGED <<bak, job, sleeping, reloading>>

(* the reload is left to a child in a session of its own                   *)
ForkHelper(p) ==
  /\ By(p, "fork", "serving")
  /\ sleeping + reloading < MaxHelpers
  /\ sleeping' = sleeping + 1
  /\ UNCHANGED <<plist, bak, job, reloading>>

RepairBy(p) ==
  \/ KeepAlive(p) \/ Backup(p) \/ DeleteKey(p) \/ AddKey(p) \/ Lint(p)
  \/ ForkHelper(p)

Daemon ==
  \/ Compare \/ OpenCopy \/ WriteCopy \/ ConsoleUid \/ BootOutAgent
  \/ KillAgents \/ WaitForAgents \/ Rename \/ ConsoleUidAgain \/ RestartAgent
  \/ RepairBy("daemon")

-----------------------------------------------------------------------------
(* The helper: sleep 3; launchctl bootout; sleep 2; launchctl bootstrap    *)

(* mutant: the helper is counted twice                                     *)
HelperAgain ==
  /\ sleeping > 0
  /\ reloading' = reloading + 1
  /\ job' = Unloaded /\ pc' = "down"
  /\ UNCHANGED <<why, cuid, faults, fileVars, agentVars, plist, bak, sleeping>>

HelperBootsOut ==
  /\ sleeping > 0
  /\ sleeping' = sleeping - 1 /\ reloading' = reloading + 1
  /\ job' = Unloaded /\ pc' = "down" /\ cuid' = Nobody
  /\ UNCHANGED <<why, faults, fileVars, agentVars, plist, bak>>

(* mutant: the job comes back with the definition that launchd has cached  *)
HelperRestarts ==
  /\ reloading > 0
  /\ reloading' = reloading - 1
  /\ IF job = Unloaded THEN job' = bak /\ pc' = "start"
                       ELSE UNCHANGED <<job, pc>>
  /\ UNCHANGED <<why, cuid, faults, fileVars, agentVars, plist, bak, sleeping>>

(* bootstrap reads the plist; it fails on a job that is loaded and on a    *)
(* plist that does not parse                                               *)
HelperBootstraps ==
  /\ reloading > 0
  /\ reloading' = reloading - 1
  /\ IF job = Unloaded /\ plist # "torn"
       THEN job' = plist /\ pc' = "start"
       ELSE UNCHANGED <<job, pc>>
  /\ UNCHANGED <<why, cuid, faults, fileVars, agentVars, plist, bak, sleeping>>

-----------------------------------------------------------------------------
(* The world                                                               *)

(* The self-update replaces the binary; the kernel kills the process for   *)
(* it, or the server's script restarts it with kickstart -k.               *)
Update ==
  /\ pc = "serving" /\ disk < LastBuild
  /\ disk' = disk + 1
  /\ \/ pc' = "down" /\ why' = "codesign"
     \/ pc' = "start" /\ UNCHANGED why
  /\ UNCHANGED <<cuid, faults, copy, tmp, agentVars, jobVars>>

(* launchd and the daemon's job                                            *)
Launch ==
  /\ pc = "down"
  /\ job = "true" \/ (job = "crashed" /\ why = "crash")
  /\ pc' = "start"
  /\ UNCHANGED <<why, cuid, faults, fileVars, agentVars, jobVars>>

(* launchd and the agents' jobs: KeepAlive unless the exit was successful  *)
Relaunch ==
  /\ \/ lw = None /\ lw' = copy /\ fix' = "keepalive" /\ UNCHANGED aqua
     \/ aqua = None /\ aqua' = copy /\ UNCHANGED <<lw, fix>>
  /\ copy # Partial
  /\ UNCHANGED <<pc, why, cuid, faults, fileVars, user, jobVars>>

Login(u) ==
  /\ user = Nobody
  /\ user' = u /\ aqua' = None
  /\ UNCHANGED <<pc, why, cuid, faults, fileVars, lw, fix, jobVars>>

Logout ==
  /\ user # Nobody
  /\ user' = Nobody /\ aqua' = Unloaded
  /\ UNCHANGED <<pc, why, cuid, faults, fileVars, lw, fix, jobVars>>

Crash ==
  /\ "crash" \in Faults /\ faults < MaxFaults /\ pc # "down"
  /\ pc' = "down" /\ why' = "crash" /\ cuid' = Nobody
  /\ faults' = faults + 1
  /\ UNCHANGED <<fileVars, agentVars, jobVars>>

Reboot ==
  /\ "reboot" \in Faults /\ faults < MaxFaults
  /\ faults' = faults + 1
  /\ IF plist = "torn" THEN job' = Unloaded /\ pc' = "down"
                       ELSE job' = plist /\ pc' = "start"
  /\ user' = Nobody /\ aqua' = Unloaded
  /\ lw' = Killed(lw) /\ fix' = "serving"
  /\ sleeping' = 0 /\ reloading' = 0 /\ cuid' = Nobody
  /\ UNCHANGED <<why, fileVars, plist, bak>>

Next ==
  \/ Daemon \/ RepairBy("agent") \/ HelperBootsOut \/ HelperBootstraps
  \/ Update \/ Launch \/ Relaunch \/ (\E u \in Users : Login(u)) \/ Logout
  \/ Crash \/ Reboot

Spec == Init /\ [][Next]_vars

(* The processes run and launchd does its work                             *)
FairSpec ==
  /\ Spec
  /\ WF_vars(Daemon)
  /\ WF_vars(HelperBootsOut) /\ WF_vars(HelperBootstraps) /\ WF_vars(Launch)

-----------------------------------------------------------------------------
TypeOK ==
  /\ pc \in PC /\ why \in {"crash", "codesign"} /\ faults \in 0..MaxFaults
  /\ disk \in Builds /\ copy \in Builds \cup {Partial}
  /\ tmp \in Builds \cup {None, Partial}
  /\ {user, cuid} \subseteq Users \cup {Nobody}
  /\ aqua \in Builds \cup {None, Unloaded}
  /\ lw \in Builds \cup {None, Unloaded} /\ fix \in Repair \cup {"serving"}
  /\ plist \in Policies \cup {"torn"} /\ bak \in Policies \cup {"torn"}
  /\ job \in Policies \cup {Unloaded}
  /\ sleeping \in 0..MaxHelpers /\ reloading \in 0..MaxHelpers

(* The copy that launchd may execute at any moment is a whole build, also  *)
(* when the daemon dies in the middle of a refresh and starts another.     *)
CopyWhole == copy \in Builds

(* A refresh that runs to its end leaves no agent of the console user on   *)
(* an older build, whoever logs in or out during the refresh and whatever  *)
(* cut the earlier ones short.                                             *)
ConsoleAgentInStep ==
  [][Step("restart", "keepalive") => aqua' \in {None, Unloaded, copy}]_vars

(* The repair lands: launchd ends up with the job that restarts the daemon *)
(* unconditionally, whatever updates, logins and reboots happen on the     *)
(* way; in particular the job is never left unloaded with no helper to     *)
(* load it.  Promised where each edit does what it is asked, no crash ends *)
(* the daemon and no LoginWindow agent repairs beside it: the README lists *)
(* what goes wrong otherwise.                                              *)
Edited == (pc = "add" => plist = "missing") /\ (pc = "lint" => plist = "true")
Crashed == pc = "down" /\ why = "crash" /\ job # Unloaded
Repaired ==
  [](Edited /\ ~Crashed /\ lw = Unloaded) => <>[](job = "true" /\ pc # "down")
=============================================================================
