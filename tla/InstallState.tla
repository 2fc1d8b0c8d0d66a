---------------------------- MODULE InstallState ----------------------------
(***************************************************************************)
(* What meshinstall.sh and uninstall.sh do to a machine: the two copies of *)
(* the agent, the launchd jobs, Screen Sharing and legacy VNC with their   *)
(* record of what they were before (prestate.env), the VNC password and    *)
(* the pf ruleset for port 5900.  Scripts run one at a time, again and     *)
(* again; an install may stop anywhere, at one of its own exits or when it *)
(* is killed; builds are published, the agent updates itself, the console  *)
(* user comes and goes and the machine reboots in between.                 *)
(*                                                                         *)
(* Left out: the .msh, file modes, the checks printed at the end, other    *)
(* users' home directories.  A self-update reaches the copy in one step    *)
(* and only between scripts: DaemonStartup has the steps.                  *)
(***************************************************************************)
EXTENDS Naturals

CONSTANTS
  None,       \* no file, no process, no record
  LastBuild,  \* bound: builds 1..LastBuild are published
  MaxScripts, \* bound: how many scripts run
  MayStop     \* the scripts that may stop halfway

ASSUME InstallAssumption ==
  /\ LastBuild \in Nat \ {0} /\ MaxScripts \in Nat \ {0}
  /\ None \notin 1..LastBuild \cup [ss : BOOLEAN, legacy : BOOLEAN] \cup {"lan", "block"}
  /\ MayStop \subseteq {"install", "uninstall"}

VARIABLES
  pc,       \* the script's next step; "idle": no script runs
  result,   \* how the last script ended
  scripts,  \* how many have begun
  policy,   \* this install's SS_LAN_ACCESS
  walk,     \* this install's permission walkthrough is not skipped
  cuid,     \* whether this script found a console user
  user,     \* whether there is one
  server,   \* the build that BASE_URL serves
  got,      \* the build this install downloaded
  files,    \* builds on disk: the daemon's, the staged and the agents' copy
  runs,     \* builds that the daemon and the console user's agent execute
  plists,   \* launchd job files
  share,    \* Screen Sharing and legacy VNC, on or off
  prestate, \* the same, as prestate.env says it was before
  saved,    \* the same, as this uninstall read it
  before,   \* the same, as it was when nothing was installed
  password, \* VNC passwords: screensharingd's, this script's and vnc.pw
  anchor,   \* the policy in the ruleset file
  pf        \* the policy in the ruleset that is loaded

fileVars == <<server, got, files>>
jobVars == <<user, runs, plists>>
shareVars == <<share, prestate, before, saved>>
pfVars == <<anchor, pf>>
runVars == <<result, scripts, policy, walk, cuid>>
vars == <<pc, runVars, fileVars, jobVars, shareVars, password, pfVars>>

Builds == 1..LastBuild
Sharing == [ss : BOOLEAN, legacy : BOOLEAN]
InstallSteps == {"download", "replace", "daemonjob", "stage", "swap", "agentjob",
  "prestate", "share", "password", "legacy", "pwfile", "pf", "loadpf", "daemon",
  "who", "agent", "walk"}
UninstallSteps == {"jobs", "watcher", "kill", "files", "anchor", "unloadpf",
  "unlegacy", "unshare"}

Init ==
  /\ pc = "idle" /\ result = "none" /\ scripts = 0
  /\ policy = "lan" /\ walk = FALSE /\ cuid = FALSE
  /\ user \in BOOLEAN /\ server = 1 /\ got = 1
  /\ files = [disk |-> None, stage |-> None, copy |-> None]
  /\ runs = [daemon |-> None, agent |-> None] /\ plists = {}
  /\ share \in Sharing /\ before = share /\ prestate = None /\ saved = None
  /\ password = [server |-> 0, script |-> 0, file |-> None]
  /\ anchor = None /\ pf = "stock"

Step(from, to) == pc = from /\ pc' = to

Begin(script) ==
  /\ pc = "idle" /\ scripts < MaxScripts
  /\ scripts' = scripts + 1 /\ result' = "none" /\ pc' = script

End(from, how) == Step(from, "idle") /\ result' = how

(* a script stops halfway: an install at one of its exits, or killed       *)
Stopping ==
  \/ "install" \in MayStop /\ pc \in InstallSteps
  \/ "uninstall" \in MayStop /\ pc \in UninstallSteps

-----------------------------------------------------------------------------
(* meshinstall.sh                                                          *)

BeginInstall ==
  /\ Begin("download")
  /\ policy' \in {"lan", "block", "allow", "unknown"} /\ walk' \in BOOLEAN
  /\ before' = (IF prestate = None THEN share ELSE before)
  /\ UNCHANGED <<cuid, fileVars, jobVars, share, prestate, saved, password, pfVars>>

Download ==
  /\ Step("download", "replace") /\ got' = server
  /\ UNCHANGED <<runVars, server, files, jobVars, shareVars, password, pfVars>>

Replace ==
  /\ Step("replace", "daemonjob") /\ files' = [files EXCEPT !.disk = got]
  /\ UNCHANGED <<runVars, server, got, jobVars, shareVars, password, pfVars>>

WriteDaemonJob ==
  /\ Step("daemonjob", "stage") /\ plists' = plists \cup {"daemon"}
  /\ UNCHANGED <<runVars, fileVars, user, runs, shareVars, password, pfVars>>

StageCopy ==
  /\ Step("stage", "swap") /\ files' = [files EXCEPT !.stage = files.disk]
  /\ UNCHANGED <<runVars, server, got, jobVars, shareVars, password, pfVars>>

(* mutant: a replacement that fails is taken for done                      *)
SwapCopyUnchecked ==
  /\ Step("swap", "agentjob") /\ files' = [files EXCEPT !.stage = None]
  /\ UNCHANGED <<runVars, server, got, jobVars, shareVars, password, pfVars>>

SwapCopy ==
  /\ Step("swap", "agentjob")
  /\ files' = [files EXCEPT !.copy = files.stage, !.stage = None]
  /\ UNCHANGED <<runVars, server, got, jobVars, shareVars, password, pfVars>>

WriteAgentJob ==
  /\ Step("agentjob", "prestate") /\ plists' = plists \cup {"agent"}
  /\ UNCHANGED <<runVars, fileVars, user, runs, shareVars, password, pfVars>>

(* only the first install sees the machine as it was                       *)
RecordPrestate ==
  /\ Step("prestate", "share")
  /\ prestate' = (IF prestate = None THEN share ELSE prestate)
  /\ UNCHANGED <<runVars, fileVars, jobVars, share, before, saved, password, pfVars>>

EnableSharing ==
  /\ Step("share", "password") /\ share' = [share EXCEPT !.ss = TRUE]
  /\ UNCHANGED <<runVars, fileVars, jobVars, prestate, before, saved, password, pfVars>>

NewPassword ==
  /\ Step("password", "legacy") /\ password' = [password EXCEPT !.script = scripts]
  /\ UNCHANGED <<runVars, fileVars, jobVars, shareVars, pfVars>>

EnableLegacy ==
  /\ Step("legacy", "pwfile") /\ share' = [share EXCEPT !.legacy = TRUE]
  /\ password' = [password EXCEPT !.server = password.script]
  /\ UNCHANGED <<runVars, fileVars, jobVars, prestate, before, saved, pfVars>>

WritePassword ==
  /\ Step("pwfile", "pf") /\ password' = [password EXCEPT !.file = password.script]
  /\ UNCHANGED <<runVars, fileVars, jobVars, shareVars, pfVars>>

(* mutant: allow reloads the stock rules and leaves the boot job           *)
PfUnload ==
  /\ Step("pf", "daemon") /\ policy = "allow" /\ pf' = "stock"
  /\ UNCHANGED <<runVars, fileVars, jobVars, shareVars, password, anchor>>

PfRemove ==
  /\ Step("pf", "daemon") /\ policy = "allow"
  /\ plists' = plists \ {"pf"} /\ anchor' = None /\ pf' = "stock"
  /\ UNCHANGED <<runVars, fileVars, user, runs, shareVars, password>>

PfWriteRuleset ==
  /\ Step("pf", "loadpf") /\ policy \in {"lan", "block"} /\ anchor' = policy
  /\ UNCHANGED <<runVars, fileVars, jobVars, shareVars, password, pf>>

PfLoad ==
  /\ Step("loadpf", "daemon") /\ plists' = plists \cup {"pf"} /\ pf' = anchor
  /\ UNCHANGED <<runVars, fileVars, user, runs, shareVars, password, anchor>>

(* pfctl -n refuses it: the ruleset file goes, an earlier install's job to *)
(* load it at boot stays                                                   *)
PfRefused ==
  /\ Step("loadpf", "daemon") /\ anchor' = None /\ policy' = "refused"
  /\ UNCHANGED <<result, scripts, walk, cuid, fileVars, jobVars, shareVars, password, pf>>

PfUnknown ==
  /\ Step("pf", "daemon") /\ policy = "unknown"
  /\ UNCHANGED <<runVars, fileVars, jobVars, shareVars, password, pfVars>>

(* launchctl load leaves a job that is loaded as it is                     *)
LoadDaemon ==
  /\ Step("daemon", "who")
  /\ runs' = [runs EXCEPT !.daemon = IF runs.daemon = None THEN files.disk ELSE runs.daemon]
  /\ UNCHANGED <<runVars, fileVars, user, plists, shareVars, password, pfVars>>

ConsoleUser ==
  /\ Step("who", "agent") /\ cuid' = user
  /\ UNCHANGED <<result, scripts, policy, walk, fileVars, jobVars, shareVars, password, pfVars>>

LoadAgent ==
  /\ Step("agent", "walk")
  /\ plists' = (IF cuid THEN plists \cup {"watcher"} ELSE plists)
  /\ runs' = (IF cuid /\ user /\ runs.agent = None
              THEN [runs EXCEPT !.agent = files.copy] ELSE runs)
  /\ UNCHANGED <<runVars, fileVars, user, shareVars, password, pfVars>>

(* grants only take effect on a fresh process: the agent is booted out and *)
(* bootstrapped again after the walkthrough                                *)
Walkthrough ==
  /\ End("walk", "installed")
  /\ runs' = (IF walk /\ cuid /\ user THEN [runs EXCEPT !.agent = files.copy] ELSE runs)
  /\ UNCHANGED <<scripts, policy, walk, cuid, fileVars, user, plists, shareVars, password, pfVars>>

-----------------------------------------------------------------------------
(* uninstall.sh                                                            *)

BeginUninstall ==
  /\ Begin("jobs") /\ saved' = prestate /\ cuid' = user
  /\ UNCHANGED <<policy, walk, fileVars, jobVars, share, prestate, before, password, pfVars>>

(* mutant: only the jobs named meshagent*, not com.meshagent*              *)
RemoveOwnJobs ==
  /\ Step("jobs", "watcher") /\ plists' = plists \ {"daemon", "agent"}
  /\ runs' = [daemon |-> IF "daemon" \in plists THEN None ELSE runs.daemon,
              agent |-> IF "agent" \in plists /\ cuid THEN None ELSE runs.agent]
  /\ UNCHANGED <<runVars, fileVars, user, shareVars, password, pfVars>>

RemoveJobs ==
  /\ Step("jobs", "watcher") /\ plists' = plists \ {"daemon", "pf", "agent"}
  /\ runs' = [daemon |-> IF "daemon" \in plists THEN None ELSE runs.daemon,
              agent |-> IF "agent" \in plists /\ cuid THEN None ELSE runs.agent]
  /\ UNCHANGED <<runVars, fileVars, user, shareVars, password, pfVars>>

RemoveWatcher ==
  /\ Step("watcher", "kill") /\ plists' = plists \ {"watcher"}
  /\ UNCHANGED <<runVars, fileVars, user, runs, shareVars, password, pfVars>>

(* a job that is still loaded comes back after its throttle interval, when *)
(* the program is gone                                                     *)
KillStragglers ==
  /\ Step("kill", "files") /\ runs' = [daemon |-> None, agent |-> None]
  /\ UNCHANGED <<runVars, fileVars, user, plists, shareVars, password, pfVars>>

RemoveFiles ==
  /\ Step("files", "anchor")
  /\ files' = [disk |-> None, stage |-> None, copy |-> None] /\ prestate' = None
  /\ password' = [password EXCEPT !.file = None]
  /\ UNCHANGED <<runVars, server, got, jobVars, share, before, saved, pfVars>>

RemoveAnchor ==
  /\ Step("anchor", "unloadpf") /\ anchor' = None
  /\ UNCHANGED <<runVars, fileVars, jobVars, shareVars, password, pf>>

RestorePf ==
  /\ Step("unloadpf", "unlegacy") /\ pf' = "stock"
  /\ UNCHANGED <<runVars, fileVars, jobVars, shareVars, password, anchor>>

(* off as well when there is no record                                     *)
RestoreLegacy ==
  /\ Step("unlegacy", "unshare")
  /\ share' = [share EXCEPT !.legacy = IF saved = None \/ ~saved.legacy THEN FALSE ELSE @]
  /\ UNCHANGED <<runVars, fileVars, jobVars, prestate, before, saved, password, pfVars>>

(* mutant: a missing record is taken for one                               *)
RestoreRecord ==
  /\ End("unshare", "uninstalled") /\ share' = saved
  /\ UNCHANGED <<scripts, policy, walk, cuid, fileVars, jobVars, prestate, before, saved, password, pfVars>>

RestoreSharing ==
  /\ End("unshare", "uninstalled")
  /\ share' = [share EXCEPT !.ss = IF saved # None /\ ~saved.ss THEN FALSE ELSE @]
  /\ UNCHANGED <<scripts, policy, walk, cuid, fileVars, jobVars, prestate, before, saved, password, pfVars>>

-----------------------------------------------------------------------------
(* what happens around the scripts                                         *)

Stop ==
  /\ Stopping /\ pc' = "idle" /\ result' = "stopped"
  /\ files' \in {files, [files EXCEPT !.stage = None]}
  /\ UNCHANGED <<scripts, policy, walk, cuid, server, got, jobVars, shareVars, password, pfVars>>

Publish ==
  /\ server < LastBuild /\ server' = server + 1
  /\ UNCHANGED <<pc, runVars, got, files, jobVars, shareVars, password, pfVars>>

(* the daemon starts again; between scripts it brings the copy in step and *)
(* restarts the agent                                                      *)
DaemonStarts(build) ==
  /\ runs.daemon # None /\ files.disk # None
  /\ files' = [files EXCEPT !.disk = build,
                            !.copy = IF pc = "idle" /\ @ # None THEN build ELSE @]
  /\ runs' = [daemon |-> build,
              agent |-> IF runs.agent # None /\ files'.copy # files.copy
                        THEN build ELSE runs.agent]
  /\ UNCHANGED <<pc, runVars, server, got, user, plists, shareVars, password, pfVars>>

SelfUpdate == files.disk # server /\ DaemonStarts(server)

DaemonRelaunched == DaemonStarts(files.disk)

(* the agent exits with every session and is started again                 *)
AgentRelaunched ==
  /\ runs.agent # None /\ files.copy # None
  /\ runs' = [runs EXCEPT !.agent = files.copy]
  /\ UNCHANGED <<pc, runVars, fileVars, user, plists, shareVars, password, pfVars>>

Login ==
  /\ ~user /\ user' = TRUE
  /\ runs' = [runs EXCEPT !.agent = IF "agent" \in plists THEN files.copy ELSE None]
  /\ UNCHANGED <<pc, runVars, fileVars, plists, shareVars, password, pfVars>>

Logout ==
  /\ user /\ user' = FALSE /\ runs' = [runs EXCEPT !.agent = None]
  /\ UNCHANGED <<pc, runVars, fileVars, plists, shareVars, password, pfVars>>

(* what the boot job loads                                                 *)
BootRuleset == IF "pf" \in plists /\ anchor # None THEN anchor ELSE "stock"

Reboot ==
  /\ pc = "idle" \/ Stopping
  /\ pc' = "idle" /\ result' = (IF pc = "idle" THEN result ELSE "stopped")
  /\ user' = FALSE /\ pf' = BootRuleset
  /\ runs' = [daemon |-> IF "daemon" \in plists THEN files.disk ELSE None, agent |-> None]
  /\ UNCHANGED <<scripts, policy, walk, cuid, fileVars, plists, shareVars, password, anchor>>

(* the owner's own settings, while nothing is recorded about them          *)
OwnerSets ==
  /\ pc = "idle" /\ prestate = None
  /\ share' \in Sharing /\ share' # share /\ before' = share'
  /\ UNCHANGED <<pc, runVars, fileVars, jobVars, prestate, saved, password, pfVars>>

Install ==
  \/ BeginInstall \/ Download \/ Replace \/ WriteDaemonJob \/ StageCopy \/ SwapCopy
  \/ WriteAgentJob \/ RecordPrestate \/ EnableSharing \/ NewPassword \/ EnableLegacy
  \/ WritePassword \/ PfRemove \/ PfWriteRuleset \/ PfLoad \/ PfRefused \/ PfUnknown
  \/ LoadDaemon \/ ConsoleUser \/ LoadAgent \/ Walkthrough

Uninstall ==
  \/ BeginUninstall \/ RemoveJobs \/ RemoveWatcher \/ KillStragglers \/ RemoveFiles
  \/ RemoveAnchor \/ RestorePf \/ RestoreLegacy \/ RestoreSharing

Around ==
  \/ Stop \/ Publish \/ SelfUpdate \/ DaemonRelaunched \/ AgentRelaunched
  \/ Login \/ Logout \/ Reboot \/ OwnerSets

Next == Install \/ Uninstall \/ Around

Spec == Init /\ [][Next]_vars

-----------------------------------------------------------------------------
(* Types, and that a script has a step to take.                            *)
TypeOK ==
  /\ pc \in {"idle"} \cup InstallSteps \cup UninstallSteps
  /\ result \in {"none", "installed", "uninstalled", "stopped"}
  /\ scripts \in 0..MaxScripts /\ server \in Builds /\ got \in Builds
  /\ policy \in {"lan", "block", "allow", "unknown", "refused"}
  /\ {walk, cuid, user} \subseteq BOOLEAN
  /\ files \in [disk : Builds \cup {None}, stage : Builds \cup {None}, copy : Builds \cup {None}]
  /\ runs \in [daemon : Builds \cup {None}, agent : Builds \cup {None}]
  /\ plists \subseteq {"daemon", "agent", "watcher", "pf"}
  /\ share \in Sharing /\ before \in Sharing
  /\ prestate \in Sharing \cup {None} /\ saved \in Sharing \cup {None}
  /\ password \in [server : 0..MaxScripts, script : 0..MaxScripts, file : 0..MaxScripts \cup {None}]
  /\ anchor \in {None, "lan", "block"} /\ pf \in {"stock", "lan", "block"}

(* An uninstall that runs to its end leaves no job, process, password or   *)
(* pf rule, Screen Sharing as the owner had it, and legacy VNC as the      *)
(* owner had it or, when no record was left, off (uninstall.sh:81).        *)
Undone ==
  result = "uninstalled" =>
    /\ plists = {} /\ runs = [daemon |-> None, agent |-> None]
    /\ password.file = None /\ BootRuleset = "stock" /\ pf = "stock"
    /\ share.ss = before.ss
    /\ (share.legacy => before.legacy)
    /\ (saved # None => share.legacy = before.legacy)

(* An install that reports success took effect, whatever it found and     *)
(* however often earlier ones stopped: the daemon runs, its binary and the *)
(* agents' copy are the build downloaded or a later one (123-158), after a *)
(* walkthrough the agent that runs is that copy (489), and the password in *)
(* vnc.pw is the one that opens legacy VNC, which is on (245-253).         *)
InstallTookEffect ==
  result = "installed" =>
    /\ {files.disk, files.copy} \subseteq got..LastBuild /\ runs.daemon # None
    /\ walk /\ runs.agent # None => runs.agent = files.copy
    /\ share.ss /\ share.legacy /\ password.file = password.server

(* The policy that an install accepted is the one loaded, and the one that *)
(* a reboot loads (meshinstall.sh:302-331).                                *)
PolicyKept ==
  result = "installed" /\ policy \in {"lan", "block", "allow"} =>
    /\ pf = BootRuleset
    /\ pf = (IF policy = "allow" THEN "stock" ELSE policy)
=============================================================================
