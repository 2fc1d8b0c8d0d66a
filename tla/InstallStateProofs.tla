------------------------- MODULE InstallStateProofs -------------------------
(***************************************************************************)
(* Theorems about InstallState, for every number of builds and of scripts, *)
(* and whichever scripts may stop halfway.                                 *)
(*                                                                         *)
(* A script has no memory of the ones before it but what they left on the  *)
(* machine, so the invariants say, step by step, what each has established *)
(* by then, and that nothing around the scripts takes it back.             *)
(***************************************************************************)
EXTENDS InstallState, TLAPS

(* an install that has come past its first steps *)
Replaced == InstallSteps \ {"download", "replace"}
JobWritten == Replaced \ {"daemonjob"}
Swapped == JobWritten \ {"stage", "swap"}
Recorded == Swapped \ {"agentjob", "prestate"}
Shared == Recorded \ {"share"}
Opened == Shared \ {"password", "legacy"}
Written == Opened \ {"pwfile"}
Filtered == {"daemon", "who", "agent", "walk"}
Loaded == {"who", "agent", "walk"}

(* the script is at one of those steps, or was an install that succeeded   *)
Installing(steps) == pc \in steps \/ result = "installed"

ResultInv == pc # "idle" => result = "none"

BuildsInv ==
  /\ got <= server
  /\ Installing(Replaced) => files.disk \in got..LastBuild
  /\ pc = "swap" => files.stage \in got..LastBuild
  /\ Installing(Swapped) => files.copy \in got..LastBuild

(* The agent runs in the session of a user only; one that this install did *)
(* not start was started by a login since the console user was looked for. *)
RunsInv ==
  /\ Installing(JobWritten) => "daemon" \in plists
  /\ Installing(Loaded) => runs.daemon # None
  /\ ~user => runs.agent = None
  /\ pc \in {"agent", "walk"} /\ ~cuid /\ runs.agent # None
       => runs.agent = files.copy
  /\ result = "installed" /\ walk /\ runs.agent # None
       => runs.agent = files.copy

AccessInv ==
  /\ Installing(Recorded) => prestate # None
  /\ Installing(Shared) => share.ss
  /\ Installing(Opened) => share.legacy /\ password.server = password.script
  /\ Installing(Written) => password.file = password.script

PolicyInv ==
  /\ pc = "loadpf" => policy \in {"lan", "block"} /\ anchor = policy
  /\ Installing(Filtered) /\ policy \in {"lan", "block", "allow"} =>
       /\ pf = BootRuleset
       /\ pf = (IF policy = "allow" THEN "stock" ELSE policy)

InstallInv ==
  /\ TypeOK
  /\ ResultInv /\ BuildsInv /\ RunsInv /\ AccessInv /\ PolicyInv

-----------------------------------------------------------------------------
(* an uninstall that has come to a step, or has ended *)
Stopped == {"files", "anchor", "unloadpf", "unlegacy", "unshare"}
Removed == Stopped \ {"files"}
Unfiltered == {"unlegacy", "unshare"}

Uninstalling(steps) == pc \in steps \/ result = "uninstalled"

GoneInv ==
  /\ pc = "watcher" => plists \subseteq {"watcher"}
  /\ Uninstalling({"kill"} \cup Stopped) => plists = {}
  /\ Uninstalling(Stopped) => runs = [daemon |-> None, agent |-> None]
  /\ Uninstalling(Removed) => password.file = None /\ prestate = None
  /\ Uninstalling(Removed \ {"anchor"}) => anchor = None
  /\ Uninstalling(Unfiltered) => pf = "stock"

(* no service is off that was on *)
Kept(record) == (record.ss => share.ss) /\ (record.legacy => share.legacy)

(* Screen Sharing as the owner had it, legacy VNC at most as he had it *)
AsBefore == share.ss = before.ss /\ (share.legacy => before.legacy)

(* A record is what the owner had, and a script that stops leaves either a *)
(* record or the services untouched.                                       *)
RecordInv ==
  /\ prestate # None => prestate = before /\ Kept(prestate)
  /\ prestate = None /\ pc \in InstallSteps => share = before
  /\ prestate = None /\ pc = "idle" => AsBefore
  /\ pc \in UninstallSteps => saved \in {before, None}
  /\ pc \in UninstallSteps /\ saved # None => Kept(saved)
  /\ pc \in UninstallSteps /\ saved = None => AsBefore
  /\ Uninstalling({"unshare"}) /\ saved # None => share.legacy = before.legacy

UndoneInv == GoneInv /\ RecordInv

-----------------------------------------------------------------------------
(* Types                                                                   *)

FilesType == [disk : Builds \cup {None}, stage : Builds \cup {None},
              copy : Builds \cup {None}]
RunsType == [daemon : Builds \cup {None}, agent : Builds \cup {None}]
PasswordType == [server : 0..MaxScripts, script : 0..MaxScripts,
                 file : 0..MaxScripts \cup {None}]

(* TypeOK with the records' sets by name *)
Types ==
  /\ pc \in {"idle"} \cup InstallSteps \cup UninstallSteps
  /\ result \in {"none", "installed", "uninstalled", "stopped"}
  /\ scripts \in 0..MaxScripts /\ server \in Builds /\ got \in Builds
  /\ policy \in {"lan", "block", "allow", "unknown", "refused"}
  /\ walk \in BOOLEAN /\ cuid \in BOOLEAN /\ user \in BOOLEAN
  /\ files \in FilesType /\ runs \in RunsType
  /\ plists \subseteq {"daemon", "agent", "watcher", "pf"}
  /\ share \in Sharing /\ before \in Sharing
  /\ prestate \in Sharing \cup {None} /\ saved \in Sharing \cup {None}
  /\ password \in PasswordType
  /\ anchor \in {None, "lan", "block"} /\ pf \in {"stock", "lan", "block"}

LEMMA TypeParts == (TypeOK <=> Types) /\ (TypeOK' <=> Types')
BY DEF TypeOK, Types, FilesType, RunsType, PasswordType

LEMMA FilesSet ==
  ASSUME files \in FilesType, NEW b \in Builds \cup {None},
         NEW c \in Builds \cup {None}
  PROVE  /\ [files EXCEPT !.disk = b] \in FilesType
         /\ [files EXCEPT !.stage = b] \in FilesType
         /\ [files EXCEPT !.disk = b, !.copy = c] \in FilesType
         /\ [files EXCEPT !.copy = b, !.stage = c] \in FilesType
         /\ files.disk \in Builds \cup {None} /\ files.stage \in Builds \cup {None}
         /\ files.copy \in Builds \cup {None}
BY DEF FilesType

LEMMA RunsSet ==
  ASSUME runs \in RunsType, NEW b \in Builds \cup {None},
         NEW c \in Builds \cup {None}
  PROVE  /\ [runs EXCEPT !.daemon = b] \in RunsType
         /\ [runs EXCEPT !.agent = b] \in RunsType
         /\ [daemon |-> b, agent |-> c] \in RunsType
         /\ runs.daemon \in Builds \cup {None} /\ runs.agent \in Builds \cup {None}
BY DEF RunsType

LEMMA PasswordSet ==
  ASSUME password \in PasswordType, NEW n \in 0..MaxScripts
  PROVE  /\ [password EXCEPT !.server = n] \in PasswordType
         /\ [password EXCEPT !.script = n] \in PasswordType
         /\ [password EXCEPT !.file = n] \in PasswordType
         /\ [password EXCEPT !.file = None] \in PasswordType
         /\ password.script \in 0..MaxScripts
BY DEF PasswordType

LEMMA ShareSet ==
  ASSUME share \in Sharing, NEW b \in BOOLEAN
  PROVE  /\ [share EXCEPT !.ss = b] \in Sharing
         /\ [share EXCEPT !.legacy = b] \in Sharing
         /\ share.ss \in BOOLEAN /\ share.legacy \in BOOLEAN
BY DEF Sharing

LEMMA InstallType ==
  ASSUME InstallInv, Install
  PROVE  TypeOK'
<1>0. /\ scripts \in 0..MaxScripts /\ server \in Builds /\ got \in Builds
      /\ files \in FilesType /\ runs \in RunsType /\ password \in PasswordType
      /\ share \in Sharing
  BY TypeParts DEF InstallInv, Types
<1>1. CASE BeginInstall
  <2>1. scripts' \in 0..MaxScripts
    BY <1>0, <1>1, InstallAssumption DEF BeginInstall, Begin
  <2>2. QED
    BY <1>1, <2>1, TypeParts
       DEF InstallInv, Types, BeginInstall, Begin, InstallSteps, fileVars,
           jobVars, pfVars
<1>2. CASE Download \/ Replace \/ StageCopy \/ SwapCopy
  <2>1. got' \in Builds /\ files' \in FilesType
    BY <1>0, <1>2, FilesSet DEF Download, Replace, StageCopy, SwapCopy
  <2>2. QED
    BY <1>2, <2>1, TypeParts
       DEF InstallInv, Types, Download, Replace, StageCopy, SwapCopy, Step,
           InstallSteps, runVars, jobVars, shareVars, pfVars
<1>3. CASE WriteDaemonJob \/ WriteAgentJob
  <2>1. /\ UNCHANGED <<runVars, fileVars, user, runs, shareVars, password, pfVars>>
        /\ plists' \subseteq {"daemon", "agent", "watcher", "pf"}
        /\ pc' \in InstallSteps
    BY <1>3, TypeParts
       DEF InstallInv, Types, WriteDaemonJob, WriteAgentJob, Step, InstallSteps
  <2>2. QED
    BY <2>1, TypeParts DEF InstallInv, Types, runVars, fileVars, shareVars, pfVars
<1>4. CASE RecordPrestate \/ EnableSharing \/ EnableLegacy
  <2>1. /\ share' \in Sharing /\ prestate' \in Sharing \cup {None}
        /\ password' \in PasswordType
    BY <1>0, <1>4, ShareSet, PasswordSet, TypeParts
       DEF InstallInv, Types, RecordPrestate, EnableSharing, EnableLegacy
  <2>2. QED
    BY <1>4, <2>1, TypeParts
       DEF InstallInv, Types, RecordPrestate, EnableSharing, EnableLegacy, Step,
           InstallSteps, runVars, fileVars, jobVars, pfVars
<1>5. CASE NewPassword \/ WritePassword
  <2>1. password' \in PasswordType
    BY <1>0, <1>5, PasswordSet DEF NewPassword, WritePassword
  <2>2. QED
    BY <1>5, <2>1, TypeParts
       DEF InstallInv, Types, NewPassword, WritePassword, Step, InstallSteps,
           runVars, fileVars, jobVars, shareVars, pfVars
<1>6. CASE PfRemove \/ PfWriteRuleset \/ PfLoad \/ PfRefused \/ PfUnknown
  <2>1. /\ plists' \subseteq {"daemon", "agent", "watcher", "pf"}
        /\ anchor' \in {None, "lan", "block"} /\ pf' \in {"stock", "lan", "block"}
        /\ policy' \in {"lan", "block", "allow", "unknown", "refused"}
    BY <1>6, TypeParts
       DEF InstallInv, Types, PolicyInv, PfRemove, PfWriteRuleset, PfLoad, PfRefused,
           PfUnknown, Step, runVars, jobVars, pfVars
  <2>2. QED
    BY <1>6, <2>1, TypeParts
       DEF InstallInv, Types, PfRemove, PfWriteRuleset, PfLoad, PfRefused,
           PfUnknown, Step, InstallSteps, runVars, fileVars, jobVars, shareVars
<1>7. CASE LoadDaemon \/ ConsoleUser \/ LoadAgent \/ Walkthrough
  <2>1. /\ runs' \in RunsType /\ cuid' \in BOOLEAN
        /\ plists' \subseteq {"daemon", "agent", "watcher", "pf"}
    BY <1>0, <1>7, FilesSet, RunsSet, TypeParts
       DEF InstallInv, Types, LoadDaemon, ConsoleUser, LoadAgent, Walkthrough, runVars,
           jobVars
  <2>2. QED
    BY <1>7, <2>1, TypeParts
       DEF InstallInv, Types, LoadDaemon, ConsoleUser, LoadAgent, Walkthrough,
           Step, End, InstallSteps, runVars, fileVars, jobVars, shareVars, pfVars
<1>8. QED
  BY <1>1, <1>2, <1>3, <1>4, <1>5, <1>6, <1>7 DEF Install

LEMMA UninstallType ==
  ASSUME InstallInv, Uninstall
  PROVE  TypeOK'
<1>0. /\ scripts \in 0..MaxScripts /\ files \in FilesType /\ runs \in RunsType
      /\ password \in PasswordType /\ share \in Sharing
  BY TypeParts DEF InstallInv, Types
<1>1. CASE BeginUninstall
  <2>1. scripts' \in 0..MaxScripts
    BY <1>0, <1>1, InstallAssumption DEF BeginUninstall, Begin
  <2>2. /\ UNCHANGED <<policy, walk, fileVars, jobVars, share, prestate, before,
                       password, pfVars>>
        /\ pc' \in UninstallSteps /\ result' = "none"
        /\ saved' \in Sharing \cup {None} /\ cuid' \in BOOLEAN
    BY <1>1, TypeParts DEF InstallInv, Types, BeginUninstall, Begin, UninstallSteps
  <2>3. QED
    BY <2>1, <2>2, TypeParts DEF InstallInv, Types, fileVars, jobVars, pfVars
<1>2. CASE RemoveJobs \/ RemoveWatcher \/ KillStragglers
  <2>1. runs' \in RunsType
    BY <1>0, <1>2, RunsSet DEF RemoveJobs, RemoveWatcher, KillStragglers
  <2>2. QED
    BY <1>2, <2>1, TypeParts
       DEF InstallInv, Types, RemoveJobs, RemoveWatcher, KillStragglers, Step,
           UninstallSteps, runVars, fileVars, shareVars, pfVars
<1>3. CASE RemoveFiles
  <2>1. files' \in FilesType /\ password' \in PasswordType
    BY <1>0, <1>3, PasswordSet DEF RemoveFiles, FilesType
  <2>2. /\ UNCHANGED <<runVars, server, got, jobVars, share, before, saved, pfVars>>
        /\ pc' \in UninstallSteps /\ prestate' = None
    BY <1>3 DEF RemoveFiles, Step, UninstallSteps
  <2>3. QED
    BY <2>1, <2>2, TypeParts
       DEF InstallInv, Types, runVars, jobVars, pfVars
<1>4. CASE RemoveAnchor \/ RestorePf
  BY <1>4, TypeParts
     DEF InstallInv, Types, RemoveAnchor, RestorePf, Step, UninstallSteps,
         runVars, fileVars, jobVars, shareVars
<1>5. CASE RestoreLegacy \/ RestoreSharing
  <2>1. share' \in Sharing
    BY <1>0, <1>5, ShareSet DEF RestoreLegacy, RestoreSharing
  <2>2. /\ UNCHANGED <<scripts, policy, walk, cuid, fileVars, jobVars, prestate,
                       before, saved, password, pfVars>>
        /\ pc' \in {"idle", "unshare"} /\ result' \in {result, "uninstalled"}
    BY <1>5 DEF RestoreLegacy, RestoreSharing, Step, End, runVars
  <2>3. QED
    BY <2>1, <2>2, TypeParts
       DEF InstallInv, Types, UninstallSteps, fileVars, jobVars, pfVars
<1>6. QED
  BY <1>1, <1>2, <1>3, <1>4, <1>5 DEF Uninstall

LEMMA AroundType ==
  ASSUME InstallInv, Around
  PROVE  TypeOK'
<1>0. /\ server \in Builds /\ files \in FilesType /\ runs \in RunsType
      /\ None \in Builds \cup {None}
  BY TypeParts DEF InstallInv, Types
<1>1. CASE Stop
  <2>1. files' \in FilesType
    BY <1>0, <1>1, FilesSet DEF Stop
  <2>2. QED
    BY <1>1, <2>1, TypeParts
       DEF InstallInv, Types, Stop, jobVars, shareVars, pfVars
<1>2. CASE Publish
  <2>1. server' \in Builds
    BY <1>0, <1>2, InstallAssumption DEF Publish, Builds
  <2>2. QED
    BY <1>2, <2>1, TypeParts
       DEF InstallInv, Types, Publish, runVars, jobVars, shareVars, pfVars
<1>3. CASE SelfUpdate \/ DaemonRelaunched
  <2>1. PICK build \in Builds : DaemonStarts(build)
    <3>1. files.disk # None => files.disk \in Builds
      BY <1>0, FilesSet
    <3>2. QED
      BY <1>0, <1>3, <3>1 DEF SelfUpdate, DaemonRelaunched, DaemonStarts
  <2>2. files' \in FilesType /\ runs' \in RunsType
    BY <1>0, <2>1, FilesSet, RunsSet DEF DaemonStarts
  <2>3. QED
    BY <2>1, <2>2, TypeParts
       DEF InstallInv, Types, DaemonStarts, runVars, shareVars, pfVars
<1>4. CASE AgentRelaunched \/ Login \/ Logout
  <2>1. runs' \in RunsType /\ user' \in BOOLEAN
    BY <1>0, <1>4, FilesSet, RunsSet, TypeParts
       DEF InstallInv, Types, AgentRelaunched, Login, Logout
  <2>2. UNCHANGED <<pc, runVars, fileVars, plists, shareVars, password, pfVars>>
    BY <1>4 DEF AgentRelaunched, Login, Logout
  <2>3. QED
    BY <2>1, <2>2, TypeParts
       DEF InstallInv, Types, runVars, fileVars, shareVars, pfVars
<1>5. CASE Reboot
  <2>1. runs' \in RunsType /\ pf' \in {"stock", "lan", "block"}
    BY <1>0, <1>5, FilesSet, RunsSet, TypeParts
       DEF InstallInv, Types, Reboot, BootRuleset
  <2>2. QED
    BY <1>5, <2>1, TypeParts
       DEF InstallInv, Types, Reboot, fileVars, shareVars
<1>6. CASE OwnerSets
  BY <1>6, TypeParts
     DEF InstallInv, Types, OwnerSets, runVars, fileVars, jobVars, pfVars
<1>7. QED
  BY <1>1, <1>2, <1>3, <1>4, <1>5, <1>6 DEF Around

-----------------------------------------------------------------------------
(* An install *)

LEMMA NumberTypes ==
  ASSUME InstallInv
  PROVE  /\ got \in Builds /\ server \in Builds /\ None \notin Builds
         /\ got..LastBuild \subseteq Builds
         /\ files \in FilesType /\ runs \in RunsType /\ password \in PasswordType
         /\ share \in Sharing /\ None \notin Sharing
         /\ server \in got..LastBuild
BY InstallAssumption, TypeParts DEF InstallInv, Types, BuildsInv, Builds, Sharing

LEMMA BeginStep ==
  ASSUME InstallInv, BeginInstall \/ BeginUninstall
  PROVE  InstallInv'
<1>1. TypeOK'
  BY InstallType, UninstallType DEF Install, Uninstall
<1>2. /\ pc' \in {"download", "jobs"} /\ result' = "none"
      /\ UNCHANGED <<fileVars, jobVars>>
  BY DEF BeginInstall, BeginUninstall, Begin
<1>3. ResultInv' /\ BuildsInv' /\ RunsInv' /\ AccessInv' /\ PolicyInv'
  BY <1>2
     DEF InstallInv, ResultInv, BuildsInv, RunsInv, AccessInv, PolicyInv,
         Installing, Replaced, JobWritten, Swapped, Recorded, Shared, Opened,
         Written, Filtered, Loaded, InstallSteps, fileVars, jobVars
<1>4. QED
  BY <1>1, <1>3 DEF InstallInv

LEMMA FetchStep ==
  ASSUME InstallInv,
         Download \/ Replace \/ WriteDaemonJob \/ StageCopy \/ SwapCopy
           \/ WriteAgentJob
  PROVE  InstallInv'
<1>1. TypeOK'
  BY InstallType DEF Install
<1>2. /\ pc \in {"download", "replace", "daemonjob", "stage", "swap", "agentjob"}
      /\ result = "none"
      /\ UNCHANGED <<runVars, server, user, runs, shareVars, password, pfVars>>
      /\ pc' \in {"replace", "daemonjob", "stage", "swap", "agentjob", "prestate"}
  BY DEF InstallInv, ResultInv, Download, Replace, WriteDaemonJob, StageCopy,
         SwapCopy, WriteAgentJob, Step, fileVars, jobVars
<1>3. BuildsInv'
  <2>1. CASE Download
    BY <2>1, NumberTypes
       DEF Download, Step, BuildsInv, Builds, Installing, InstallInv, ResultInv,
           Replaced, JobWritten, Swapped, InstallSteps, runVars
  <2>2. CASE Replace \/ StageCopy \/ SwapCopy
    <3>1. /\ got' = got /\ server' = server /\ result' = "none"
          /\ pc' = "daemonjob" => files'.disk = got
          /\ pc' = "swap" => files'.disk = files.disk /\ files'.stage = files.disk
          /\ pc' = "agentjob" => /\ files'.disk = files.disk
                                 /\ files'.copy = files.stage
          /\ <<pc, pc'>> \in {<<"replace", "daemonjob">>, <<"stage", "swap">>,
                              <<"swap", "agentjob">>}
      BY <1>2, <2>2, NumberTypes
         DEF Replace, StageCopy, SwapCopy, Step, FilesType, runVars
    <3>2. got \in got..LastBuild
      BY NumberTypes, InstallAssumption DEF Builds
    <3>3. QED
      BY <3>1, <3>2
         DEF InstallInv, BuildsInv, Installing, Replaced, JobWritten, Swapped,
             InstallSteps
  <2>3. CASE WriteDaemonJob \/ WriteAgentJob
    BY <2>3
       DEF WriteDaemonJob, WriteAgentJob, Step, InstallInv, BuildsInv, Installing,
           Replaced, JobWritten, Swapped, InstallSteps, runVars, fileVars
  <2>4. QED
    BY <2>1, <2>2, <2>3
<1>4. RunsInv'
  <2>1. Installing(JobWritten)' => "daemon" \in plists'
    BY <1>2
       DEF Download, Replace, WriteDaemonJob, StageCopy, SwapCopy, WriteAgentJob,
           Step, InstallInv, RunsInv, Installing, JobWritten, Replaced,
           InstallSteps, runVars, jobVars
  <2>2. QED
    BY <1>2, <2>1
       DEF InstallInv, RunsInv, Installing, Loaded, runVars
<1>5. ResultInv' /\ AccessInv' /\ PolicyInv'
  BY <1>2
     DEF ResultInv, AccessInv, PolicyInv, Installing, Recorded, Shared, Opened,
         Written, Filtered, Swapped, JobWritten, Replaced, InstallSteps, runVars
<1>6. QED
  BY <1>1, <1>3, <1>4, <1>5 DEF InstallInv

LEMMA AccessStep ==
  ASSUME InstallInv,
         RecordPrestate \/ EnableSharing \/ NewPassword \/ EnableLegacy
           \/ WritePassword
  PROVE  InstallInv'
<1>1. TypeOK'
  BY InstallType DEF Install
<1>2. /\ pc \in {"prestate", "share", "password", "legacy", "pwfile"}
      /\ result = "none"
      /\ UNCHANGED <<runVars, fileVars, jobVars, pfVars>>
      /\ pc' \in {"share", "password", "legacy", "pwfile", "pf"}
  BY DEF InstallInv, ResultInv, RecordPrestate, EnableSharing, NewPassword,
         EnableLegacy, WritePassword, Step
<1>3. ResultInv' /\ BuildsInv' /\ RunsInv' /\ PolicyInv'
  BY <1>2
     DEF InstallInv, ResultInv, BuildsInv, RunsInv, PolicyInv, Installing, Filtered,
         Loaded, Swapped, JobWritten, Replaced, InstallSteps, runVars, fileVars,
         jobVars
<1>4. AccessInv'
  <2>1. /\ share \in Sharing /\ password \in PasswordType /\ None \notin Sharing
      BY NumberTypes
  <2>2. CASE RecordPrestate
    BY <1>2, <2>1, <2>2
       DEF RecordPrestate, Step, AccessInv, Installing, Recorded, Shared, Opened,
           Written, Swapped, JobWritten, Replaced, InstallSteps, runVars
  <2>3. CASE EnableSharing
    BY <1>2, <2>1, <2>3
       DEF EnableSharing, Step, InstallInv, AccessInv, Installing, Recorded, Shared,
           Opened, Written, Swapped, JobWritten, Replaced, InstallSteps, runVars,
           Sharing
  <2>4. CASE NewPassword
    BY <1>2, <2>1, <2>4
       DEF NewPassword, Step, InstallInv, AccessInv, Installing, Recorded, Shared,
           Opened, Written, Swapped, JobWritten, Replaced, InstallSteps, runVars,
           shareVars
  <2>5. CASE EnableLegacy
    BY <1>2, <2>1, <2>5
       DEF EnableLegacy, Step, InstallInv, AccessInv, Installing, Recorded, Shared,
           Opened, Written, Swapped, JobWritten, Replaced, InstallSteps, runVars,
           Sharing, PasswordType
  <2>6. CASE WritePassword
    BY <1>2, <2>1, <2>6
       DEF WritePassword, Step, InstallInv, AccessInv, Installing, Recorded, Shared,
           Opened, Written, Swapped, JobWritten, Replaced, InstallSteps, runVars,
           shareVars, PasswordType
  <2>7. QED
    BY <2>2, <2>3, <2>4, <2>5, <2>6
<1>5. QED
  BY <1>1, <1>3, <1>4 DEF InstallInv

LEMMA FilterStep ==
  ASSUME InstallInv,
         PfRemove \/ PfWriteRuleset \/ PfLoad \/ PfRefused \/ PfUnknown
  PROVE  InstallInv'
<1>1. TypeOK'
  BY InstallType DEF Install
<1>2. /\ pc \in {"pf", "loadpf"} /\ result = "none"
      /\ UNCHANGED <<result, scripts, walk, cuid, fileVars, user, runs, shareVars,
                     password>>
      /\ pc' \in {"loadpf", "daemon"}
      /\ "daemon" \in plists' <=> "daemon" \in plists
  BY DEF InstallInv, ResultInv, PfRemove, PfWriteRuleset, PfLoad, PfRefused,
         PfUnknown, Step, runVars, jobVars
<1>3. ResultInv' /\ BuildsInv' /\ RunsInv' /\ AccessInv'
  BY <1>2
     DEF InstallInv, ResultInv, BuildsInv, RunsInv, AccessInv, Installing, Loaded,
         Recorded, Shared, Opened, Written, Swapped, JobWritten, Replaced,
         InstallSteps, fileVars, shareVars
<1>4. PolicyInv'
  <2>1. CASE PfRemove
    BY <1>2, <2>1 DEF PfRemove, Step, PolicyInv, BootRuleset, runVars
  <2>2. CASE PfWriteRuleset
    BY <1>2, <2>2
       DEF PfWriteRuleset, Step, PolicyInv, Installing, Filtered, runVars
  <2>3. CASE PfLoad
    BY <1>2, <2>3, InstallAssumption
       DEF PfLoad, Step, InstallInv, PolicyInv, BootRuleset, runVars
  <2>4. CASE PfRefused \/ PfUnknown
    BY <1>2, <2>4 DEF PfRefused, PfUnknown, Step, PolicyInv, runVars
  <2>5. QED
    BY <2>1, <2>2, <2>3, <2>4
<1>5. QED
  BY <1>1, <1>3, <1>4 DEF InstallInv

LEMMA LoadStep ==
  ASSUME InstallInv, LoadDaemon \/ ConsoleUser \/ LoadAgent \/ Walkthrough
  PROVE  InstallInv'
<1>1. TypeOK'
  BY InstallType DEF Install
<1>2. /\ pc \in {"daemon", "who", "agent", "walk"} /\ result = "none"
      /\ UNCHANGED <<scripts, policy, walk, fileVars, user, shareVars, password,
                     pfVars>>
      /\ \/ pc' \in {"who", "agent", "walk"} /\ result' = "none"
         \/ pc' = "idle" /\ result' = "installed"
      /\ \A job \in {"daemon", "pf"} : job \in plists' <=> job \in plists
  BY DEF InstallInv, ResultInv, LoadDaemon, ConsoleUser, LoadAgent, Walkthrough,
         Step, End, runVars, jobVars
<1>3. ResultInv' /\ BuildsInv' /\ AccessInv'
  BY <1>2
     DEF InstallInv, ResultInv, BuildsInv, AccessInv, Installing, Recorded, Shared,
         Opened, Written, Swapped, JobWritten, Replaced, InstallSteps, fileVars,
         shareVars
<1>4. PolicyInv'
  BY <1>2
     DEF InstallInv, PolicyInv, Installing, Filtered, BootRuleset, pfVars
<1>5. RunsInv'
  <2>1. /\ "daemon" \in plists /\ files.disk \in Builds /\ None \notin Builds
        /\ runs \in RunsType /\ files \in FilesType
        /\ pc # "daemon" => runs.daemon # None
    BY <1>2, NumberTypes
       DEF InstallInv, RunsInv, BuildsInv, Installing, Loaded, JobWritten, Replaced,
           InstallSteps
  <2>2. CASE LoadDaemon
    BY <1>2, <2>1, <2>2
       DEF LoadDaemon, Step, InstallInv, RunsInv, RunsType, runVars
  <2>3. CASE ConsoleUser
    BY <1>2, <2>1, <2>3 DEF ConsoleUser, Step, InstallInv, RunsInv, jobVars
  <2>4. CASE LoadAgent
    BY <1>2, <2>1, <2>4
       DEF LoadAgent, Step, InstallInv, RunsInv, RunsType, runVars, fileVars
  <2>5. CASE Walkthrough
    BY <1>2, <2>1, <2>5
       DEF Walkthrough, End, Step, InstallInv, RunsInv, RunsType, fileVars
  <2>6. QED
    BY <2>2, <2>3, <2>4, <2>5
<1>6. QED
  BY <1>1, <1>3, <1>4, <1>5 DEF InstallInv

-----------------------------------------------------------------------------
(* An uninstall claims nothing of what an install establishes.             *)

LEMMA RemoveStep ==
  ASSUME InstallInv,
         RemoveJobs \/ RemoveWatcher \/ KillStragglers \/ RemoveFiles
           \/ RemoveAnchor \/ RestorePf \/ RestoreLegacy \/ RestoreSharing
  PROVE  InstallInv'
<1>1. TypeOK'
  BY UninstallType DEF Uninstall
<1>2. /\ pc \in UninstallSteps /\ result = "none" /\ UNCHANGED <<server, got, user>>
      /\ \/ pc' \in UninstallSteps /\ result' = "none"
         \/ pc' = "idle" /\ result' = "uninstalled"
  BY DEF InstallInv, ResultInv, RemoveJobs, RemoveWatcher, KillStragglers,
         RemoveFiles, RemoveAnchor, RestorePf, RestoreLegacy, RestoreSharing, Step,
         End, UninstallSteps, runVars, fileVars, jobVars
<1>3. runs'.agent \in {None, runs.agent}
  <2>1. CASE RemoveJobs \/ KillStragglers
    BY <2>1 DEF RemoveJobs, KillStragglers
  <2>2. CASE ~(RemoveJobs \/ KillStragglers)
    BY <2>2
       DEF RemoveWatcher, RemoveFiles, RemoveAnchor, RestorePf, RestoreLegacy,
           RestoreSharing, jobVars
  <2>3. QED
    BY <2>1, <2>2
<1>4. ResultInv' /\ BuildsInv' /\ RunsInv' /\ AccessInv' /\ PolicyInv'
  BY <1>2, <1>3
     DEF InstallInv, ResultInv, BuildsInv, RunsInv, AccessInv, PolicyInv,
         Installing, Replaced, JobWritten, Swapped, Recorded, Shared, Opened,
         Written, Filtered, Loaded, InstallSteps, UninstallSteps
<1>5. QED
  BY <1>1, <1>4 DEF InstallInv

-----------------------------------------------------------------------------
(* What happens around the scripts takes back nothing of it.               *)

LEMMA StopStep ==
  ASSUME InstallInv, Stop
  PROVE  InstallInv'
<1>1. TypeOK'
  BY AroundType DEF Around
<1>2. /\ pc' = "idle" /\ result' = "stopped"
      /\ UNCHANGED <<server, got, user, runs>>
  BY DEF Stop, jobVars
<1>3. ResultInv' /\ BuildsInv' /\ RunsInv' /\ AccessInv' /\ PolicyInv'
  BY <1>2
     DEF InstallInv, ResultInv, BuildsInv, RunsInv, AccessInv, PolicyInv,
         Installing, Replaced, JobWritten, Swapped, Recorded, Shared, Opened,
         Written, Filtered, Loaded, InstallSteps
<1>4. QED
  BY <1>1, <1>3 DEF InstallInv

LEMMA WorldStep ==
  ASSUME InstallInv, Publish \/ OwnerSets
  PROVE  InstallInv'
<1>1. TypeOK'
  BY AroundType DEF Around
<1>2. /\ UNCHANGED <<pc, runVars, got, files, jobVars, prestate, password, pfVars>>
      /\ server' = server \/ server' = server + 1
      /\ share' = share \/ (prestate = None /\ pc = "idle")
  BY DEF Publish, OwnerSets, fileVars, shareVars
<1>3. got <= server'
  BY <1>2, NumberTypes DEF InstallInv, BuildsInv, Builds
<1>4. share' # share => result # "installed"
  BY <1>2 DEF InstallInv, AccessInv, Installing
<1>5. ResultInv' /\ BuildsInv' /\ RunsInv' /\ PolicyInv'
  BY <1>2, <1>3
     DEF InstallInv, ResultInv, BuildsInv, RunsInv, PolicyInv, Installing,
         BootRuleset, runVars, jobVars, pfVars
<1>6. AccessInv'
  <2>1. CASE share' = share
    BY <1>2, <2>1 DEF InstallInv, AccessInv, Installing, runVars
  <2>2. CASE share' # share
    BY <1>2, <1>4, <2>2
       DEF AccessInv, Installing, Recorded, Shared, Opened, Written, Swapped,
           JobWritten, Replaced, InstallSteps, runVars
  <2>3. QED
    BY <2>1, <2>2
<1>7. QED
  BY <1>1, <1>5, <1>6 DEF InstallInv

(* a daemon that starts brings a newer build, or the one it is *)
LEMMA DaemonStep ==
  ASSUME InstallInv, SelfUpdate \/ DaemonRelaunched
  PROVE  InstallInv'
<1>1. TypeOK'
  BY AroundType DEF Around
<1>2. PICK build \in Builds :
        /\ DaemonStarts(build)
        /\ build = files.disk \/ build \in got..LastBuild
  <2>1. files.disk # None => files.disk \in Builds
    BY NumberTypes, FilesSet
  <2>2. QED
    BY <2>1, NumberTypes DEF SelfUpdate, DaemonRelaunched, DaemonStarts
<1>3. /\ UNCHANGED <<pc, runVars, server, got, user, plists, shareVars, password,
                     pfVars>>
      /\ files'.disk = build /\ files'.stage = files.stage
      /\ files'.copy = IF pc = "idle" /\ files.copy # None THEN build
                       ELSE files.copy
      /\ runs' = [daemon |-> build,
                  agent |-> IF runs.agent # None /\ files'.copy # files.copy
                            THEN build ELSE runs.agent]
  BY <1>2, NumberTypes DEF DaemonStarts, FilesType
<1>4. BuildsInv'
  <2>1. Installing(Replaced)' => build \in got..LastBuild
    BY <1>2, <1>3 DEF InstallInv, BuildsInv, Installing, runVars
  <2>2. Installing(Swapped)' => files'.copy \in got..LastBuild
    <3>1. CASE result = "installed"
      BY <1>3, <2>1, <3>1 DEF InstallInv, BuildsInv, Installing, runVars
    <3>2. CASE result # "installed"
      BY <1>3, <3>2
         DEF InstallInv, BuildsInv, Installing, Swapped, JobWritten, Replaced,
             InstallSteps, runVars
    <3>3. QED
      BY <3>1, <3>2
  <2>3. QED
    BY <1>3, <2>1, <2>2 DEF InstallInv, BuildsInv
<1>5. RunsInv'
  <2>1. build # None
    BY NumberTypes
  <2>2. runs'.daemon = build
    BY <1>3
  <2>3. runs.agent = None => runs'.agent = None
    BY <1>3
  <2>4. runs'.agent # None /\ runs.agent = files.copy => runs'.agent = files'.copy
    BY <1>3
  <2>5. QED
    BY <1>3, <2>1, <2>2, <2>3, <2>4 DEF InstallInv, RunsInv, Installing, runVars
<1>6. ResultInv' /\ AccessInv' /\ PolicyInv'
  BY <1>3
     DEF InstallInv, ResultInv, AccessInv, PolicyInv, Installing, BootRuleset,
         runVars, shareVars, pfVars
<1>7. QED
  BY <1>1, <1>4, <1>5, <1>6 DEF InstallInv

LEMMA SessionStep ==
  ASSUME InstallInv, AgentRelaunched \/ Login \/ Logout
  PROVE  InstallInv'
<1>1. TypeOK'
  BY AroundType DEF Around
<1>2. /\ UNCHANGED <<pc, runVars, fileVars, plists, shareVars, password, pfVars>>
      /\ runs'.daemon = runs.daemon
      /\ runs'.agent \in {None, files.copy}
      /\ user' \/ runs'.agent = None \/ (user' = user /\ runs.agent # None)
  BY NumberTypes DEF AgentRelaunched, Login, Logout, RunsType
<1>3. ResultInv' /\ BuildsInv' /\ AccessInv' /\ PolicyInv'
  BY <1>2
     DEF InstallInv, ResultInv, BuildsInv, AccessInv, PolicyInv, Installing,
         BootRuleset, runVars, fileVars, shareVars, pfVars
<1>4. RunsInv'
  BY <1>2 DEF InstallInv, RunsInv, Installing, runVars, fileVars
<1>5. QED
  BY <1>1, <1>3, <1>4 DEF InstallInv

LEMMA RebootStep ==
  ASSUME InstallInv, Reboot
  PROVE  InstallInv'
<1>1. TypeOK'
  BY AroundType DEF Around
<1>2. /\ UNCHANGED <<policy, walk, fileVars, plists, shareVars, password, anchor>>
      /\ pc' = "idle" /\ result' \in {result, "stopped"}
      /\ ~user' /\ pf' = BootRuleset /\ runs'.agent = None
      /\ "daemon" \in plists => runs'.daemon = files.disk
  BY DEF Reboot
<1>3. ResultInv' /\ BuildsInv' /\ AccessInv'
  BY <1>2
     DEF InstallInv, ResultInv, BuildsInv, AccessInv, Installing, Replaced,
         JobWritten, Swapped, Recorded, Shared, Opened, Written, InstallSteps,
         fileVars, shareVars
<1>4. RunsInv'
  <2>1. result = "installed" => "daemon" \in plists /\ files.disk # None
    BY NumberTypes DEF InstallInv, RunsInv, BuildsInv, Installing
  <2>2. QED
    BY <1>2, <2>1
       DEF InstallInv, RunsInv, Installing, JobWritten, Replaced, Loaded,
           InstallSteps
<1>5. PolicyInv'
  BY <1>2 DEF InstallInv, PolicyInv, Installing, Filtered, BootRuleset
<1>6. QED
  BY <1>1, <1>3, <1>4, <1>5 DEF InstallInv

LEMMA InstallInvNext == InstallInv /\ [Next]_vars => InstallInv'
<1>1. CASE UNCHANGED vars
  <2>1. InstallInv => InstallInv'
    BY <1>1, TypeParts
       DEF vars, runVars, fileVars, jobVars, shareVars, pfVars, InstallInv, Types,
           ResultInv, BuildsInv, RunsInv, AccessInv, PolicyInv, Installing,
           BootRuleset
  <2>2. QED
    BY <2>1
<1>2. QED
  BY <1>1, BeginStep, FetchStep, AccessStep, FilterStep, LoadStep, RemoveStep,
     StopStep, WorldStep, DaemonStep, SessionStep, RebootStep
     DEF Next, Install, Uninstall, Around

LEMMA InstallInvHolds == Spec => []InstallInv
<1>1. Init => InstallInv
  <2>1. SUFFICES ASSUME Init
                 PROVE  InstallInv
    OBVIOUS
  <2>2. Types
    <3>1. /\ 1 \in Builds /\ 0 \in 0..MaxScripts
      BY InstallAssumption DEF Builds
    <3>2. files \in FilesType /\ runs \in RunsType /\ password \in PasswordType
      BY <2>1, <3>1 DEF Init, FilesType, RunsType, PasswordType
    <3>3. QED
      BY <2>1, <3>1, <3>2 DEF Init, Types
  <2>3. QED
    BY <2>1, <2>2, TypeParts
       DEF Init, InstallInv, ResultInv, BuildsInv, RunsInv, AccessInv, PolicyInv,
           Installing, Replaced, JobWritten, Swapped, Recorded, Shared, Opened,
           Written, Filtered, Loaded, InstallSteps
<1>2. QED
  BY <1>1, InstallInvNext, PTL DEF Spec

(* The scripts' state keeps its type: whatever stops or is started, the next
   script finds values it can go on from. *)
THEOREM InstallTypeOK == Spec => []TypeOK
BY InstallInvHolds, PTL DEF InstallInv

(* An install that reports success took effect, however often earlier ones
   stopped halfway, and stays in effect until the next script
   (meshinstall.sh). *)
THEOREM InstallSucceeds == Spec => []InstallTookEffect
<1>1. InstallInv => InstallTookEffect
  <2>1. SUFFICES ASSUME InstallInv, result = "installed"
                 PROVE  InstallTookEffect
    BY DEF InstallTookEffect
  <2>2. QED
    BY <2>1
       DEF InstallInv, BuildsInv, RunsInv, AccessInv, Installing, InstallTookEffect
<1>2. QED
  BY <1>1, InstallInvHolds, PTL

(* The policy for port 5900 that an install accepted is the one loaded, and
   the one that a reboot loads (meshinstall.sh). *)
THEOREM InstallPolicyKept == Spec => []PolicyKept
<1>1. InstallInv => PolicyKept
  BY DEF InstallInv, PolicyInv, Installing, PolicyKept
<1>2. QED
  BY <1>1, InstallInvHolds, PTL

-----------------------------------------------------------------------------
(* What an uninstall undoes, when uninstalls run to their end: one that    *)
(* stops after it has removed prestate.env has nothing to go by when it is *)
(* run again.                                                              *)

LEMMA InstallUndone ==
  ASSUME InstallInv, UndoneInv, Install
  PROVE  UndoneInv'
<1>1. /\ pc \in {"idle"} \cup InstallSteps
      /\ pc' \in InstallSteps \/ (pc' = "idle" /\ pc = "walk")
      /\ result' \in {"none", "installed"}
  BY DEF InstallInv, ResultInv, Install, BeginInstall, Begin, Download, Replace,
         WriteDaemonJob, StageCopy, SwapCopy, WriteAgentJob, RecordPrestate,
         EnableSharing, NewPassword, EnableLegacy, WritePassword, PfRemove,
         PfWriteRuleset, PfLoad, PfRefused, PfUnknown, LoadDaemon, ConsoleUser,
         LoadAgent, Walkthrough, Step, End, InstallSteps, runVars
<1>2. GoneInv'
  BY <1>1
     DEF GoneInv, Uninstalling, Stopped, Removed, Unfiltered, InstallSteps
<1>3. RecordInv'
  <2>0. /\ share \in Sharing /\ None \notin Sharing
        /\ pc \in Recorded => prestate # None
        /\ pc' = "idle" \/ pc' \in InstallSteps
        /\ pc' \notin UninstallSteps /\ ~Uninstalling({"unshare"})'
    BY <1>1, NumberTypes
       DEF InstallInv, AccessInv, Installing, Uninstalling, InstallSteps,
           UninstallSteps
  <2>1. CASE BeginInstall
    <3>1. /\ pc' = "download" /\ share' = share /\ prestate' = prestate
          /\ before' = IF prestate = None THEN share ELSE before
      BY <2>1 DEF BeginInstall, Begin
    <3>2. QED
      BY <2>0, <3>1 DEF UndoneInv, RecordInv, Kept
  <2>2. CASE RecordPrestate
    <3>1. /\ pc' = "share" /\ share' = share /\ before' = before
          /\ pc = "prestate" /\ pc \in InstallSteps
          /\ prestate' = IF prestate = None THEN share ELSE prestate
      BY <2>2 DEF RecordPrestate, Step, InstallSteps
    <3>2. QED
      BY <2>0, <3>1 DEF UndoneInv, RecordInv, Kept
  <2>3. CASE EnableSharing \/ EnableLegacy
    <3>1. /\ pc' # "idle" /\ before' = before /\ prestate' = prestate
          /\ prestate # None
          /\ share.ss => share'.ss
          /\ share.legacy => share'.legacy
      BY <2>0, <2>3
         DEF EnableSharing, EnableLegacy, Step, Recorded, Swapped, JobWritten,
             Replaced, InstallSteps, Sharing
    <3>2. QED
      BY <2>0, <3>1 DEF UndoneInv, RecordInv, Kept
  <2>4. CASE ~(BeginInstall \/ RecordPrestate \/ EnableSharing \/ EnableLegacy)
    <3>1. /\ UNCHANGED shareVars /\ pc \in InstallSteps
          /\ pc' \in InstallSteps \/ pc = "walk"
      BY <2>4
         DEF Install, Download, Replace, WriteDaemonJob, StageCopy, SwapCopy,
             WriteAgentJob, NewPassword, WritePassword, PfRemove, PfWriteRuleset,
             PfLoad, PfRefused, PfUnknown, LoadDaemon, ConsoleUser, LoadAgent,
             Walkthrough, Step, End, InstallSteps
    <3>2. pc = "walk" => prestate # None
      BY <2>0 DEF Recorded, Swapped, JobWritten, Replaced, InstallSteps
    <3>3. pc' = "idle" => pc = "walk"
      BY <3>1 DEF InstallSteps
    <3>4. QED
      BY <2>0, <3>1, <3>2, <3>3 DEF UndoneInv, RecordInv, Kept, shareVars
  <2>5. QED
    BY <2>1, <2>2, <2>3, <2>4
<1>4. QED
  BY <1>2, <1>3 DEF UndoneInv

LEMMA UninstallUndone ==
  ASSUME InstallInv, UndoneInv, Uninstall
  PROVE  UndoneInv'
<1>0. /\ plists \subseteq {"daemon", "agent", "watcher", "pf"}
      /\ runs \in RunsType /\ password \in PasswordType /\ share \in Sharing
      /\ None \notin Sharing /\ before \in Sharing
  BY NumberTypes, TypeParts DEF InstallInv, Types
<1>1. result' = "uninstalled" => RestoreSharing
  BY DEF InstallInv, ResultInv, Uninstall, BeginUninstall, Begin, RemoveJobs,
         RemoveWatcher, KillStragglers, RemoveFiles, RemoveAnchor, RestorePf,
         RestoreLegacy, Step, runVars
<1>2. CASE BeginUninstall
  <2>1. /\ pc = "idle" /\ pc' = "jobs" /\ result' = "none" /\ saved' = prestate
        /\ UNCHANGED <<share, prestate, before>>
    BY <1>2 DEF BeginUninstall, Begin
  <2>2. QED
    BY <2>1
       DEF UndoneInv, GoneInv, RecordInv, Uninstalling, Stopped, Removed, Unfiltered,
           Kept, AsBefore, InstallSteps
<1>3. CASE RemoveJobs \/ RemoveWatcher \/ KillStragglers
  <2>1. /\ UNCHANGED <<result, shareVars>> /\ result = "none"
        /\ pc \in UninstallSteps /\ pc' \in {"watcher", "kill", "files"}
    BY <1>3
       DEF InstallInv, ResultInv, RemoveJobs, RemoveWatcher, KillStragglers, Step,
           UninstallSteps, runVars
  <2>2. GoneInv'
    BY <1>0, <1>3, <2>1
       DEF RemoveJobs, RemoveWatcher, KillStragglers, Step, UndoneInv, GoneInv,
           Uninstalling, Stopped, Removed, Unfiltered
  <2>3. RecordInv'
    BY <2>1
       DEF UndoneInv, RecordInv, Uninstalling, Kept, AsBefore, InstallSteps,
           UninstallSteps, shareVars
  <2>4. QED
    BY <2>2, <2>3 DEF UndoneInv
<1>4. CASE RemoveFiles \/ RemoveAnchor \/ RestorePf
  <2>1. /\ UNCHANGED <<result, plists, runs, share, before, saved>>
        /\ result = "none" /\ prestate' \in {None, prestate}
        /\ pc \in {"files", "anchor", "unloadpf"}
        /\ pc' \in {"anchor", "unloadpf", "unlegacy"}
    BY <1>4
       DEF InstallInv, ResultInv, RemoveFiles, RemoveAnchor, RestorePf, Step,
           runVars, jobVars, shareVars
  <2>2. GoneInv'
    <3>1. /\ prestate' = None /\ password'.file = None
          /\ pc # "files" => UNCHANGED <<prestate, password>>
      BY <1>0, <1>4
         DEF RemoveFiles, RemoveAnchor, RestorePf, Step, UndoneInv, GoneInv,
             Uninstalling, Stopped, Removed, PasswordType, shareVars
    <3>2. /\ pc' # "anchor" => anchor' = None
          /\ pc' = "unlegacy" => pf' = "stock"
      BY <1>4, <2>1
         DEF RemoveFiles, RemoveAnchor, RestorePf, Step, UndoneInv, GoneInv,
             Uninstalling, Stopped, Removed
    <3>3. QED
      BY <2>1, <3>1, <3>2
         DEF UndoneInv, GoneInv, Uninstalling, Stopped, Removed, Unfiltered
  <2>3. RecordInv'
    BY <2>1
       DEF UndoneInv, RecordInv, Uninstalling, Kept, AsBefore, InstallSteps,
           UninstallSteps
  <2>4. QED
    BY <2>2, <2>3 DEF UndoneInv
<1>5. CASE RestoreLegacy \/ RestoreSharing
  <2>1. /\ UNCHANGED <<jobVars, prestate, before, saved, password, pfVars>>
        /\ pc \in {"unlegacy", "unshare"}
        /\ pc' \in {"unshare", "idle"}
        /\ pc' = "idle" <=> result' = "uninstalled"
    BY <1>5
       DEF InstallInv, ResultInv, RestoreLegacy, RestoreSharing, Step, End,
           UninstallSteps, runVars
  <2>2. GoneInv'
    BY <2>1
       DEF UndoneInv, GoneInv, Uninstalling, Stopped, Removed, Unfiltered, jobVars,
           pfVars
  <2>3. prestate = None
    BY <2>1 DEF UndoneInv, GoneInv, Uninstalling, Stopped, Removed
  <2>4. /\ saved \in {before, None}
        /\ saved # None => Kept(saved)
        /\ saved = None => AsBefore
    BY <2>1 DEF UndoneInv, RecordInv, UninstallSteps
  <2>5. CASE RestoreLegacy
    <3>1. /\ pc' = "unshare" /\ share'.ss = share.ss
          /\ share'.legacy = IF saved = None \/ ~saved.legacy THEN FALSE
                             ELSE share.legacy
      BY <1>0, <2>5 DEF RestoreLegacy, Step, Sharing
    <3>2. saved # None => share'.legacy = before.legacy
      BY <1>0, <2>4, <3>1 DEF Kept, Sharing
    <3>3. QED
      BY <1>0, <2>1, <2>2, <2>3, <2>4, <3>1, <3>2
         DEF UndoneInv, RecordInv, Kept, AsBefore, UninstallSteps, InstallSteps,
             Uninstalling, Sharing
  <2>6. CASE RestoreSharing
    <3>1. /\ pc = "unshare" /\ pc' = "idle" /\ share'.legacy = share.legacy
          /\ share'.ss = IF saved # None /\ ~saved.ss THEN FALSE ELSE share.ss
      BY <1>0, <2>6 DEF RestoreSharing, End, Step, Sharing
    <3>2. saved # None => share.legacy = before.legacy
      BY <3>1 DEF UndoneInv, RecordInv, Uninstalling
    <3>3. AsBefore'
      BY <1>0, <2>1, <2>4, <3>1, <3>2 DEF Kept, AsBefore, Sharing
    <3>4. QED
      BY <2>1, <2>2, <2>3, <3>1, <3>2, <3>3
         DEF UndoneInv, RecordInv, UninstallSteps, InstallSteps, Uninstalling
  <2>7. QED
    BY <1>5, <2>5, <2>6
<1>6. QED
  BY <1>2, <1>3, <1>4, <1>5 DEF Uninstall

LEMMA AroundUndone ==
  ASSUME InstallInv, UndoneInv, Around, "uninstall" \notin MayStop
  PROVE  UndoneInv'
<1>0. /\ runs \in RunsType /\ pc \in {"idle"} \cup InstallSteps \cup UninstallSteps
  BY TypeParts DEF InstallInv, Types
<1>1. CASE Stop \/ (Reboot /\ pc # "idle")
  <2>1. /\ pc \in InstallSteps /\ pc' = "idle" /\ result' = "stopped"
        /\ UNCHANGED shareVars
    BY <1>1 DEF Stop, Reboot, Stopping
  <2>2. QED
    BY <2>1
       DEF UndoneInv, GoneInv, RecordInv, Uninstalling, Stopped, Removed,
           Unfiltered, Kept, AsBefore, InstallSteps, UninstallSteps, shareVars
<1>2. CASE Reboot /\ pc = "idle"
  <2>1. /\ pc' = "idle" /\ result' = result /\ pf' = BootRuleset
        /\ UNCHANGED <<plists, shareVars, password, anchor>>
        /\ runs' = [daemon |-> IF "daemon" \in plists THEN files.disk ELSE None,
                    agent |-> None]
    BY <1>2 DEF Reboot
  <2>2. result = "uninstalled" => /\ pf' = "stock"
                                  /\ runs' = [daemon |-> None, agent |-> None]
    BY <2>1 DEF UndoneInv, GoneInv, Uninstalling, BootRuleset
  <2>3. QED
    BY <1>2, <2>1, <2>2
       DEF UndoneInv, GoneInv, RecordInv, Uninstalling, Stopped, Removed,
           Unfiltered, Kept, AsBefore, shareVars
<1>3. CASE Publish \/ SelfUpdate \/ DaemonRelaunched \/ AgentRelaunched \/ Login
             \/ Logout
  <2>1. UNCHANGED <<pc, runVars, plists, shareVars, password, pfVars>>
    BY <1>3
       DEF Publish, SelfUpdate, DaemonRelaunched, DaemonStarts, AgentRelaunched,
           Login, Logout, jobVars
  <2>2. ASSUME plists = {}, runs = [daemon |-> None, agent |-> None]
        PROVE  runs' = runs
    BY <1>3, <2>2
       DEF Publish, SelfUpdate, DaemonRelaunched, DaemonStarts, AgentRelaunched,
           Login, Logout, jobVars
  <2>3. QED
    BY <2>1, <2>2
       DEF UndoneInv, GoneInv, RecordInv, Uninstalling, Stopped, Kept, AsBefore,
           runVars, shareVars, pfVars
<1>4. CASE OwnerSets
  <2>1. /\ pc = "idle" /\ prestate = None /\ before' = share'
        /\ UNCHANGED <<pc, result, jobVars, prestate, saved, password, pfVars>>
    BY <1>4 DEF OwnerSets, runVars
  <2>2. QED
    BY <2>1
       DEF UndoneInv, GoneInv, RecordInv, Uninstalling, Stopped, Removed,
           Unfiltered, AsBefore, InstallSteps, UninstallSteps, jobVars, pfVars
<1>5. QED
  BY <1>1, <1>2, <1>3, <1>4 DEF Around

(* An uninstall that runs to its end leaves no job, process, password or pf
   rule, Screen Sharing as the owner had it, and legacy VNC as he had it or,
   when no record was left, off: for every number of builds and of scripts,
   installs that stop anywhere among them, provided uninstalls do not stop
   halfway (uninstall.sh). *)
THEOREM InstallUndoneAtEnd ==
  ASSUME "uninstall" \notin MayStop
  PROVE  Spec => []Undone
<1>1. Init => UndoneInv
  BY DEF Init, UndoneInv, GoneInv, RecordInv, Uninstalling, Stopped, Removed,
         Unfiltered, AsBefore, InstallSteps, UninstallSteps
<1>2. InstallInv /\ UndoneInv /\ [Next]_vars => UndoneInv'
  <2>1. CASE UNCHANGED vars
    BY <2>1
       DEF vars, runVars, fileVars, jobVars, shareVars, pfVars, UndoneInv, GoneInv,
           RecordInv, Uninstalling, Kept, AsBefore
  <2>2. QED
    BY <2>1, InstallUndone, UninstallUndone, AroundUndone DEF Next
<1>3. InstallInv /\ UndoneInv => Undone
  <2>1. SUFFICES ASSUME InstallInv, UndoneInv, result = "uninstalled"
                 PROVE  Undone
    BY DEF Undone
  <2>2. pc = "idle"
    BY <2>1 DEF InstallInv, ResultInv
  <2>3. QED
    BY <2>1, <2>2
       DEF UndoneInv, GoneInv, RecordInv, Uninstalling, AsBefore, BootRuleset, Undone
<1>4. QED
  BY <1>1, <1>2, <1>3, InstallInvHolds, PTL DEF Spec
=============================================================================
